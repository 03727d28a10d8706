------------------------------ MODULE TapeLayout ------------------------------
(***************************************************************************)
(* Where the code generator keeps a program on the tape: the frame of a    *)
(* function (backend/frame_layout.rs, layout_plan.rs), the globals and the *)
(* anchor of the stack (static_layout.rs), the fixed frames of functions   *)
(* that need no stack (codegen/static_frames.rs), and the regions of soft  *)
(* continuations that run within one visit of the dispatcher (regions.rs). *)
(*                                                                         *)
(* A chunk is a head, its allocation flag, and Chunk data cells.  A frame  *)
(* is, upwards, its aggregates, its values, its outbox, the route cells    *)
(* and the context; offsets are from the head of the context.  A global of *)
(* one cell is a scalar, any other an aggregate.                           *)
(***************************************************************************)
EXTENDS CirProgram

CONSTANTS
    Chunk,          \* DEFAULT_CHUNK_CELLS: 16
    PageCells,      \* PAGE_CELLS: 256 payload cells behind a portal
    TapeCells,      \* TAPE_CELLS: 30,000
    Bits,           \* 8 bits of a cell
    BankAnchors,    \* ANCHOR_BANK_GROUP: 16
    MaxTerminals,   \* 255 terminals of a region
    MaxExpanded,    \* MAX_EXPANDED_BLOCKS: 4,096
    MaxNesting      \* MAX_DEPTH: 128

Stride == Chunk + 1
RoundedUp(n, m) == (n + m - 1) \div m
Chunks(n) == RoundedUp(n, Chunk)
Lane(n) == (n \div Chunk) * Stride + 1 + (n % Chunk)

(* AbiField: the cells of a context. *)
Field == [value |-> 1, active |-> 2, pcLow |-> 3, pcHigh |-> 4, nextLow |-> 5, nextHigh |-> 6,
          condition |-> 7, restore |-> 8, branch |-> 9, index |-> 10, returnLow |-> 11, returnHigh |-> 12,
          scratch0 |-> 13, scratch1 |-> 14, scratch2 |-> 15, scratch3 |-> 16]

(* aggregate_region_chunks and aggregate_element_physical_offset: a chunk  *)
(* for a portal before every page.  (Mutant: before the first alone.)      *)
AggregateChunks_OnePortal(n) == IF n = 0 THEN 0 ELSE Chunks(n) + 1
AggregateChunks(n) == IF n = 0 THEN 0 ELSE Chunks(n) + RoundedUp(n, PageCells)
ElementOffset(k) ==
    LET page == k \div PageCells  within == k % PageCells IN
    (page * (Chunks(PageCells) + 1) + 1 + within \div Chunk) * Stride + 1 + (within % Chunk)

-----------------------------------------------------------------------------
(* maximum_branch_depth: a gate for each choice with an else arm.          *)
RECURSIVE BranchDepth(_)
BranchDepth(body) ==
    LET Depth(i) == CASE i.op = "loop" -> BranchDepth(i.body)
                      [] i.op = "if" /\ i.else = <<>> -> BranchDepth(i.then)
                      [] i.op = "if" /\ i.else # <<>> ->
                             1 + Max({BranchDepth(i.then), BranchDepth(i.else)})
                      [] OTHER -> 0
    IN  Max({0} \cup {Depth(body[k]) : k \in DOMAIN body})

Soft(t) == t.op \in {"goto", "branch"}

(* Builder::expand: the tree of the soft paths from c; a path ends at a    *)
(* continuation that stands above it, which becomes the header of a loop,  *)
(* or at a terminal, which is numbered.  "r" is the builder and its last   *)
(* node; "depth" counts the gates held at once.                            *)
HeaderGate(header) == IF header THEN 1 ELSE 0

RECURSIVE Expanded(_, _, _, _)
Expanded(p, c, above, r) ==
    LET t == p.nodes[c].end
        own == BranchDepth(p.nodes[c].body)
        under == above \cup {c}
        spent == [r EXCEPT !.left = @ - 1]
        Leaf(flow, n) == [id |-> c, flow |-> flow, index |-> n, next |-> <<>>, header |-> FALSE]
        Inner(flow, next, depth, s) ==
            [s EXCEPT !.node = [id |-> c, flow |-> flow, index |-> 0, next |-> next, header |-> c \in s.back],
                      !.depth = Max({own, depth}) + HeaderGate(c \in s.back),
                      !.back = @ \ {c}]
        Ends(n, s) == [s EXCEPT !.node = Leaf("terminal", n), !.depth = own]
        Fork(yes, no) == Inner("branch", <<yes.node, no.node>>, 2 + Max({yes.depth, no.depth}), no)
        Both(yes) == Fork(yes, Expanded(p, t.else, under, yes))
        One(next) == Inner("goto", <<next.node>>, next.depth, next)
    IN  CASE ~r.ok \/ r.left = 0 -> [r EXCEPT !.ok = FALSE]
          [] r.ok /\ r.left # 0 /\ c \in above ->
                 [spent EXCEPT !.node = Leaf("continue", 0), !.depth = 0, !.back = @ \cup {c}]
          [] r.ok /\ r.left # 0 /\ c \notin above /\ Cardinality(above) = MaxNesting -> [r EXCEPT !.ok = FALSE]
          [] r.ok /\ r.left # 0 /\ c \notin above /\ Cardinality(above) # MaxNesting ->
                 CASE t.op = "goto" -> One(Expanded(p, t.to, under, spent))
                   [] t.op = "branch" -> Both(Expanded(p, t.then, under, spent))
                   [] c \in Range(r.terminals) -> Ends(CHOOSE n \in DOMAIN r.terminals : r.terminals[n] = c, spent)
                   [] Len(r.terminals) = MaxTerminals -> [r EXCEPT !.ok = FALSE]
                   [] OTHER -> Ends(Len(r.terminals) + 1, [spent EXCEPT !.terminals = Append(@, c)])

(* RegionPlan::new.  What does not fit keeps its own entry, and so do the  *)
(* continuations it names.                                                 *)
Builder == [ok |-> TRUE, left |-> MaxExpanded, terminals |-> <<>>, back |-> {}, node |-> None, depth |-> 0]
Resumed(p) == {p.nodes[c].end.to : c \in {b \in DOMAIN p.nodes : Hard(p.nodes[b].end)}}

RECURSIVE EntriesFrom(_, _, _)
EntriesFrom(p, tree, cs) ==
    LET next == cs \cup UNION {Successors(p.nodes[c].end) : c \in {b \in cs \cap DOMAIN tree : ~tree[b].ok}} IN
    IF next = cs THEN cs ELSE EntriesFrom(p, tree, next)

RegionPlan(p) ==
    LET tree == [c \in {b \in DOMAIN p.nodes : Soft(p.nodes[b].end)} |-> Expanded(p, c, {}, Builder)]
        entries == EntriesFrom(p, tree, {p.functions[f].entry : f \in DOMAIN p.functions} \cup Resumed(p))
    IN  [on |-> TRUE, entries |-> entries,
         regions |-> [c \in {b \in entries \cap DOMAIN tree : tree[b].ok} |->
                         [root |-> tree[c].node, terminals |-> tree[c].terminals, depth |-> tree[c].depth]]]
NoRegions(p) == [on |-> FALSE, entries |-> DOMAIN p.nodes, regions |-> Nothing]

-----------------------------------------------------------------------------
(* global_context_functions: those that touch a global and their callers,  *)
(* but for the callers of a recursive function, and all that those call.   *)
CallersOf(p, fs) == {f \in DOMAIN p.functions : ReachedFrom(p, {f}) \cap fs # {}}
TouchesGlobal(p, f) ==
    \E c \in NodesOf(p, f) :
        LET e == EndEffects(p, f, p.nodes[c].end) IN
        \E a \in Touched(p.nodes[c].body) \cup e.reads \cup e.writes \cup e.may : a[1] = "global"
FixedFunctions(p) ==
    ReachedFrom(p, CallersOf(p, {f \in DOMAIN p.functions : TouchesGlobal(p, f)}) \ CallersOf(p, Recursive(p)))

(* collect_compare_slots and collect_truth_slots.  *)
RECURSIVE ComparedSlots(_)
ComparedSlots(body) ==
    UNION {LET i == body[k] IN
           CASE i.op \in {"compare", "sub"} ->
                    IF i.left # i.right /\ i.left[1] = "slot" /\ i.right[1] = "slot"
                    THEN {i.left[3], i.right[3]} ELSE {}
             [] i.op = "loop" -> ComparedSlots(i.body)
             [] i.op = "if" -> ComparedSlots(i.then) \cup ComparedSlots(i.else)
             [] OTHER -> {} : k \in DOMAIN body}

AddsTo(body, k, a) == k \in DOMAIN body /\ body[k].op = "add" /\ body[k].dst = a
Tests(body, k, a) == k \in DOMAIN body /\ body[k].op = "if" /\ body[k].condition = a
CopiesSlot(i) == i.op = "copy" /\ i.src[1] = "slot" /\ i.dst[1] = "slot" /\ i.src # i.dst

RECURSIVE TestedSlots(_)
TestedSlots(body) ==
    UNION {LET i == body[k]  next == IF CopiesSlot(i) /\ AddsTo(body, k + 1, i.dst) THEN k + 2 ELSE k + 1 IN
           CASE CopiesSlot(i) -> IF Tests(body, next, i.dst) THEN {i.src[3]} ELSE {}
             [] i.op = "loop" -> TestedSlots(i.body)
             [] i.op = "if" -> TestedSlots(i.then) \cup TestedSlots(i.else)
             [] OTHER -> {} : k \in DOMAIN body}

-----------------------------------------------------------------------------
(* reserve_compare_slots: the lane of each value, a guarded one within     *)
(* four of one chunk.  (Mutant: the four may cross into the next chunk.)   *)
GuardedLane_Crossing(next) == next
GuardedLane(next) == IF (next % Chunk) + 4 > Chunk THEN Chunks(next) * Chunk ELSE next

Lanes(guarded, cells) ==
    LET Laid(r, s) ==
            IF s \in guarded THEN [lane |-> s :> GuardedLane(r.next) + 1 @@ r.lane, next |-> GuardedLane(r.next) + 4]
            ELSE [lane |-> s :> r.next @@ r.lane, next |-> r.next + 1]
    IN  FoldLeft(Laid, [lane |-> Nothing, next |-> 0], [n \in 1 .. cells |-> n - 1])

(* build_layouts_with_route: after the slots come the temporaries of       *)
(* branches, the selector of regions and the temporaries of portals.       *)
RECURSIVE ChunksBelow(_, _)
ChunksBelow(d, id) ==
    LET lower == {j \in DOMAIN d.cells : j < id} IN
    IF lower = {} THEN 0 ELSE AggregateChunks(d.cells[Max(lower)]) + ChunksBelow(d, Max(lower))

GatesOf(p, f, regions) ==
    Max({0} \cup {BranchDepth(p.nodes[c].body) : c \in NodesOf(p, f)}
            \cup {regions[c].depth : c \in NodesOf(p, f) \cap DOMAIN regions})
MovedCells(p, f) ==
    Max({0} \cup {p.nodes[c].end.operand.cells :
                      c \in {b \in NodesOf(p, f) : p.nodes[b].end.op \in {"load", "store"} /\ Len(p.nodes[b].end.at) = 2}})

Framed(d, gates, selects, route, guarded, lanes, aggregates) ==
    [gate |-> d.slots, selector |-> d.slots + gates, lane |-> lanes.lane, guarded |-> guarded,
     values |-> Chunks(lanes.next), aggregates |-> aggregates,
     below |-> [id \in DOMAIN d.cells |-> ChunksBelow(d, id)],
     outbox |-> Chunks(d.outbox), route |-> route,
     total |-> Chunks(lanes.next) + aggregates + Chunks(d.outbox) + route + 1]
Sized(d, gates, selects, moved, route, guarded) ==
    Framed(d, gates, selects, route, guarded, Lanes(guarded, d.slots + gates + selects + moved),
           ChunksBelow(d, 1 + Max({0} \cup DOMAIN d.cells)))
FrameOf(p, f, regions, route, guarded) ==
    Sized(p.functions[f], GatesOf(p, f, regions), IF NodesOf(p, f) \cap DOMAIN regions = {} THEN 0 ELSE 1,
          MovedCells(p, f), route, guarded)

(* minimum_main_tape_cells: the frame above an anchor, and the head after. *)
TapeFor(anchor, l) == anchor + (l.total + 1) * Stride + 1
FrameFits(l) == TapeFor(0, l) <= TapeCells

(* Offsets from the head of the context. *)
ValueAt(l, n)       == Lane(l.lane[n]) - (l.values + l.outbox + l.route) * Stride
BaseAt(l, id)       == (l.below[id] - l.values - l.aggregates - l.outbox - l.route) * Stride
ElementAt(l, id, k) == BaseAt(l, id) + ElementOffset(k)
OutboxAt(l, k)      == 1 + (k % Chunk) - (l.route + (k \div Chunk) + 1) * Stride
RouteAt(l, k)       == Lane(k) - l.route * Stride

(* truth_guards and aggregate_truth_guards: how far a flag and a zero are  *)
(* from a value, and from each other; 0 where there are none.              *)
GuardStep(d, l, a) ==
    CASE a[1] = "slot"  -> IF a[3] \in l.guarded THEN 1 ELSE 0
      [] a[1] = "frame" -> IF 3 * d.cells[a[2]] <= Chunk THEN d.cells[a[2]] ELSE 0
      [] OTHER -> 0

(* build_layouts_for_codegen: guards for tests must not make a frame too   *)
(* large.  A route is there for portals into globals, and for arguments    *)
(* that cross from a dynamic frame into a fixed one as nibbles.            *)
RouteChunks(p, o, fixed) ==
    LET portals == \E c \in DOMAIN p.nodes : p.nodes[c].end.op \in {"load", "store"} /\ p.nodes[c].end.region[1] = "global"
        crossing == \E c \in DOMAIN p.nodes : p.nodes[c].function \notin fixed /\ Callee(p.nodes[c].end) \cap fixed # {}
    IN  IF portals \/ (o.nibble /\ crossing) THEN 1 ELSE 0

Guarded(all, few) == IF FrameFits(all) THEN all ELSE few
GuardedFrame(p, f, regions, route, compared, tested) ==
    Guarded(FrameOf(p, f, regions, route, compared \cup tested), FrameOf(p, f, regions, route, compared))
FrameFor(p, o, f, regions, route, fixed) ==
    IF ~o.compare THEN FrameOf(p, f, regions, route, {})
    ELSE GuardedFrame(p, f, regions, route, UNION {ComparedSlots(p.nodes[c].body) : c \in NodesOf(p, f)},
                      UNION {TestedSlots(p.nodes[c].body) : c \in IF f \in fixed THEN NodesOf(p, f) ELSE {}})

-----------------------------------------------------------------------------
(* StaticLayout: large aggregates, small ones, scalars, the scratch of     *)
(* remote copies, and the anchors.  "near" is where the part begins that   *)
(* stays next to the anchors.                                              *)
Scalars(p) == {g \in DOMAIN p.globals : p.globals[g] = 1}
Scratch == Bits + 1

(* Aggregates in reverse order of their declaration, the small ones last.  *)
Before(p, g, h) ==
    LET Small(x) == p.globals[x] <= Chunk IN (Small(g) = Small(h) /\ g > h) \/ (~Small(g) /\ Small(h))
RECURSIVE CellsOfAll(_, _)
CellsOfAll(p, gs) ==
    IF gs = {} THEN 0
    ELSE LET g == CHOOSE x \in gs : TRUE IN AggregateChunks(p.globals[g]) * Stride + CellsOfAll(p, gs \ {g})

Statics(p, bank) ==
    LET arrays == DOMAIN p.globals \ Scalars(p)
        base == [g \in arrays |-> CellsOfAll(p, {h \in arrays : Before(p, h, g)})]
        first == CellsOfAll(p, arrays)
        small == {g \in arrays : p.globals[g] \in 1 .. Chunk}
    IN  [base |-> base, cell |-> [g \in Scalars(p) |-> first + Cardinality({h \in Scalars(p) : h < g})],
         scratch |-> first + Cardinality(Scalars(p)), near |-> Min({first} \cup {base[g] : g \in small}),
         bank |-> first + Cardinality(Scalars(p)) + Scratch, group |-> IF bank THEN BankAnchors ELSE 1]

Anchor(s) == s.bank + (s.group - 1) * Stride
StaticsFit(s) == Anchor(s) + Stride <= TapeCells

(* reserve_internal_cells and place_internal_before_near_globals.  (Mutant: *)
(* the small aggregates stay where they were.)                             *)
Reserved_AggregatesStay(s, n) ==
    [s EXCEPT !.cell = [g \in DOMAIN @ |-> @[g] + n], !.scratch = @ + n, !.bank = @ + n]
Reserved(s, n) ==
    [s EXCEPT !.cell = [g \in DOMAIN @ |-> @[g] + n], !.scratch = @ + n, !.bank = @ + n,
              !.base = [g \in DOMAIN @ |-> IF @[g] >= s.near THEN @[g] + n ELSE @[g]]]

GlobalAt(s, a) == IF a[2] \in DOMAIN s.cell THEN s.cell[a[2]] ELSE s.base[a[2]] + ElementOffset(a[3])

-----------------------------------------------------------------------------
(* StaticFramePlan: a fixed frame lies above those of all it may call, its *)
(* result above it.  (Mutant: above one of them.)                          *)
ResultCells(d) == d.returns.cells

HighestOf_Any(ends) == IF ends = {} THEN 0 ELSE Min(ends)
HighestOf(ends) == Max({0} \cup ends)

RECURSIVE EndOf(_, _, _)
BottomOf(p, l, f) == HighestOf({EndOf(p, l, g) : g \in Calls(p, f)})
EndOf(p, l, f) == BottomOf(p, l, f) + l[f].total * Stride + ResultCells(p.functions[f])

(* Where a fixed call returns to: the continuation, when nothing else      *)
(* leads there, otherwise an id of its own.                                *)
FixedSites(p, fixed) == {c \in DOMAIN p.nodes : p.nodes[c].end.op = "call" /\ p.nodes[c].end.callee \in fixed}
Gates(p, fixed) ==
    LET sites == FixedSites(p, fixed)
        Key(c) == <<p.nodes[c].end.to, p.nodes[c].end.callee>>
        ordinary == {p.functions[f].entry : f \in DOMAIN p.functions}
                    \cup UNION {Successors(p.nodes[c].end) : c \in DOMAIN p.nodes \ sites}
        keys == {Key(c) : c \in sites}
        Reuses(key) == key[1] \notin ordinary /\ \A other \in keys : other[1] = key[1] => other = key
        Named(r, key) ==
            IF key \notin keys \ DOMAIN r.gate THEN r
            ELSE IF Reuses(key) THEN [r EXCEPT !.gate = key :> key[1] @@ @]
            ELSE LET id == Min(1 .. (Cardinality(r.used) + 1) \ r.used) IN
                 [r EXCEPT !.gate = key :> id @@ @, !.used = @ \cup {id}]
    IN  FoldLeft(Named, [gate |-> Nothing, used |-> DOMAIN p.nodes],
                 LET order == Ascending(sites) IN [n \in DOMAIN order |-> Key(order[n])]).gate

(* lower_continuations_annotated_with_plans, with its retry without        *)
(* regions; "fixed" holds where the contexts and results of fixed frames   *)
(* are, and "gates" the ids their calls return to.                         *)
Reached(p, l, fixed) == HighestOf({EndOf(p, l, f) : f \in fixed})
Assembled(p, o, plan, fixed, before, after, l) ==
    [framed |-> (\A f \in DOMAIN l : FrameFits(l[f])) /\ TapeFor(Anchor(before), l[p.main]) <= TapeCells,
     placed |-> StaticsFit(after) /\ (p.main \in fixed \/ TapeFor(Anchor(after), l[p.main]) <= TapeCells),
     program |-> p, options |-> o, plan |-> plan, layout |-> l, statics |-> after,
     context |-> [f \in fixed |-> before.near + BottomOf(p, l, f) + (l[f].total - 1) * Stride],
     result |-> [f \in fixed |-> before.near + BottomOf(p, l, f) + l[f].total * Stride],
     gates |-> Gates(p, fixed)]
Placed(p, o, plan, fixed, statics, l) ==
    Assembled(p, o, plan, fixed, statics, Reserved(statics, Reached(p, l, fixed)), l)
PlanWith(p, o, plan, fixed, route) ==
    Placed(p, o, plan, fixed, Statics(p, o.bank),
           [f \in DOMAIN p.functions |-> FrameFor(p, o, f, plan.regions, route, fixed)])

Attempt(p, o, plan, fixed) == PlanWith(p, o, plan, fixed, RouteChunks(p, o, fixed))
WithoutRegions(first, p, o, fixed) ==
    IF ~first.framed /\ first.plan.on THEN Attempt(p, o, NoRegions(p), fixed) ELSE first
Chosen(p, o, plan) ==
    LET fixed == IF o.fixed THEN FixedFunctions(p) ELSE {} IN
    WithoutRegions(Attempt(p, o, plan, fixed), p, o, fixed)

(* lower_continuations_annotated_with_options: without fixed frames when   *)
(* they do not fit.  (Mutant: given up.)                                   *)
Fits(c) == c.framed /\ c.placed
Retried_GivenUp(c, p, o, plan) == c
Retried(c, p, o, plan) == IF ~Fits(c) /\ o.fixed THEN Chosen(p, [o EXCEPT !.fixed = FALSE], plan) ELSE c

PlannedWith(p, o, plan) == Retried(Chosen(p, o, plan), p, o, plan)
Planned(p, o) == PlannedWith(p, o, IF o.regions THEN RegionPlan(p) ELSE NoRegions(p))

-----------------------------------------------------------------------------
(* DispatchEncoding: the ids of entries by rank, in two digits.            *)
Entries(c) == c.plan.entries \cup Range(c.gates)
RankOf(c, id) ==
    LET entries == Entries(c) IN
    IF c.plan.on \/ (Cardinality(entries) > Byte /\ Max(entries) = Cardinality(entries))
    THEN Cardinality({e \in entries : e <= id}) ELSE id
Width(c) ==
    LET n == Cardinality(Entries(c)) IN
    IF n > Byte /\ (c.plan.on \/ Max(Entries(c)) = n) THEN CHOOSE w \in 1 .. Byte : w * w > n /\ (w - 1) * (w - 1) <= n
    ELSE Byte
High(c, id) == RankOf(c, id) \div Width(c)
Low(c, id)  == RankOf(c, id) % Width(c)
=============================================================================
