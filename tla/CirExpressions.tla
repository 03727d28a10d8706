---------------------------- MODULE CirExpressions ----------------------------
(***************************************************************************)
(* The passes that recompute arithmetic on virtual cells, in their order:  *)
(* scaled offsets (cir/scaled_offset.rs), constants that are transferred   *)
(* at once (cir/constant_transfer.rs), comparisons joined with subtractions*)
(* (cir/arithmetic_fusion.rs) and expressions rebuilt from what they       *)
(* compute (cir/computation_graph.rs).                                     *)
(***************************************************************************)
EXTENDS CirLiveness

CONSTANTS
    MaxRegion,   \* MAX_REGION, 128 instructions of a piece
    MaxTerms     \* MAX_TERMS, 16 inputs of an expression

-----------------------------------------------------------------------------
(* The loops that add an index times a small stride to the two bytes of an *)
(* offset, with a carry test at each step, are replaced by one that adds   *)
(* at once and compares with the few values at which the low byte wraps.   *)
Strides == 2 .. 8
Lookback == 64
Scratch == 10

(* The two forms that are recognised: the front end's, and that of an      *)
(* imported program.                                                       *)
CarryLoop(source, low, high, left, right, carry, restore, stride) ==
    Loop(source, <<Set(left, 0), Transfer(low, <<To(left, 1), To(restore, 1)>>), Transfer(restore, <<To(low, 1)>>),
                   Set(right, Byte - stride), Compare(left, right, carry, 0, 1), Add(low, stride),
                   If(carry, <<Add(high, 1)>>, <<>>), Add(source, Byte - 1)>>)
StepLoop(source, low, high, test, stride) ==
    Loop(source, <<Add(source, Byte - 1)>> \o
                 FlattenSeq([k \in 1 .. stride |-> <<Add(low, 1), Copy(low, test), If(test, <<>>, <<Add(high, 1)>>)>>]))

Scaled(source, low, high, stride, dead, restore) ==
    [source |-> source, low |-> low, high |-> high, stride |-> stride, dead |-> dead, restore |-> restore]

(* match_loop. *)
CarryOps == <<"set", "transfer", "transfer", "set", "compare", "add", "if", "add">>
Matches(i) ==
    LET b == i.body
        ops == [k \in DOMAIN b |-> b[k].op]
        stride == Len(b) \div 3
        HighOf(arm) == IF Len(arm) = 1 /\ arm[1].op = "add" THEN {arm[1].dst} ELSE {}
    IN
    IF i.op # "loop" THEN {}
    ELSE IF ops = CarryOps THEN
        {Scaled(i.condition, b[2].src, high, b[6].value, <<b[1].dst, b[4].dst, b[5].dst>>, <<b[3].src>>) :
            high \in {h \in HighOf(b[7].then) : b[6].value \in Strides /\
                        i = CarryLoop(i.condition, b[2].src, h, b[1].dst, b[4].dst, b[5].dst, b[3].src, b[6].value)}}
    ELSE IF stride \in Strides /\ SubSeq(ops, 2, 4) = <<"add", "copy", "if">> THEN
        {Scaled(i.condition, b[2].dst, high, stride, <<b[3].dst>>, <<>>) :
            high \in {h \in HighOf(b[4].else) : i = StepLoop(i.condition, b[2].dst, h, b[3].dst, stride)}}
    ELSE {}

(* record: the places that name a cell, where it is not set to zero.       *)
Mentions(r, a) == Cardinality({f \in DOMAIN r \cap AddressFields : r[f] = a})
OperandMentions(o, a) == IF o.kind = "cell" /\ Address(o, 0) = a THEN 1 ELSE 0
RECURSIVE Uses(_, _)
Uses(body, a) ==
    LET One(i) ==
            CASE i.op = "set" /\ i.value = 0 -> 0
              [] i.op = "loop" -> Mentions(i, a) + Uses(i.body, a)
              [] i.op = "if"   -> Mentions(i, a) + Uses(i.then, a) + Uses(i.else, a)
              [] i.op = "transfer" -> Mentions(i, a) + Cardinality({k \in DOMAIN i.targets : i.targets[k].dst = a})
              [] OTHER -> Mentions(i, a)
    IN  FoldLeft(LAMBDA n, i : n + One(i), 0, body)
EndUses(t, a) ==
    CASE t.op = "call" -> FoldLeft(LAMBDA n, o : n + OperandMentions(o, a), 0, t.arguments)
      [] t.op = "return" /\ t.value # None -> OperandMentions(t.value, a)
      [] t.op \in {"load", "store"} -> Cardinality({k \in DOMAIN t.at : t.at[k] = a}) + OperandMentions(t.operand, a)
      [] OTHER -> Mentions(t, a)
UsesOf(p, f, a) ==
    MapThenSumSet(LAMBDA c : Uses(p.nodes[c].body, a) + EndUses(p.nodes[c].end, a), NodesOf(p, f)) +
    Cardinality({k \in DOMAIN p.functions[f].parameters :
                    LET q == p.functions[f].parameters[k] IN q.kind = "cell" /\ q.cell = a})

(* known_byte. *)
RECURSIVE LastSet(_, _, _)
LastSet(body, a, delta) ==
    LET i == Last(body) IN
    IF body = <<>> THEN None
    ELSE CASE i.op = "set" /\ i.dst = a -> (i.value + delta) % Byte
           [] i.op = "add" /\ i.dst = a -> LastSet(Front(body), a, delta + i.value)
           [] i.op \in {"loop", "if", "cells"} \/ (i.op \notin {"set", "add"} /\ a \in Effects(i).writes) -> None
           [] OTHER -> LastSet(Front(body), a, delta)
KnownByte(body, a) == LastSet(SubSeq(body, Max({1, Len(body) - Lookback + 1}), Len(body)), a, 0)

(* append_small_scaled_offset: after how many steps the low byte has       *)
(* wrapped k times.  (Mutant: rounded down.)                               *)
Carries(stride, low) == (low + (Byte - 1) * stride) \div Byte
Threshold_Early(k, stride, low) == (Byte * k - low) \div stride
Threshold(k, stride, low) == (Byte * k - low + stride - 1) \div stride

Expanded(s, low, work) ==
    LET n == Carries(s.stride, low)
        right == work[n + 1]
        carry == work[n + 2]
        Check(k, also, never) ==
            <<Set(right, Threshold(k, s.stride, low)), Compare(work[k], right, carry, 0, 1),
              If(carry, <<Add(s.high, 1)>> \o also, never)>>
        later == FlattenSeq([k \in 1 .. n - 1 |-> Check(k + 1, <<>>, <<>>)])
    IN  Loop(s.source,
             [k \in 1 .. n |-> Set(work[k], 0)] \o
             <<Transfer(s.source, <<To(s.low, s.stride)>> \o [k \in 1 .. n |-> To(work[k], 1)])>> \o
             Check(1, later, [k \in 1 .. n - 1 |-> Set(work[k + 1], 0)]))

(* Where a loop may be replaced: nothing reads the temporaries after it,   *)
(* and the one that restores has no other use and so begins at zero.       *)
Replaceable(p, f, s, live, low) ==
    /\ \A k \in DOMAIN s.dead : ~Observed(s.dead[k], live)
    /\ \A k \in DOMAIN s.restore : s.restore[k][1] = "slot" /\ UsesOf(p, f, s.restore[k]) = 2
    /\ low # None
    /\ LET all == <<s.source, s.low, s.high>> \o s.dead \o s.restore IN Cardinality(Range(all)) = Len(all)

(* The temporaries: those of the loop, dead elements that follow, scratch  *)
(* slots.                                                                  *)
Work(d, s, live, low, base) ==
    LET count == Carries(s.stride, low) + 2
        a == s.dead[1]
        named == {s.source, s.low, s.high} \cup Range(s.dead) \cup Range(s.restore)
        nearby == IF s.restore = <<>> /\ a[1] = "frame"
                  THEN SelectSeq([k \in 1 .. Min({a[3] + Scratch, d.cells[a[2]]}) - a[3] - 1 |-> Element(RegionOf(a), a[3] + k)],
                                 LAMBDA b : b \notin named /\ ~Observed(b, live))
                  ELSE <<>>
        own == s.dead \o s.restore \o nearby
        extra == Max({0, count - Len(own)})
    IN  [cells |-> SubSeq(own, 1, Min({count, Len(own)})) \o [k \in 1 .. extra |-> Slot(base + k - 1)], extra |-> extra]

(* rewrite. *)
RECURSIVE ScaledBody(_, _, _, _)
ScaledNested(p, f, i, live) ==
    CASE i.op = "if"   -> MadeIf(i.condition, ScaledBody(p, f, i.then, ArmLive(i, live)), ScaledBody(p, f, i.else, ArmLive(i, live)))
      [] i.op = "loop" -> MadeLoop(i.condition, ScaledBody(p, f, i.body, LiveBefore(<<i>>, live)))
      [] OTHER -> Made(<<i>>, 0)
ScaledBody(p, f, body, exit) ==
    LET Low(k, s) == KnownByte(SubSeq(body, 1, k - 1), s.low)
        In(k, live) == {s \in Matches(body[k]) : Replaceable(p, f, s, live, Low(k, s))}
        Out(k, live, s, low) ==
            LET work == Work(p.functions[f], s, live, low, p.functions[f].slots) IN
            Made(<<Expanded(s, low, work.cells)>>, work.extra)
        One(k, live) ==
            IF In(k, live) = {} THEN ScaledNested(p, f, body[k], live)
            ELSE LET s == CHOOSE t \in In(k, live) : TRUE IN Out(k, live, s, Low(k, s))
    IN  FoldLeft(LAMBDA made, k : Joined(made, One(k, LiveAfter(body, k, exit))), Made(<<>>, 0), [k \in DOMAIN body |-> k])

ScaledBodies(p, f, exits) == [c \in NodesOf(p, f) |-> ScaledBody(p, f, p.nodes[c].body, exits[c])]
ScaledOffset(p, f) == WithMade(p, f, ScaledBodies(p, f, Exits(p, f)))

-----------------------------------------------------------------------------
(* Constants that are transferred at once, and comparisons joined with the *)
(* subtraction of the same values.                                         *)
(* fold_body.                                                              *)
Absorbs(i, j) ==
    /\ i.op = "set" /\ Local(i.dst)
    /\ j.op = "transfer" /\ j.src = i.dst /\ i.dst \notin Targets(j)

(* (Mutant: the source keeps its value.)                                   *)
Folding_Keeps(i, j) == <<i>> \o [k \in DOMAIN j.targets |-> Add(j.targets[k].dst, i.value * j.targets[k].factor)]
Folding(i, j) ==
    <<Set(i.dst, 0)>> \o
    SelectSeq([k \in DOMAIN j.targets |-> Add(j.targets[k].dst, i.value * j.targets[k].factor)],
              LAMBDA add : add.value # 0)

RECURSIVE ConstantsFolded(_)
ConstantsFolded(body) ==
    LET i == Head(body)
        nested == CASE i.op = "loop" -> [i EXCEPT !.body = ConstantsFolded(@)]
                    [] i.op = "if"   -> [i EXCEPT !.then = ConstantsFolded(@), !.else = ConstantsFolded(@)]
                    [] OTHER         -> i
    IN  IF body = <<>> THEN <<>>
        ELSE IF Len(body) > 1 /\ Absorbs(i, body[2])
             THEN Folding(i, body[2]) \o ConstantsFolded(SubSeq(body, 3, Len(body)))
             ELSE <<nested>> \o ConstantsFolded(Tail(body))

ConstantTransfer(p, f) == WithBodies(p, [c \in NodesOf(p, f) |-> ConstantsFolded(p.nodes[c].body)])

-----------------------------------------------------------------------------
(* accesses: scalar instructions on cells of the frame.                    *)
Scalar(i) ==
    /\ ~Observable(i) /\ i.op # "cells"
    /\ \A a \in Effects(i).reads \cup Effects(i).writes : Local(a)

(* Values: constants, and snapshots by number. *)
Constant(v) == <<"constant", v>>
Snapshot(n) == <<"snapshot", n>>
Known(s, a) == a \in DOMAIN s.cells
Seen(s, a)  == IF Known(s, a) THEN s ELSE [s EXCEPT !.cells = (a :> Snapshot(s.next)) @@ @, !.next = @ + 1]
Bind(s, a, v) == [s EXCEPT !.cells = (a :> v) @@ @]
Renewed(s, a) == [Bind(s, a, Snapshot(s.next)) EXCEPT !.next = @ + 1]

(* What a transfer leaves in a target. *)
Merged(s, source, t) ==
    LET before == s.cells[t.dst] IN
    CASE source[1] = "constant" /\ before[1] = "constant" ->
           Bind(s, t.dst, Constant((before[2] + source[2] * t.factor) % Byte))
      [] before = Constant(0) /\ t.factor = 1 -> Bind(s, t.dst, source)
      [] source = Constant(0) -> s
      [] OTHER -> Renewed(s, t.dst)

(* The difference goes straight to the target of the subtraction if that   *)
(* is not read on the way and only overwritten.  (Mutant: whatever is on   *)
(* the way.)                                                               *)
Direct_Always(body, c, k, a) == body[c].dst # a
Direct(body, c, k, a) ==
    /\ body[c].dst # a
    /\ \A n \in c + 1 .. k - 1 :
          /\ a \notin Effects(body[n]).reads
          /\ a \in Effects(body[n]).writes => body[n].op \in {"set", "copy"}

(* A subtraction at k of what has been compared at c: what replaces both.  *)
Fused(s, body, base, c, k) ==
    LET i == body[c]
        a == body[k].targets[1].dst
        free == {n \in DOMAIN s.ends : s.ends[n] < c}
        n == IF free = {} THEN Len(s.ends) + 1 ELSE Min(free)
        scratch == Slot(base + n - 1)
        direct == Direct(body, c, k, a)
        Sub(d) == <<SubWithBorrow(i.left, i.right, d, i.dst, i.yes, i.no)>>
        dropped == {m \in c + 1 .. k - 1 : a \in Effects(body[m]).writes}
        zero == Set(body[k].src, 0)
    IN  IF direct
        THEN [s EXCEPT !.instead = (c :> Sub(a)) @@ (k :> <<zero>>) @@ [m \in dropped |-> <<>>] @@ @]
        ELSE [s EXCEPT !.instead = (c :> Sub(scratch)) @@ (k :> <<zero, Copy(scratch, a), Set(scratch, 0)>>) @@ @,
                       !.ends = IF n \in DOMAIN @ THEN [@ EXCEPT ![n] = k] ELSE Append(@, k)]

(* fuse_region, an instruction. *)
Tracked(s0, body, base, k) ==
    LET i == body[k]
        copied == Seen(s0, i.src)
        both == Seen(Seen(s0, i.left), i.right)
        source == s0.cells[i.src]
        compared == <<s0.cells[i.targets[1].dst], source>>
        matches == /\ Len(i.targets) = 1 /\ i.targets[1].factor = Byte - 1
                   /\ compared \in DOMAIN s0.compares
        fused == IF matches THEN [Fused(s0, body, base, s0.compares[compared], k) EXCEPT
                                     !.compares = Restrict(@, DOMAIN @ \ {compared})]
                 ELSE s0
    IN
    CASE i.op = "set"  -> Bind(s0, i.dst, Constant(i.value))
      [] i.op = "copy" -> Bind(copied, i.dst, copied.cells[i.src])
      [] i.op = "add" /\ i.value = 0 -> s0
      [] i.op = "compare" ->
           Renewed(Bind(Bind([both EXCEPT !.compares = (<<both.cells[i.left], both.cells[i.right]>> :> k) @@ @],
                           i.left, Constant(0)), i.right, Constant(0)), i.dst)
      [] i.op = "transfer" ->
           Bind(FoldLeft(LAMBDA s, t : Merged(s, source, t), fused, i.targets), i.src, Constant(0))
      [] OTHER -> FoldSet(LAMBDA a, s : Renewed(s, a), s0, Effects(i).writes)

(* The cells a transfer or an addition looks at are given values first.    *)
Looked(s, i) ==
    IF i.op \in {"transfer", "add"}
    THEN FoldSet(LAMBDA a, r : Seen(r, a), s, Effects(i).reads)
    ELSE s

(* remove_overwritten_copies: every cell is live in the end. *)
WithoutOverwritten(body) ==
    LET all == UNION {Effects(body[k]).reads \cup Effects(body[k]).writes : k \in DOMAIN body}
        Visit(i, s) ==
            IF i.op \in {"set", "copy"} /\ i.dst \notin s.live THEN s
            ELSE [live |-> (s.live \ Effects(i).writes) \cup Effects(i).reads, body |-> <<i>> \o s.body]
    IN  FoldRight(Visit, body, [live |-> all, body |-> <<>>]).body

Instead(s, body) ==
    LET Now(k) == IF k \in DOMAIN s.instead THEN s.instead[k] ELSE <<body[k]>> IN
    IF DOMAIN s.instead = {} THEN body ELSE WithoutOverwritten(FlattenSeq([k \in DOMAIN body |-> Now(k)]))
FusedRegion(body, base) ==
    LET Visit(s, k) == Tracked(Looked(s, body[k]), body, base, k)
        start == [cells |-> [a \in {} |-> 0], next |-> 0, compares |-> [v \in {} |-> 0],
                  instead |-> [k \in {} |-> <<>>], ends |-> <<>>]
        Out(s) == Made(Instead(s, body), Len(s.ends))
    IN  Out(FoldLeft(Visit, start, [k \in DOMAIN body |-> k]))

(* fuse_body: the regions between the other instructions. *)
RECURSIVE FusedBody(_, _)
FusedNested(i, base) ==
    CASE i.op = "if"   -> MadeIf(i.condition, FusedBody(i.then, base), FusedBody(i.else, base))
      [] i.op = "loop" -> MadeLoop(i.condition, FusedBody(i.body, base))
      [] OTHER -> Made(<<i>>, 0)
FusedBody(body, base) ==
    LET first == Min({k \in DOMAIN body : ~Scalar(body[k])} \cup {Len(body) + 1})
        region == FusedRegion(SubSeq(body, 1, first - 1), base)
    IN  IF first > Len(body) THEN region
        ELSE Joined(Joined(region, FusedNested(body[first], base)), FusedBody(SubSeq(body, first + 1, Len(body)), base))

ArithmeticFusion(p, f) ==
    WithMade(p, f, [c \in NodesOf(p, f) |-> FusedBody(p.nodes[c].body, p.functions[f].slots)])

-----------------------------------------------------------------------------
(* Straight pieces of arithmetic are rebuilt from what they compute: each  *)
(* cell as an affine expression in what the cells held before the piece,   *)
(* and only what is live after it is computed.                             *)
LocalArithmetic(i) ==
    /\ i.op \in {"set", "add", "copy", "transfer"}
    /\ \A a \in Effects(i).reads \cup Effects(i).writes : Local(a)

(* Expr: a constant, and a factor for each cell that counts.  (Mutant: a   *)
(* factor is not reduced.)                                                 *)
Affine(constant, terms) == [constant |-> constant, terms |-> terms]
Itself(a) == Affine(0, a :> 1)
Expression(state, a) == IF a \in DOMAIN state THEN state[a] ELSE Itself(a)
Factor(e, a) == IF a \in DOMAIN e.terms THEN e.terms[a] ELSE 0

Sum_Unscaled(e, g, factor) ==
    Affine((e.constant + g.constant * factor) % Byte,
           [a \in DOMAIN e.terms \cup DOMAIN g.terms |-> IF a \in DOMAIN g.terms THEN factor ELSE e.terms[a]])
Sum(e, g, factor) ==
    LET total(a) == (Factor(e, a) + Factor(g, a) * factor) % Byte IN
    Affine((e.constant + g.constant * factor) % Byte,
           [a \in {b \in DOMAIN e.terms \cup DOMAIN g.terms : total(b) # 0} |-> total(a)])

(* graph: None if an expression has too many terms. *)
Graph(body) ==
    LET Join(state, t, value) == (t.dst :> Sum(Expression(state, t.dst), value, t.factor)) @@ state
        Step(state, i) ==
            CASE i.op = "set"  -> (i.dst :> Affine(i.value, [a \in {} |-> 0])) @@ state
              [] i.op = "add"  -> (i.dst :> [Expression(state, i.dst) EXCEPT !.constant = (@ + i.value) % Byte]) @@ state
              [] i.op = "copy" -> (i.dst :> Expression(state, i.src)) @@ state
              [] i.op = "transfer" ->
                     LET value == Expression(state, i.src) IN
                     (i.src :> Affine(0, [a \in {} |-> 0]))
                         @@ FoldLeft(LAMBDA s, t : Join(s, t, value), state, i.targets)
        TooLong(state) == \E a \in DOMAIN state : Cardinality(DOMAIN state[a].terms) > MaxTerms
    IN  FoldLeft(LAMBDA s, i : IF s = None THEN None ELSE LET t == Step(s, i) IN IF TooLong(t) THEN None ELSE t,
                 [a \in {} |-> Itself(a)], body)

(* materialize, on the cells to compute: a cell that changes and is still  *)
(* used is saved first; then cells are prepared, then each source is       *)
(* handed out.  (Mutant: nothing is saved.)                                *)
Outputs(state, live) == {a \in DOMAIN state : Observed(a, live) /\ state[a] # Itself(a)}
Users(state, live, b) == {a \in Outputs(state, live) : b \in DOMAIN state[a].terms /\ ~(a = b /\ state[a].terms[b] = 1)}
Saved_None(state, live) == {}
Saved(state, live) == {b \in Outputs(state, live) : Users(state, live, b) # {}}

KeepsInput(e, a) == Factor(e, a) = 1
Assigns(state, live, a) ==
    /\ ~KeepsInput(state[a], a) /\ state[a].constant = 0
    /\ \E b \in DOMAIN state[a].terms : state[a].terms = (b :> 1)

Prepared(state, live, a) ==
    LET e == state[a] IN
    CASE KeepsInput(e, a) -> IF e.constant = 0 THEN <<>> ELSE <<Add(a, e.constant)>>
      [] ~KeepsInput(e, a) /\ Assigns(state, live, a)
            /\ Cardinality(Users(state, live, CHOOSE b \in DOMAIN e.terms : TRUE)) = 1 -> <<>>
      [] OTHER -> <<Set(a, e.constant)>>

(* One source: [body, scratch slots used].  A source that is still needed  *)
(* is restored.                                                            *)
HandedOut(state, live, b, carrier, temp) ==
    LET users == CellsInOrder(Users(state, live, b))
        targets == [k \in DOMAIN users |-> To(users[k], state[users[k]].terms[b])]
    IN  CASE Len(users) = 1 /\ targets[1].factor = 1 /\ Assigns(state, live, users[1]) ->
               [body |-> <<Copy(carrier, users[1])>>, used |-> 0]
          [] ~(Len(users) = 1 /\ targets[1].factor = 1 /\ Assigns(state, live, users[1]))
                /\ carrier = b /\ Observed(b, live) ->
               [body |-> <<Set(temp, 0), Transfer(b, Append(targets, To(temp, 1))), Copy(temp, b)>>, used |-> 1]
          [] OTHER -> [body |-> <<Transfer(carrier, targets)>>, used |-> 0]

Computed(state, live, base) ==
    LET outputs == CellsInOrder(Outputs(state, live))
        sources == CellsInOrder({b \in UNION {DOMAIN state[a].terms : a \in Outputs(state, live)} :
                                    Users(state, live, b) # {}})
        saved == CellsInOrder(Saved(state, live))
        Carrier(b) == IF b \in Range(saved) THEN Slot(base + IndexFirstSubSeq(<<b>>, saved) - 1) ELSE b
        Hand(s, b) ==
            LET h == HandedOut(state, live, b, Carrier(b), Slot(base + s.used)) IN
            [body |-> s.body \o h.body, used |-> s.used + h.used]
    IN  FoldLeft(Hand,
                 [body |-> [k \in DOMAIN saved |-> Copy(saved[k], Carrier(saved[k]))] \o
                           FlattenSeq([k \in DOMAIN outputs |-> Prepared(state, live, outputs[k])]),
                  used |-> Len(saved)],
                 sources)

(* cost: loops, their width, instructions. *)
Cost(body, live) ==
    LET One(k) ==
            LET i == body[k] IN
            CASE i.op = "copy" /\ i.src # i.dst -> <<IF Observed(i.src, LiveAfter(body, k, live)) THEN 2 ELSE 1, 1>>
              [] i.op = "transfer" /\ i.targets # <<>> ->
                   <<1, Len(i.targets) + FoldLeft(LAMBDA n, t : n + Min({t.factor, (Byte - t.factor) % Byte}), 0, i.targets)>>
              [] OTHER -> <<0, 0>>
        total == FoldLeft(LAMBDA n, k : <<n[1] + One(k)[1], n[2] + One(k)[2]>>, <<0, 0>>, [k \in DOMAIN body |-> k])
    IN  Append(total, Len(body))
Cheaper(a, b) ==
    \/ a[1] < b[1]
    \/ a[1] = b[1] /\ (a[2] < b[2] \/ (a[2] = b[2] /\ a[3] < b[3]))

(* region: what is computed anew must cost less, and not much more of any. *)
Accepted(new, old) == Cheaper(new, old) /\ new[2] <= old[2] + 4 /\ new[3] <= old[3] + 2
Better(new, body, live) == IF Accepted(Cost(new.body, live), Cost(body, live)) THEN new ELSE Made(body, 0)
FromGraph(state, body, live, base) ==
    IF state = None THEN Made(body, 0) ELSE Better(Computed(state, live, base), body, live)
Rebuilt(body, live, base) == IF Len(body) < 2 THEN Made(body, 0) ELSE FromGraph(Graph(body), body, live, base)

(* optimize_body: pieces from the back. *)
RECURSIVE GraphBody(_, _, _)
GraphNested(i, exit, base) ==
    CASE i.op = "if"   -> MadeIf(i.condition, GraphBody(i.then, ArmLive(i, exit), base), GraphBody(i.else, ArmLive(i, exit), base))
      [] i.op = "loop" -> MadeLoop(i.condition, GraphBody(i.body, LiveBefore(<<i>>, exit), base))
      [] OTHER -> Made(<<i>>, 0)
GraphBody(body, exit, base) ==
    LET n == Len(body)
        first == Max({n - MaxRegion, 0} \cup {k \in 1 .. n - 1 : ~LocalArithmetic(body[k])}) + 1
        from == IF LocalArithmetic(body[n]) THEN first ELSE n
        piece == SubSeq(body, from, n)
    IN  IF n = 0 THEN Made(<<>>, 0)
        ELSE Joined(GraphBody(SubSeq(body, 1, from - 1), LiveBefore(piece, exit), base),
                    IF LocalArithmetic(body[n]) THEN Rebuilt(piece, exit, base) ELSE GraphNested(body[n], exit, base))

GraphBodies(p, f, exits) == [c \in NodesOf(p, f) |-> GraphBody(p.nodes[c].body, exits[c], p.functions[f].slots)]
ComputationGraph(p, f) == WithMade(p, f, GraphBodies(p, f, Exits(p, f)))
=============================================================================
