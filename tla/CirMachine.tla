----------------------------- MODULE CirMachine -----------------------------
(***************************************************************************)
(* What a continuation program does (cir/vm/mod.rs), as an operator: the   *)
(* output on an input, and how the run ends.  "fuel" bounds the work; a    *)
(* run that uses it up is taken for an endless one.  "visits" counts the    *)
(* continuations that ran.                                                 *)
(***************************************************************************)
EXTENDS CirProgram

CONSTANTS Fuel

Globals(p) == UNION {RegionCells(<<"global", g>>, p.globals[g]) : g \in DOMAIN p.globals}

(* new_frame: a frame of zeros. *)
Activation(d) == [a \in Frame(d) \cup Physical(d) |-> 0]

Boot(p, input) ==
    LET main == p.functions[p.main] IN
    [cells |-> Activation(main) @@ [a \in Globals(p) |-> 0], stack |-> <<>>,
     at |-> main.entry, input |-> input, output |-> <<>>, end |-> None,
     fuel |-> Fuel, visits |-> 0]

Write(m, written) == [m EXCEPT !.cells = written @@ @]
Put(m, a, v) == Write(m, a :> (v % Byte))

(* execute_instruction. *)
RECURSIVE Executed(_, _)
Executed(body, m0) ==
    LET Step(m, i) ==
        LET Val(a) == m.cells[a] IN
        CASE m.end # None -> m
          [] m.end = None /\ i.op = "set"  -> Put(m, i.dst, i.value)
          [] m.end = None /\ i.op = "add"  -> Put(m, i.dst, Val(i.dst) + i.value)
          [] m.end = None /\ i.op = "copy" -> Put(m, i.dst, Val(i.src))
          [] m.end = None /\ i.op = "transfer" ->
                 Put(FoldLeft(LAMBDA n, t : Put(n, t.dst, n.cells[t.dst] + Val(i.src) * t.factor), m, i.targets),
                     i.src, 0)
          [] m.end = None /\ i.op = "compare" ->
                 LET less == Val(i.left) < Val(i.right) IN
                 Put(Put(Put(m, i.left, 0), i.right, 0), i.dst, IF less THEN i.yes ELSE i.no)
          [] m.end = None /\ i.op = "sub" ->
                 LET a == Val(i.left)  b == Val(i.right) IN
                 Put(Put(Put(Put(m, i.left, 0), i.right, 0), i.difference, a - b),
                     i.borrow, IF a < b THEN i.yes ELSE i.no)
          [] m.end = None /\ i.op = "cells" ->
                 Write(m, [a \in RegionCells(i.into, i.cells) |-> Val(Element(i.from, a[3]))])
          [] m.end = None /\ i.op = "input" ->
                 IF m.input = <<>> THEN Put(m, i.dst, 0)
                 ELSE [Put(m, i.dst, Head(m.input)) EXCEPT !.input = Tail(@)]
          [] m.end = None /\ i.op = "output" -> [m EXCEPT !.output = Append(@, Val(i.src))]
          [] m.end = None /\ i.op = "if" ->
                 Put(Executed(IF Val(i.condition) # 0 THEN i.then ELSE i.else, Put(m, i.condition, 0)), i.condition, 0)
          [] m.end = None /\ i.op = "loop" ->
                 CASE Val(i.condition) = 0 -> m
                   [] Val(i.condition) # 0 /\ m.fuel = 0 -> [m EXCEPT !.end = "endless"]
                   [] OTHER -> Executed(Append(i.body, i), [m EXCEPT !.fuel = @ - 1])
    IN  FoldLeft(Step, m0, body)

-----------------------------------------------------------------------------
Offset(m, at) == IF Len(at) = 1 THEN m.cells[at[1]] ELSE m.cells[at[1]] + Byte * m.cells[at[2]]

(* advance_logical_offset: by the cells of the access but the first.       *)
Advanced(m, at, cells) ==
    IF Len(at) = 1 \/ cells = 1 THEN m
    ELSE LET n == Offset(m, at) + cells - 1 IN Put(Put(m, at[1], n), at[2], n \div Byte)

(* Call: arguments are read before the frame is made, and kept in order.   *)
Enter(p, m, t) ==
    LET d == p.functions[t.callee]
        own == {a \in DOMAIN m.cells : a[1] # "global"}
        Given(cells, k) ==
            LET q == ParameterCells(d, d.parameters[k]) IN
            [a \in Range(q) |-> m.cells[Address(t.arguments[k], IndexFirstSubSeq(<<a>>, q) - 1)]] @@ cells
    IN  [m EXCEPT
            !.stack = Append(@, [cells |-> Restrict(m.cells, own), to |-> t.to]),
            !.cells = FoldLeft(Given, Activation(d), [k \in DOMAIN t.arguments |-> k]) @@
                      Restrict(m.cells, DOMAIN m.cells \ own),
            !.at = d.entry]

(* Return: a cell arrives in the ABI cell, an aggregate in the outbox.     *)
Leave(m, t) ==
    LET caller == Last(m.stack)
        value == t.value
        sent == CASE value = None -> [a \in {Abi} |-> 0]
                  [] value # None /\ value.kind = "cell" -> [a \in {Abi} |-> m.cells[Address(value, 0)]]
                  [] OTHER -> [a \in RegionCells(Outbox, value.cells) |-> m.cells[Address(value, a[3])]]
                                  @@ [a \in {Abi} |-> 0]
        globals == Restrict(m.cells, {a \in DOMAIN m.cells : a[1] = "global"})
    IN  [m EXCEPT !.stack = Front(@), !.cells = sent @@ caller.cells @@ globals, !.at = caller.to]

(* A portal: out of bounds is an error. *)
Access(p, f, m, t) ==
    LET start == Offset(m, t.at)
        n == t.operand.cells
        inside == [k \in 0 .. n - 1 |-> Element(t.region, start + k)]
        moved ==
            IF t.op = "load" THEN [a \in CellsOf(t.operand) |-> m.cells[inside[a[3] - t.operand.offset]]]
            ELSE [a \in Range(inside) |-> m.cells[Address(t.operand, a[3] - start)]]
    IN  IF start + n > Size(p, f, t.region) THEN [m EXCEPT !.end = "error"]
        ELSE [Advanced(Write(m, moved), t.at, n) EXCEPT !.at = t.to]

(* execute_terminator. *)
Ended(p, f, m) ==
    LET t == p.nodes[m.at].end IN
    CASE m.end # None -> m
      [] m.end = None /\ t.op = "goto" -> [m EXCEPT !.at = t.to]
      [] m.end = None /\ t.op = "branch" ->
             [Put(m, t.condition, 0) EXCEPT !.at = IF m.cells[t.condition] # 0 THEN t.then ELSE t.else]
      [] m.end = None /\ t.op = "call" -> Enter(p, m, t)
      [] m.end = None /\ t.op = "return" -> Leave(m, t)
      [] m.end = None /\ t.op \in {"load", "store"} -> Access(p, f, m, t)
      [] OTHER -> [m EXCEPT !.end = t.op]

RECURSIVE Continued(_, _)
Continued(p, m) ==
    CASE m.end # None -> m
      [] m.end = None /\ m.fuel = 0 -> [m EXCEPT !.end = "endless"]
      [] OTHER -> LET node == p.nodes[m.at] IN
                  Continued(p, Ended(p, node.function, Executed(node.body, [m EXCEPT !.fuel = @ - 1, !.visits = @ + 1])))

Run(p, input) == LET m == Continued(p, Boot(p, input)) IN [output |-> m.output, end |-> m.end]

(* Two runs that a user cannot tell apart. *)
Alike(a, b) ==
    /\ a.end = b.end
    /\ IF a.end = "endless" THEN IsPrefix(a.output, b.output) \/ IsPrefix(b.output, a.output)
       ELSE a.output = b.output
=============================================================================
