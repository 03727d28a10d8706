----------------------------- MODULE CirProgram -----------------------------
(***************************************************************************)
(* Continuation programs with their instructions (cir/ir.rs), the effects  *)
(* of an instruction or terminator on cells (cir/effects.rs), the renaming *)
(* of cells (cir/operands.rs), and the edges between continuations.        *)
(*                                                                         *)
(* A cell is <<where, id, index>>: "slot" (a scalar of the frame, id 0),   *)
(* "frame" (an element of a frame aggregate), "global" (a cell or element  *)
(* of a global), "outbox" or "abi".  A region is <<where, id>>.  An        *)
(* operand names its cells: [kind, region, offset, cells], with kind       *)
(* "cell", "array" (a whole region) or "aggregate".                        *)
(*                                                                         *)
(* A load or store through one index is ArrayLoad and ArrayStore, through  *)
(* two it is AggregateLoad and AggregateStore.                             *)
(***************************************************************************)
EXTENDS Integers, Sequences, SequencesExt, FiniteSets, FiniteSetsExt, Functions

CONSTANTS
    Byte,    \* 256 values of a cell
    None

Slot(n)          == <<"slot", 0, n>>
Element(r, k)    == <<r[1], r[2], k>>
RegionOf(a)      == <<a[1], a[2]>>
Abi              == <<"abi", 0, 0>>
Outbox           == <<"outbox", 0>>
FrameRegion(id)  == <<"frame", id>>
CellOperand(a)   == [kind |-> "cell", region |-> RegionOf(a), offset |-> a[3], cells |-> 1]
Part(r, k, n)    == [kind |-> "aggregate", region |-> r, offset |-> k, cells |-> n]
Address(o, k)    == Element(o.region, o.offset + k)
CellsOf(o)       == {Address(o, k) : k \in 0 .. o.cells - 1}
RegionCells(r, n) == {Element(r, k) : k \in 0 .. n - 1}

(* Cells in the order of slots, then of elements. *)
Order(a) == <<IF a[1] = "slot" THEN 0 ELSE 1, a[2], a[3]>>
Earlier(a, b) ==
    LET r == Order(a)  s == Order(b) IN
    \/ r[1] < s[1]
    \/ r[1] = s[1] /\ (r[2] < s[2] \/ (r[2] = s[2] /\ r[3] < s[3]))

CellsInOrder(S) == [k \in 1 .. Cardinality(S) |-> CHOOSE a \in S : Cardinality({b \in S : Earlier(b, a)}) = k - 1]
Ascending(S)    == [k \in 1 .. Cardinality(S) |-> CHOOSE n \in S : Cardinality({m \in S : m < n}) = k - 1]

(* The storage of the function, in its frame and physical. *)
Local(a)    == a[1] \in {"slot", "frame"}
Frame(d)    == {Slot(n) : n \in 0 .. d.slots - 1} \cup
               UNION {RegionCells(FrameRegion(id), d.cells[id]) : id \in DOMAIN d.cells}
Physical(d) == {Abi} \cup RegionCells(Outbox, d.outbox)
Size(p, f, r) == CASE r[1] = "frame"  -> p.functions[f].cells[r[2]]
                   [] r[1] = "global" -> p.globals[r[2]]
                   [] OTHER           -> p.functions[f].outbox

(* ParameterLocation: the cells a parameter arrives in. *)
ParameterCells(d, q) ==
    CASE q.kind = "cell" -> <<q.cell>>
      [] OTHER -> [k \in 1 .. d.cells[q.id] |-> Element(FrameRegion(q.id), k - 1)]
AllParameters(d) == UNION {Range(ParameterCells(d, d.parameters[i])) : i \in DOMAIN d.parameters}

Set(a, v)       == [op |-> "set", dst |-> a, value |-> v]
Add(a, v)       == [op |-> "add", dst |-> a, value |-> v % Byte]
Copy(a, b)      == [op |-> "copy", src |-> a, dst |-> b]
To(a, factor)   == [dst |-> a, factor |-> factor]
Transfer(a, ts) == [op |-> "transfer", src |-> a, targets |-> ts]
Compare(a, b, c, yes, no) == [op |-> "compare", left |-> a, right |-> b, dst |-> c, yes |-> yes, no |-> no]
SubWithBorrow(a, b, d, c, yes, no) ==
    [op |-> "sub", left |-> a, right |-> b, difference |-> d, borrow |-> c, yes |-> yes, no |-> no]
CopyCells(r, s, n) == [op |-> "cells", from |-> r, into |-> s, cells |-> n]
Input(a)        == [op |-> "input", dst |-> a]
Output(a)       == [op |-> "output", src |-> a]
Loop(a, body)   == [op |-> "loop", condition |-> a, body |-> body]
If(a, yes, no)  == [op |-> "if", condition |-> a, then |-> yes, else |-> no]

Goto(c)            == [op |-> "goto", to |-> c]
Branch(a, yes, no) == [op |-> "branch", condition |-> a, then |-> yes, else |-> no]
Call(f, os, c)     == [op |-> "call", callee |-> f, arguments |-> os, to |-> c]
Return(o)          == [op |-> "return", value |-> o]
Load(r, at, o, c)  == [op |-> "load", region |-> r, at |-> at, operand |-> o, to |-> c]
Store(r, at, o, c) == [op |-> "store", region |-> r, at |-> at, operand |-> o, to |-> c]
Halt  == [op |-> "halt"]
Abort == [op |-> "abort"]

Node(f, body, end) == [function |-> f, body |-> body, end |-> end]

(* Terminator::edges, boundary and map_successors. *)
Successors(t) ==
    CASE t.op \in {"goto", "call", "load", "store"} -> {t.to}
      [] t.op = "branch" -> {t.then, t.else}
      [] OTHER -> {}
Hard(t) == t.op \in {"call", "load", "store"}
Redirected(t, to) ==
    CASE t.op \in {"goto", "call", "load", "store"} -> [t EXCEPT !.to = to[@]]
      [] t.op = "branch" -> [t EXCEPT !.then = to[@], !.else = to[@]]
      [] OTHER -> t
NodesOf(p, f) == {c \in DOMAIN p.nodes : p.nodes[c].function = f}
Callee(t) == IF t.op = "call" THEN {t.callee} ELSE {}
Sites(p, f) == {c \in NodesOf(p, f) : p.nodes[c].end.op = "call"}
Calls(p, f) == UNION {Callee(p.nodes[c].end) : c \in NodesOf(p, f)}

-----------------------------------------------------------------------------
(* instruction and terminator (effects.rs).  Reads come first; what is     *)
(* consumed is written too; a dynamic store may write any cell of its      *)
(* region.  A portal over more cells than one moves its offset on.         *)
Effect(reads, writes, may) == [reads |-> reads, writes |-> writes, may |-> may]
Targets(i) == {i.targets[k].dst : k \in DOMAIN i.targets}

Effects(i) ==
    CASE i.op \in {"set", "input"} -> Effect({}, {i.dst}, {})
      [] i.op = "add"      -> Effect({i.dst}, {i.dst}, {})
      [] i.op = "copy"     -> Effect({i.src}, {i.dst}, {})
      [] i.op = "transfer" -> Effect({i.src} \cup Targets(i), {i.src} \cup Targets(i), {})
      [] i.op = "compare"  -> Effect({i.left, i.right}, {i.left, i.right, i.dst}, {})
      [] i.op = "sub"      -> Effect({i.left, i.right}, {i.left, i.right, i.difference, i.borrow}, {})
      [] i.op = "cells"    -> Effect(RegionCells(i.from, i.cells), RegionCells(i.into, i.cells), {})
      [] i.op = "output"   -> Effect({i.src}, {}, {})
      [] i.op = "loop"     -> Effect({i.condition}, {}, {})
      [] i.op = "if"       -> Effect({i.condition}, {i.condition}, {})

Observable(i) == i.op \in {"input", "output", "loop", "if"}

EndEffects(p, f, t) ==
    LET whole == RegionCells(t.region, Size(p, f, t.region))
        moved == IF t.operand.cells > 1 THEN Range(t.at) ELSE {}
    IN
    CASE t.op = "branch" -> Effect({t.condition}, {t.condition}, {})
      [] t.op = "call"   -> Effect(UNION {CellsOf(t.arguments[k]) : k \in DOMAIN t.arguments}, {}, {})
      [] t.op = "return" -> Effect(IF t.value = None THEN {} ELSE CellsOf(t.value), {}, {})
      [] t.op = "load"   -> Effect(whole \cup Range(t.at), CellsOf(t.operand) \cup moved, {})
      [] t.op = "store"  -> Effect(Range(t.at) \cup CellsOf(t.operand), moved, whole)
      [] OTHER -> Effect({}, {}, {})

-----------------------------------------------------------------------------
Nothing == [a \in {} |-> a]

(* map_body and map_terminator: cells by a function, regions by where      *)
(* their first element goes.                                               *)
At(a, name) == IF a \in DOMAIN name THEN name[a] ELSE a
RegionAt(r, name) == RegionOf(At(Element(r, 0), name))
OperandAt(o, name) ==
    IF o.kind = "cell" THEN CellOperand(At(Address(o, 0), name))
    ELSE [o EXCEPT !.region = RegionAt(@, name)]

AddressFields == {"src", "dst", "left", "right", "difference", "borrow", "condition"}

RECURSIVE RenamedBody(_, _)
RenamedBody(body, name) ==
    LET Renamed(i) ==
            [f \in DOMAIN i |->
                CASE f \in AddressFields -> At(i[f], name)
                  [] f \in {"from", "into"} -> RegionAt(i[f], name)
                  [] f = "targets" -> [k \in DOMAIN i[f] |-> [i[f][k] EXCEPT !.dst = At(@, name)]]
                  [] f \in {"body", "then", "else"} -> RenamedBody(i[f], name)
                  [] OTHER -> i[f]]
    IN  [k \in DOMAIN body |-> Renamed(body[k])]

RenamedEnd(t, name) ==
    CASE t.op = "branch" -> [t EXCEPT !.condition = At(@, name)]
      [] t.op = "call"   -> [t EXCEPT !.arguments = [k \in DOMAIN @ |-> OperandAt(@[k], name)]]
      [] t.op = "return" -> IF t.value = None THEN t ELSE [t EXCEPT !.value = OperandAt(@, name)]
      [] t.op \in {"load", "store"} ->
             [t EXCEPT !.region = RegionAt(@, name), !.operand = OperandAt(@, name),
                       !.at = [k \in DOMAIN @ |-> At(@[k], name)]]
      [] OTHER -> t

(* The cells that are written or named anywhere in the body, with its      *)
(* nested bodies.                                                          *)
RECURSIVE WrittenIn(_)
WrittenIn(body) ==
    UNION {LET i == body[k] IN
           Effects(i).writes \cup
           (CASE i.op = "loop" -> WrittenIn(i.body)
              [] i.op = "if" -> WrittenIn(i.then) \cup WrittenIn(i.else)
              [] OTHER -> {}) : k \in DOMAIN body}
RECURSIVE Touched(_)
Touched(body) ==
    UNION {LET i == body[k] IN
           Effects(i).reads \cup Effects(i).writes \cup
           (CASE i.op = "loop" -> Touched(i.body)
              [] i.op = "if" -> Touched(i.then) \cup Touched(i.else)
              [] OTHER -> {}) : k \in DOMAIN body}

-----------------------------------------------------------------------------
(* call_graph.rs: what a function reaches through calls, itself only over  *)
(* a cycle.                                                                *)
RECURSIVE ReachedFrom(_, _)
ReachedFrom(p, fs) ==
    LET next == fs \cup UNION {Calls(p, f) : f \in fs} IN
    IF next = fs THEN fs ELSE ReachedFrom(p, next)
Reaches(p, f) == ReachedFrom(p, Calls(p, f))
Recursive(p) == {f \in DOMAIN p.functions : f \in Reaches(p, f)}
(* recursive_roots: the lowest function of each cycle. *)
RecursiveRoots(p) == {f \in Recursive(p) : ~\E g \in Recursive(p) : g < f /\ g \in Reaches(p, f) /\ f \in Reaches(p, g)}
=============================================================================
