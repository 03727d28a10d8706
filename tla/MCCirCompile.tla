----------------------------- MODULE MCCirCompile -----------------------------
(***************************************************************************)
(* Programs to compile: main reads two bytes, runs pieces one after the    *)
(* other and prints its cells; the pieces call the functions below.        *)
(***************************************************************************)
EXTENDS CirCompile

CONSTANTS
    Pieces,         \* names of pieces, each a program of its own
    First, Second   \* those of which one follows another

S(n) == Slot(n)
A(k) == <<"frame", 0, k>>       \* a structure of main
B(k) == <<"frame", 1, k>>       \* another
G == <<"global", 0, 0>>         \* a global cell
T(k) == <<"global", 1, k>>      \* a global array
C(a) == CellOperand(a)
Minus == Byte - 1

(* The nodes n .. n + 5 are the piece's, next is where it goes on. *)
Piece(name, n, next) ==
    LET Straight(body) == n :> Node(1, body, Goto(next)) IN
    CASE name = "sum" ->   \* s2 := s0 + s1 - s1, by copies
           Straight(<<Copy(S(0), S(2)), Copy(S(1), S(3)), Transfer(S(3), <<To(S(2), 1)>>),
                      Copy(S(1), A(1)), Transfer(A(1), <<To(S(2), Minus)>>), Add(S(2), 1)>>)
      [] name = "fields" ->
           Straight(<<Copy(S(0), A(0)), Copy(S(1), A(1)), CopyCells(FrameRegion(0), FrameRegion(1), 2),
                      Set(A(0), 3), Copy(B(1), S(4)), Copy(A(0), S(3))>>)
      [] name = "swap" ->
           Straight(<<Copy(S(0), S(5)), Copy(S(1), S(0)), Copy(S(5), S(1)), Set(S(3), 2),
                      Transfer(S(3), <<To(S(4), 3), To(S(2), Minus)>>)>>)
      [] name = "less" ->   \* s4 := s0 < s1, s2 := s0 - s1
           Straight(<<Copy(S(0), S(2)), Copy(S(1), S(3)), Compare(S(2), S(3), S(4), 1, 0),
                      Copy(S(0), S(2)), Copy(S(1), S(3)), Transfer(S(3), <<To(S(2), Minus)>>)>>)
      [] name = "restore" ->
           Straight(<<Set(S(5), 0), Transfer(S(0), <<To(S(5), 1), To(S(2), 1)>>), Copy(S(5), S(0)),
                      Add(S(0), 1), Output(S(0))>>)
      [] name = "while" ->   \* counts s0 down, over nodes
           n :> Node(1, <<Copy(S(0), S(5))>>, Branch(S(5), n + 1, next)) @@
           n + 1 :> Node(1, <<Add(S(0), Minus), Add(S(2), 1)>>, Goto(n + 2)) @@
           n + 2 :> Node(1, <<>>, Goto(n))
      [] name = "choice" ->
           n :> Node(1, <<Copy(S(1), S(5))>>, Branch(S(5), n + 1, n + 2)) @@
           n + 1 :> Node(1, <<Copy(S(0), S(2))>>, Goto(n + 3)) @@
           n + 2 :> Node(1, <<Copy(S(1), S(2)), Add(S(2), 2)>>, Goto(n + 3)) @@
           n + 3 :> Node(1, <<Copy(S(2), S(3))>>, Goto(next))
      [] name = "stuck" ->   \* an endless circle of empty nodes
           n :> Node(1, <<Copy(S(0), S(5))>>, Branch(S(5), next, n + 1)) @@
           n + 1 :> Node(1, <<>>, Goto(n + 2)) @@ n + 2 :> Node(1, <<>>, Goto(n + 1))
      [] name = "call" ->
           n :> Node(1, <<Copy(S(0), S(2))>>, Call(2, <<C(S(2)), C(S(1))>>, n + 1)) @@
           n + 1 :> Node(1, <<Copy(Abi, S(3)), Add(S(2), 1)>>, Goto(next))
      [] name = "global" ->
           n :> Node(1, <<Copy(S(0), G)>>, Call(3, <<C(G)>>, n + 1)) @@
           n + 1 :> Node(1, <<Copy(Abi, S(3)), Copy(G, S(4))>>, Goto(next))
      [] name = "wrapped" ->
           n :> Node(1, <<>>, Call(4, <<C(S(1))>>, n + 1)) @@
           n + 1 :> Node(1, <<Copy(Abi, S(4))>>, Goto(next))
      [] name = "pair" ->
           n :> Node(1, <<>>, Call(5, <<C(S(0)), Part(FrameRegion(1), 0, 2)>>, n + 1)) @@
           n + 1 :> Node(1, <<CopyCells(Outbox, FrameRegion(0), 2), Copy(A(0), S(3)), Copy(A(1), S(4))>>, Goto(next))
      [] name = "repeat" ->   \* calls in a loop
           n :> Node(1, <<Copy(S(0), S(5))>>, Branch(S(5), n + 1, next)) @@
           n + 1 :> Node(1, <<Add(S(0), Minus)>>, Call(6, <<C(S(1))>>, n + 2)) @@
           n + 2 :> Node(1, <<Transfer(Abi, <<To(S(2), 1)>>)>>, Goto(n))
      [] name = "portal" ->
           n :> Node(1, <<Copy(S(0), A(0)), Set(A(1), 0), Copy(A(0), S(5)), Copy(A(1), S(6))>>,
                     Store(<<"global", 1>>, <<S(5), S(6)>>, C(S(1)), n + 1)) @@
           n + 1 :> Node(1, <<Copy(A(0), S(5)), Copy(A(1), S(6))>>,
                         Load(<<"global", 1>>, <<S(5), S(6)>>, C(S(3)), next))
      [] name = "element" ->
           n :> Node(1, <<Set(S(5), 1)>>, Store(FrameRegion(1), <<S(5)>>, C(S(0)), n + 1)) @@
           n + 1 :> Node(1, <<Copy(B(1), S(2)), CopyCells(FrameRegion(1), FrameRegion(0), 2)>>, Goto(next))
      [] name = "scaled" ->   \* (s3, s4) := 14 + 3 * s0, with carries
           Straight(<<Set(S(3), Byte - 2), Set(S(4), 0), Copy(S(0), S(5)),
                      StepLoop(S(5), S(3), S(4), S(6), 3)>>)
      [] name = "carries" ->
           Straight(<<Set(S(3), Byte - 2), Set(S(4), 0), Copy(S(0), S(5)),
                      CarryLoop(S(5), S(3), S(4), S(6), S(7), S(8), S(9), 5)>>)
      [] name = "guarded" ->   \* what the branch tests is set in an arm
           n :> Node(1, <<Copy(S(1), S(5))>>, Branch(S(5), n + 1, n + 2)) @@
           n + 1 :> Node(1, <<Set(S(5), 7)>>, Goto(n + 3)) @@
           n + 2 :> Node(1, <<>>, Goto(n + 3)) @@ n + 3 :> Node(1, <<Copy(S(5), S(3))>>, Goto(next))
      [] name = "once" ->      \* a loop whose condition is only added to
           n :> Node(1, <<Copy(S(1), S(6)), Set(S(7), 1)>>, Goto(n + 1)) @@
           n + 1 :> Node(1, <<Transfer(S(6), <<To(S(5), 1)>>)>>, Branch(S(5), n + 2, next)) @@
           n + 2 :> Node(1, <<Add(S(2), 1), Transfer(S(7), <<To(S(6), 1)>>)>>, Goto(n + 1))
      [] name = "nested" ->    \* a choice in an arm of a choice
           n :> Node(1, <<Copy(S(1), S(5))>>, Branch(S(5), n + 1, n + 4)) @@
           n + 1 :> Node(1, <<Copy(S(0), S(6))>>, Branch(S(6), n + 2, n + 3)) @@
           n + 2 :> Node(1, <<Add(S(2), 1)>>, Goto(n + 4)) @@ n + 3 :> Node(1, <<Add(S(2), 2)>>, Goto(n + 4)) @@
           n + 4 :> Node(1, <<Add(S(2), 4)>>, Goto(next))
      [] name = "carried" ->   \* a cell of one pass is read in the next
           Straight(<<Copy(S(0), S(5)), Copy(S(1), S(6)),
                      Loop(S(5), <<Add(S(5), Minus), Transfer(S(6), <<To(S(2), 1)>>), Copy(S(1), S(6))>>)>>)
      [] name = "compared" ->  \* what is subtracted from is read in between
           Straight(<<Copy(S(0), S(5)), Copy(S(1), S(6)), Compare(S(5), S(6), S(4), 1, 0),
                      Copy(S(0), S(2)), Copy(S(1), S(5)), Copy(S(2), S(3)), Transfer(S(5), <<To(S(2), Minus)>>)>>)
      [] name = "stale" ->     \* an argument was copied from what is written since
           n :> Node(1, <<Copy(S(0), S(5)), Add(S(0), 1)>>, Call(2, <<C(S(5)), C(S(1))>>, n + 1)) @@
           n + 1 :> Node(1, <<Copy(Abi, S(3))>>, Goto(next))
      [] name = "either" ->    \* an argument was copied from one or another
           n :> Node(1, <<Copy(S(1), S(5))>>, Branch(S(5), n + 1, n + 2)) @@
           n + 1 :> Node(1, <<Copy(S(0), S(6))>>, Goto(n + 3)) @@ n + 2 :> Node(1, <<Copy(S(1), S(6))>>, Goto(n + 3)) @@
           n + 3 :> Node(1, <<>>, Call(2, <<C(S(6)), C(S(1))>>, n + 4)) @@
           n + 4 :> Node(1, <<Copy(Abi, S(3))>>, Goto(next))
      [] name = "index" ->     \* offsets from a structure that is used as a whole
           n :> Node(1, <<Copy(S(1), B(1)), Set(S(5), 0)>>, Store(FrameRegion(1), <<S(5)>>, C(S(0)), n + 1)) @@
           n + 1 :> Node(1, <<Copy(B(0), S(5)), Copy(B(1), S(6))>>, Load(<<"global", 1>>, <<S(5), S(6)>>, C(B(0)), n + 2)) @@
           n + 2 :> Node(1, <<Copy(B(0), S(5)), Copy(B(1), S(6))>>, Load(<<"global", 1>>, <<S(5), S(6)>>, C(S(3)), next))
      [] name = "successor" ->
           n :> Node(1, <<>>, Call(9, <<C(S(1))>>, n + 1)) @@
           n + 1 :> Node(1, <<Copy(Abi, S(4))>>, Goto(next))
      [] name = "spin" ->      \* a callee that never gets beyond its entry
           n :> Node(1, <<Copy(S(0), S(5))>>, Branch(S(5), next, n + 1)) @@
           n + 1 :> Node(1, <<Output(S(1))>>, Call(10, <<>>, next))
      [] name = "detour" ->    \* a callee that is entered through empty nodes
           n :> Node(1, <<>>, Call(11, <<C(S(1))>>, n + 1)) @@
           n + 1 :> Node(1, <<Copy(Abi, S(3))>>, Goto(next))
      [] name = "recursive" ->
           n :> Node(1, <<>>, Call(7, <<C(S(1))>>, n + 1)) @@
           n + 1 :> Node(1, <<Copy(Abi, S(2))>>, Goto(next))

Function(parameters, slots, cells, outbox, kind, n, entry) ==
    [parameters |-> parameters, slots |-> slots, cells |-> cells, outbox |-> outbox,
     returns |-> [kind |-> kind, cells |-> n], entry |-> entry]
Scalar1(n) == [kind |-> "cell", cell |-> S(n)]
NoCells == [id \in {} |-> 0]

(* 2: a + 2 * b.  3: writes the global, then reads its parameter.          *)
(* 4: only returns what 2 returns.  5: (x, p[0]) with a local array.       *)
(* 6: counts a cell that begins at zero, and calls 2.  7, 8: recursive.    *)
(* 9: one more than what 2 returns.  10: entered in a circle of empty      *)
(* nodes, at neither the first nor the last.  11: entered through two.     *)
Functions ==
    2 :> Function(<<Scalar1(0), Scalar1(1)>>, 3, NoCells, 0, "cell", 0, 120) @@
    3 :> Function(<<Scalar1(0)>>, 2, NoCells, 0, "cell", 0, 130) @@
    4 :> Function(<<Scalar1(0)>>, 2, NoCells, 0, "cell", 0, 140) @@
    5 :> Function(<<Scalar1(0), [kind |-> "aggregate", id |-> 0]>>, 2, 0 :> 2 @@ 1 :> 2, 0, "aggregate", 2, 150) @@
    6 :> Function(<<Scalar1(0)>>, 4, NoCells, 0, "cell", 0, 160) @@
    7 :> Function(<<Scalar1(0)>>, 2, NoCells, 0, "cell", 0, 170) @@
    8 :> Function(<<Scalar1(0)>>, 2, NoCells, 0, "cell", 0, 180) @@
    9 :> Function(<<Scalar1(0)>>, 2, NoCells, 0, "cell", 0, 190) @@
    10 :> Function(<<>>, 0, NoCells, 0, "void", 0, 201) @@
    11 :> Function(<<Scalar1(0)>>, 1, NoCells, 0, "cell", 0, 212)
FunctionNodes ==
    120 :> Node(2, <<Copy(S(0), S(2)), Transfer(S(1), <<To(S(2), 2)>>)>>, Return(C(S(2)))) @@
    130 :> Node(3, <<Set(G, 5), Copy(S(0), S(1)), Add(S(1), 1)>>, Return(C(S(1)))) @@
    140 :> Node(4, <<Copy(S(0), S(1))>>, Call(2, <<C(S(0)), C(S(1))>>, 141)) @@
    141 :> Node(4, <<Copy(Abi, S(1))>>, Return(C(S(1)))) @@
    150 :> Node(5, <<Copy(<<"frame", 0, 0>>, <<"frame", 1, 1>>), Set(S(1), 0)>>,
                Store(FrameRegion(1), <<S(1)>>, C(S(0)), 151)) @@
    151 :> Node(5, <<>>, Return(Part(FrameRegion(1), 0, 2))) @@
    160 :> Node(6, <<Add(S(1), 1), Transfer(S(0), <<To(S(1), 1)>>)>>, Call(2, <<C(S(1)), C(S(1))>>, 161)) @@
    161 :> Node(6, <<Copy(Abi, S(2)), Copy(S(1), S(3)), Transfer(S(3), <<To(S(2), 1)>>)>>, Return(C(S(2)))) @@
    170 :> Node(7, <<Copy(S(0), S(1))>>, Branch(S(1), 171, 172)) @@
    171 :> Node(7, <<Add(S(0), Minus)>>, Call(8, <<C(S(0))>>, 173)) @@
    172 :> Node(7, <<>>, Return(C(S(0)))) @@
    173 :> Node(7, <<Add(Abi, 2)>>, Return(C(Abi))) @@
    180 :> Node(8, <<>>, Call(7, <<C(S(0))>>, 181)) @@
    181 :> Node(8, <<>>, Return(C(Abi))) @@
    190 :> Node(9, <<Copy(S(0), S(1))>>, Call(2, <<C(S(0)), C(S(1))>>, 191)) @@
    191 :> Node(9, <<Copy(Abi, S(1)), Add(S(1), 1)>>, Return(C(S(1)))) @@
    200 :> Node(10, <<>>, Goto(202)) @@ 201 :> Node(10, <<>>, Goto(200)) @@ 202 :> Node(10, <<>>, Goto(201)) @@
    210 :> Node(11, <<Add(S(0), 1)>>, Return(C(S(0)))) @@
    211 :> Node(11, <<>>, Goto(210)) @@ 212 :> Node(11, <<>>, Goto(211))

Main(pieces) ==
    LET Start(k) == 10 * k
        last == Start(Len(pieces) + 1)
        Nodes(k) == Piece(pieces[k], Start(k), Start(k + 1))
        joined == FoldLeft(LAMBDA f, k : Nodes(k) @@ f, [c \in {} |-> 0], [k \in DOMAIN pieces |-> k])
    IN  1 :> Node(1, <<Input(S(0)), Input(S(1))>>, Goto(10)) @@ joined @@
        last :> Node(1, [n \in 1 .. 5 |-> Output(S(n - 1))], Halt)

Program(pieces) ==
    LET all == Main(pieces) @@ FunctionNodes
        p == [main |-> 1, globals |-> 0 :> 1 @@ 1 :> 3,
              functions |-> 1 :> Function(<<>>, 10, 0 :> 2 @@ 1 :> 2, 2, "void", 0, 1) @@ Functions,
              nodes |-> all]
        called == UNION {{1, f} \cup Reaches(p, f) : f \in Calls(p, 1)} \cup {1}
    IN  [p EXCEPT !.functions = Restrict(@, called),
                  !.functions[1].outbox = IF 5 \in called THEN 2 ELSE 0,
                  !.nodes = Restrict(@, {c \in DOMAIN @ : @[c].function \in called})]

ThePrograms ==
    {Program(<<a>>) : a \in Pieces} \cup {Program(<<a, b>>) : a \in First, b \in Second}
TheInputs == {<<0, 0>>, <<1, 5>>, <<3, 2>>, <<2>>}
=============================================================================
