-------------------------- MODULE MCGeneratedProgram --------------------------
(***************************************************************************)
(* Programs to run on the tape: instructions and soft control in main,     *)
(* calls of recursive functions, which need the stack, and of functions    *)
(* that touch globals, which have fixed frames.                            *)
(***************************************************************************)
EXTENDS GeneratedProgram

S(n) == Slot(n)
A(k) == <<"frame", 0, k>>
B(k) == <<"frame", 1, k>>
O(k) == <<"outbox", 0, k>>
G == <<"global", 0, 0>>         \* a global cell
T(k) == <<"global", 1, k>>      \* a global array
C(a) == CellOperand(a)
Minus == Byte - 1

Function(parameters, slots, cells, outbox, kind, n, entry) ==
    [parameters |-> parameters, slots |-> slots, cells |-> cells, outbox |-> outbox,
     returns |-> [kind |-> kind, cells |-> n], entry |-> entry]
In(n) == [kind |-> "cell", cell |-> S(n)]
InCell(a) == [kind |-> "cell", cell |-> a]
InAll(id) == [kind |-> "aggregate", id |-> id]
NoCells == [id \in {} |-> 0]

(* Every instruction, straight and in loops and choices. *)
Kernels ==
    [main |-> 1, globals |-> 0 :> 1 @@ 1 :> 3,
     functions |-> 1 :> Function(<<>>, 8, 0 :> 2 @@ 1 :> 3, 0, "void", 0, 1),
     nodes |->
        1 :> Node(1, <<Input(S(0)), Input(S(1)), Copy(S(0), S(2)), Copy(S(1), S(3)), Compare(S(2), S(3), S(4), 1, 0),
                       Output(S(4)), Copy(S(0), S(2)), Copy(S(1), S(3)), SubWithBorrow(S(2), S(3), S(5), S(4), 1, 0),
                       Output(S(5)), Output(S(4)), Copy(S(0), A(0)), Copy(S(1), A(1)),
                       SubWithBorrow(A(0), A(1), S(5), A(1), 2, 3), Output(S(5)), Output(A(1)),
                       Copy(S(0), S(2)), Compare(S(2), S(2), S(4), 4, 5), Output(S(4))>>, Goto(2)) @@
        2 :> Node(1, <<Copy(S(0), G), Copy(G, S(2)), Transfer(G, <<To(T(1), 2), To(S(2), Minus)>>), Output(S(2)),
                       Copy(S(1), T(2)), CopyCells(<<"global", 1>>, FrameRegion(1), 3), Set(T(0), 0), Set(T(1), 0),
                       Set(T(2), 0), Set(B(0), 0), Output(B(0)), Output(B(1)), Output(T(1)), Transfer(B(2), <<>>),
                       Output(B(2))>>, Goto(3)) @@
        3 :> Node(1, <<Copy(S(0), S(2)), Add(S(2), Minus), If(S(2), <<Add(S(1), 1)>>, <<Add(S(1), 2)>>),
                       Copy(S(0), S(2)), If(S(2), <<Copy(S(1), S(3)), If(S(3), <<Output(S(0))>>, <<Output(S(1))>>)>>, <<>>),
                       Copy(A(0), S(6)), If(S(6), <<Output(S(1))>>, <<>>), Copy(S(0), A(0)), Copy(A(0), S(6)),
                       If(S(6), <<Add(A(0), 1)>>, <<Add(A(0), 2)>>), Output(A(0)),
                       Copy(S(0), S(2)), Loop(S(2), <<Add(S(2), Minus), Output(S(2)), Copy(S(2), S(6)),
                                                      If(S(6), <<Add(G, 1)>>, <<>>)>>), Output(G),
                       Loop(S(1), <<Add(S(1), Minus), Copy(S(0), S(6)), Output(S(6))>>)>>, Halt)]

(* Soft control: loops in loops, and choices that leave them, each before  *)
(* a call of its own.                                                      *)
Control ==
    [main |-> 1, globals |-> 0 :> 1,
     functions |-> 1 :> Function(<<>>, 5, NoCells, 0, "void", 0, 1) @@ 2 :> Function(<<In(0)>>, 2, NoCells, 0, "cell", 0, 20),
     nodes |->
        1 :> Node(1, <<Input(S(0)), Input(S(1))>>, Goto(2)) @@
        2 :> Node(1, <<Copy(S(0), S(2))>>, Branch(S(2), 3, 8)) @@
        3 :> Node(1, <<Add(S(0), Minus), Copy(S(1), S(3))>>, Goto(4)) @@
        4 :> Node(1, <<Copy(S(3), S(2))>>, Branch(S(2), 5, 2)) @@
        5 :> Node(1, <<Add(S(3), Minus), Add(S(4), 1), Copy(S(3), S(2)), Add(S(2), Byte - 2)>>, Branch(S(2), 4, 6)) @@
        6 :> Node(1, <<>>, Call(2, <<C(S(4))>>, 7)) @@
        7 :> Node(1, <<Output(Abi)>>, Goto(4)) @@
        8 :> Node(1, <<Output(S(4)), Copy(S(4), S(2))>>, Branch(S(2), 9, 11)) @@
        9 :> Node(1, <<>>, Call(2, <<C(S(1))>>, 10)) @@
        10 :> Node(1, <<Output(Abi)>>, Goto(11)) @@
        11 :> Node(1, <<Output(S(1))>>, Halt) @@
        20 :> Node(2, <<Copy(S(0), S(1))>>, Branch(S(1), 21, 22)) @@
        21 :> Node(2, <<Add(S(0), 1)>>, Return(C(S(0)))) @@
        22 :> Node(2, <<Set(S(0), 7)>>, Return(C(S(0))))]

(* The same, where the callee keeps count in a global. *)
Counting ==
    [Control EXCEPT !.nodes[21].body = <<Add(G, 1), Transfer(G, <<To(S(0), 1), To(S(1), 1)>>), Transfer(S(1), <<To(G, 1)>>)>>,
                    !.nodes[22].end = Return(C(G))]

(* A recursive function with arguments and results of several cells, which *)
(* calls, with a local argument and with a global one, one that has fixed  *)
(* frames and calls another.                                               *)
Recursion ==
    [main |-> 1, globals |-> 0 :> 1 @@ 1 :> 3,
     functions |->
        1 :> Function(<<>>, 2, 0 :> 2, 2, "void", 0, 1) @@
        2 :> Function(<<In(0), InAll(0), InCell(A(1))>>, 4, 0 :> 2 @@ 1 :> 2, 2, "aggregate", 2, 20) @@
        3 :> Function(<<In(0), In(1)>>, 3, NoCells, 2, "cell", 0, 30) @@
        4 :> Function(<<InAll(0)>>, 1, 0 :> 2 @@ 1 :> 2, 0, "aggregate", 2, 40),
     nodes |->
        1 :> Node(1, <<Input(S(0)), Input(A(0)), Copy(A(0), A(1)), Copy(A(0), G)>>,
                  Call(2, <<C(S(0)), Part(FrameRegion(0), 0, 2), C(S(0))>>, 2)) @@
        2 :> Node(1, <<Output(O(0)), Output(O(1)), Output(A(0)), Output(G), Output(T(1))>>,
                  Call(3, <<C(G), C(S(0))>>, 3)) @@
        3 :> Node(1, <<Output(Abi)>>, Halt) @@
        20 :> Node(2, <<Copy(S(0), S(1))>>, Branch(S(1), 21, 25)) @@
        21 :> Node(2, <<Add(S(0), Minus)>>, Call(3, <<C(S(0)), C(S(0))>>, 22)) @@
        22 :> Node(2, <<Copy(Abi, S(2))>>, Call(3, <<C(G), C(S(2))>>, 23)) @@
        23 :> Node(2, <<Copy(Abi, S(3)), Add(A(0), 1)>>, Call(2, <<C(S(0)), Part(FrameRegion(0), 0, 2), C(S(0))>>, 24)) @@
        24 :> Node(2, <<CopyCells(Outbox, FrameRegion(1), 2), Output(S(3)), Add(S(2), 0)>>, Goto(26)) @@
        25 :> Node(2, <<Copy(A(1), B(0)), Copy(A(0), B(1))>>, Goto(26)) @@
        26 :> Node(2, <<Add(B(1), 1), Copy(B(0), A(0)), Copy(B(1), A(1))>>, Return(Part(FrameRegion(0), 0, 2))) @@
        30 :> Node(3, <<Copy(S(0), T(1))>>, Call(4, <<Part(<<"global", 1>>, 1, 2)>>, 31)) @@
        31 :> Node(3, <<Copy(O(0), S(2)), Transfer(O(1), <<To(S(2), 1)>>), Transfer(S(1), <<To(S(2), 2)>>), Add(G, 1)>>,
                   Return(C(S(2)))) @@
        40 :> Node(4, <<Copy(A(0), T(2)), CopyCells(FrameRegion(0), FrameRegion(1), 2)>>, Return(Part(FrameRegion(1), 0, 2)))]

(* Fixed frames all the way: results return to one continuation from two   *)
(* functions, and to one that is also jumped to.                           *)
Fixed ==
    [main |-> 1, globals |-> 0 :> 1,
     functions |->
        1 :> Function(<<>>, 4, 0 :> 2, 2, "void", 0, 1) @@
        2 :> Function(<<In(0)>>, 1, NoCells, 2, "cell", 0, 20) @@
        3 :> Function(<<In(0)>>, 1, NoCells, 0, "void", 0, 30) @@
        4 :> Function(<<In(0), InCell(A(1))>>, 1, 0 :> 2, 0, "aggregate", 2, 40),
     nodes |->
        1 :> Node(1, <<Input(S(0)), Copy(S(0), S(1))>>, Branch(S(1), 2, 3)) @@
        2 :> Node(1, <<>>, Call(2, <<C(S(0))>>, 4)) @@
        3 :> Node(1, <<>>, Call(3, <<C(S(0))>>, 4)) @@
        4 :> Node(1, <<Copy(Abi, S(2)), Output(S(2)), Input(S(0)), Copy(S(0), S(1))>>, Branch(S(1), 5, 6)) @@
        5 :> Node(1, <<>>, Call(4, <<C(S(0)), C(S(0))>>, 6)) @@
        6 :> Node(1, <<Output(O(0)), Output(O(1)), Output(Abi), CopyCells(Outbox, FrameRegion(0), 2), Output(A(1)),
                       Output(G)>>, Halt) @@
        20 :> Node(2, <<Add(G, 1)>>, Call(4, <<C(G), C(S(0))>>, 21)) @@
        21 :> Node(2, <<Transfer(O(1), <<To(O(0), 1)>>)>>, Return(C(O(0)))) @@
        30 :> Node(3, <<Transfer(S(0), <<To(G, 3)>>)>>, Return(None)) @@
        40 :> Node(4, <<Transfer(S(0), <<To(A(0), 2)>>), Add(G, 2)>>, Return(Part(FrameRegion(0), 0, 2)))]

(* Large aggregates with portals, and values in more than one chunk; only  *)
(* laid out.                                                               *)
Large ==
    [main |-> 1, globals |-> 0 :> 1 @@ 1 :> 70 @@ 2 :> 5 @@ 3 :> 16 @@ 4 :> 1,
     functions |->
        1 :> Function(<<>>, 20, 0 :> 40 @@ 1 :> 3 @@ 2 :> 32, 18, "void", 0, 1) @@
        2 :> Function(<<In(0)>>, 3, 0 :> 18, 0, "aggregate", 18, 20),
     nodes |->
        1 :> Node(1, <<Compare(S(3), S(4), S(5), 1, 0), Compare(S(8), S(15), S(16), 1, 0), Copy(S(14), S(6)), If(S(6), <<>>, <<>>)>>,
                  Call(2, <<C(S(0))>>, 2)) @@
        2 :> Node(1, <<>>, Load(<<"global", 1>>, <<S(5), S(6)>>, Part(FrameRegion(1), 0, 3), 3)) @@
        3 :> Node(1, <<>>, Store(FrameRegion(0), <<S(7)>>, C(S(8)), 4)) @@
        4 :> Node(1, <<Output(S(0))>>, Halt) @@
        20 :> Node(2, <<Output(G)>>, Return(Part(FrameRegion(0), 0, 18)))]

(* A function that is never called, too large for a fixed frame. *)
Unused ==
    [main |-> 1, globals |-> 0 :> 1,
     functions |-> 1 :> Function(<<>>, 1, NoCells, 0, "void", 0, 1) @@ 2 :> Function(<<>>, 0, 0 :> 490, 0, "void", 0, 20),
     nodes |-> 1 :> Node(1, <<Set(S(0), 9), Output(S(0))>>, Halt) @@ 20 :> Node(2, <<Output(G)>>, Return(None))]

Options ==
    LET plain == [regions |-> FALSE, fixed |-> FALSE, nibble |-> FALSE, compare |-> FALSE, bank |-> FALSE,
                  direct |-> 0, known |-> FALSE, dynamic |-> FALSE, limit |-> 100000, resumeLimit |-> 100000]
        all == [plain EXCEPT !.regions = TRUE, !.fixed = TRUE, !.nibble = TRUE, !.compare = TRUE, !.bank = TRUE]
    IN  [plain |-> plain, all |-> all,
         fixed |-> [plain EXCEPT !.fixed = TRUE],
         boundary |-> [plain EXCEPT !.fixed = TRUE, !.nibble = TRUE, !.compare = TRUE],
         regions |-> [plain EXCEPT !.regions = TRUE, !.bank = TRUE],
         entered |-> [all EXCEPT !.direct = 1, !.bank = FALSE],
         known |-> [all EXCEPT !.direct = 2, !.known = TRUE, !.dynamic = TRUE, !.compare = FALSE],
         limited |-> [all EXCEPT !.direct = 2, !.known = TRUE, !.dynamic = TRUE, !.limit = 2000, !.resumeLimit = 300]]

Case(p, names, inputs) ==
    Joined([k \in DOMAIN names |-> [n \in DOMAIN inputs |->
        [program |-> p, options |-> Options[names[k]], input |-> inputs[n]]]])
TheCases ==
    Case(Kernels, <<"plain", "all", "boundary">>, <<<<3, 5>>, <<2, 1>>>>)
    \o Case(Control, <<"plain", "all", "regions", "known">>, <<<<2, 3>>, <<0>>>>)
    \o Case(Counting, <<"all", "fixed", "entered", "limited">>, <<<<1, 3>>, <<0>>>>)
    \o Case(Recursion, <<"plain", "all", "fixed", "boundary", "known", "limited", "entered">>, <<<<2, 4>>, <<0, 9>>>>)
    \o Case(Fixed, <<"plain", "all", "fixed", "known", "limited">>, <<<<3, 2>>, <<0>>, <<5>>>>)
    \o Case(Large, <<"plain", "all", "fixed", "boundary">>, <<None>>)
    \o Case(Unused, <<"plain", "all">>, <<<<>>>>)
=============================================================================
