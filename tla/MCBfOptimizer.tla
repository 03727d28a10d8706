---------------------------- MODULE MCBfOptimizer ----------------------------
(***************************************************************************)
(* Programs of up to three instructions after two cells are read, loops    *)
(* over bodies that do and do not clear a cell, and sites in a tree.       *)
(***************************************************************************)
EXTENDS BfOptimizer

MCParent == [s \in 0 .. 4 |-> CASE s = 0 -> None [] s \in {1, 2} -> 0 [] OTHER -> 1]

I(op, amount) == [op |-> op, amount |-> amount, body |-> <<>>]
Simple == {I("move", 1), I("move", -1), I("add", 1), I("add", Modulus - 1), I("output", 0), I("input", 0)}
Loop(body) == [op |-> "loop", amount |-> 0, body |-> body]
Bodies ==
    {<<>>, <<I("add", 3)>>, <<I("add", 2)>>, <<I("add", 1), I("add", Modulus - 1)>>,
     <<I("add", 2), I("add", 1)>>, <<I("add", 1), I("add", 1)>>, <<I("move", 1)>>, <<I("move", -1), I("move", 1)>>,
     <<I("output", 0), I("add", Modulus - 1)>>, <<I("input", 0)>>, <<Loop(<<I("add", 1)>>)>>,
     <<Loop(<<>>), I("add", 1)>>, <<Loop(<<I("add", 1)>>), I("move", 1)>>,
     <<I("add", Modulus - 1), I("move", 1), I("add", 1), I("move", -1)>>}
Items == Simple \cup {I("move", 2), I("move", 0), I("add", 0), I("add", 5)} \cup {Loop(b) : b \in Bodies}

(* Sites by position: those of a loop and its body differ. *)
RECURSIVE Sited(_, _, _)
Sited(instructions, sites, k) ==
    [n \in DOMAIN instructions |->
        LET i == instructions[n] IN
        Instruction(i.op, i.amount, Sited(i.body, sites, k + n), sites[1 + ((k + n) % Len(sites))])]

Setup == <<I("move", 1), I("input", 0), I("move", 1), I("input", 0)>>

Few == Simple \cup {Loop(b) : b \in {<<>>, <<I("add", 3)>>, <<I("add", 2)>>, <<Loop(<<I("add", 1)>>)>>}}

MCPrograms ==
    {Sited(Setup \o <<x, y, z>> \o <<I("output", 0)>>, <<3, 4, 2, 1>>, 0) : x, y, z \in Few}
    \cup {Sited(Setup \o <<x, y>> \o <<I("output", 0)>>, sites, 0) : x, y \in Items, sites \in {<<1, 3>>, <<4, 2, 0>>}}
MCInputs == {<<3, 2>>}
=============================================================================
