------------------------- MODULE MCFrameAllocation -------------------------
(***************************************************************************)
(* An entry and three nodes of every kind over three slots, in a line, in  *)
(* a loop and behind a branch; without and with parameters; with the last  *)
(* slot a scalar or an aggregate.                                          *)
(***************************************************************************)
EXTENDS FrameAllocation

S == 0 .. 2

Kind(uses, defs) == [uses |-> uses, defs |-> defs, copy |-> None]
Kinds ==
    {Kind({a}, {}) : a \in S} \cup {Kind({}, {a}) : a \in S} \cup {Kind({a}, {a}) : a \in S}
    \cup {Kind({p[1]}, {p[2]}) : p \in {<<0, 1>>, <<1, 2>>, <<2, 0>>}}
    \cup {[uses |-> {p[1]}, defs |-> {p[2]}, copy |-> p] : p \in {q \in S \X S : q[1] # q[2]}}

Shapes == {<<{2}, {3}, {4}, {}>>, <<{2}, {3}, {4}, {2}>>, <<{2}, {3, 4}, {4}, {}>>, <<{2}, {3, 4}, {2}, {}>>}

Graph(k2, k3, k4, successors, parameters, class) ==
    [uses |-> <<{}, k2.uses, k3.uses, k4.uses>>, defs |-> <<{}, k2.defs, k3.defs, k4.defs>>,
     copy |-> <<None, k2.copy, k3.copy, k4.copy>>,
     successors |-> successors, entry |-> 1, parameters |-> parameters,
     class |-> [s \in S |-> IF s = 2 THEN class ELSE None]]

Whole == {k \in Kinds : k.copy = None \/ 2 \notin {k.copy[1], k.copy[2]}}

MCGraphs ==
    {Graph(k2, k3, k4, sh, ps, None) : k2, k3, k4 \in Kinds, sh \in Shapes, ps \in {{}, {0, 1}}}
    \cup {Graph(k2, k3, k4, sh, {0}, 2) : k2, k3, k4 \in Whole, sh \in {<<{2}, {3}, {4}, {2}>>}}
=============================================================================
