-------------------------- MODULE FrameAllocation --------------------------
(***************************************************************************)
(* Reuse of frame storage (cir/frame_allocation.rs): backwards liveness    *)
(* over the graph of the instructions, interference, colouring; and then   *)
(* an activation of the function, on its virtual slots and on the colours  *)
(* side by side.                                                           *)
(*                                                                         *)
(* A slot is a scalar or a whole aggregate.  A node of the graph is an     *)
(* instruction, a terminator or the entry of a continuation, with the      *)
(* slots it reads and writes (Node; a partial write of an aggregate reads  *)
(* it too).  What a node computes is left open: any values, the same on    *)
(* both sides.  The order of the work queue is left open; it does not      *)
(* change the result.                                                      *)
(***************************************************************************)
EXTENDS Integers, Sequences, FiniteSets

CONSTANTS
    Graphs,    \* the graphs of functions
    Values,    \* contents of slots
    Zero,      \* what frames are filled with on entry
    None

IsGraph(g) ==
    LET slots == DOMAIN g.class  nodes == DOMAIN g.uses IN
    /\ slots \subseteq Nat /\ nodes \subseteq Nat /\ IsFiniteSet(nodes)
    /\ g.uses \in [nodes -> SUBSET slots] /\ g.defs \in [nodes -> SUBSET slots]
    /\ g.successors \in [nodes -> SUBSET nodes]
    /\ g.copy \in [nodes -> (slots \X slots) \cup {None}]
    /\ g.entry \in nodes /\ g.parameters \subseteq slots
    /\ \A n \in nodes :
          g.copy[n] # None => /\ g.uses[n] = {g.copy[n][1]} /\ g.defs[n] = {g.copy[n][2]}
                              /\ g.class[g.copy[n][1]] = g.class[g.copy[n][2]]

ASSUME AllocationAssumption ==
    /\ Zero \in Values /\ None \notin Nat \X Nat
    /\ \A g \in Graphs : IsGraph(g)

VARIABLES
    graph,      \* nodes: [uses, defs, successors, copy, entry, parameters, class]
    queued,     \* nodes whose liveness is to be computed again
    live,       \* live[n]: the slots that are live before n
    conflicts,  \* the interference graph, pairs of slots
    color,      \* the colours given so far
    classes,    \* color_classes: the class of each colour
    node,       \* the node that runs next, None before the activation
    virtual,    \* the values of the slots
    physical    \* the values of the colours

vars == <<graph, queued, live, conflicts, color, classes, node, virtual, physical>>

Nodes == DOMAIN graph.uses
Slots == DOMAIN graph.class
Colors == DOMAIN classes

Init ==
    /\ graph \in Graphs
    /\ queued = Nodes
    /\ live = [n \in Nodes |-> {}]
    /\ conflicts = None
    /\ color = [s \in {} |-> 0] /\ classes = <<>>
    /\ node = None /\ virtual = None /\ physical = None

-----------------------------------------------------------------------------
(* liveness.  (Mutants: a definition does not end the life of the value    *)
(* before it; the node is visited again instead of its predecessors.)      *)
Updated_NoKill(n) == graph.uses[n] \cup UNION {live[s] : s \in graph.successors[n]}
Updated(n) == graph.uses[n] \cup UNION {live[s] \ graph.defs[n] : s \in graph.successors[n]}

Again_Always(n) == {p \in Nodes : n \in graph.successors[p]}
Again(n) == IF Updated(n) # live[n] THEN {p \in Nodes : n \in graph.successors[p]} ELSE {}

Visit ==
    \E n \in queued :
        /\ live' = [live EXCEPT ![n] = Updated(n)]
        /\ queued' = (queued \ {n}) \cup Again(n)
        /\ UNCHANGED <<graph, conflicts, color, classes, node, virtual, physical>>

(* The operands of an instruction stay apart, a copy excepted; what is     *)
(* defined stays apart from what is live afterwards; at the entry, what is *)
(* live and the parameters do.  (Mutant: parameters only among themselves.)*)
Apart_ParametersOnly(a, b) ==
    \/ \E n \in Nodes : graph.copy[n] = None /\ {a, b} \subseteq graph.uses[n] \cup graph.defs[n]
    \/ \E n \in Nodes : \E s \in graph.successors[n] : a \in graph.defs[n] /\ b \in live[s]
    \/ {a, b} \subseteq live[graph.entry]
    \/ {a, b} \subseteq graph.parameters
Apart(a, b) ==
    \/ \E n \in Nodes : graph.copy[n] = None /\ {a, b} \subseteq graph.uses[n] \cup graph.defs[n]
    \/ \E n \in Nodes : \E s \in graph.successors[n] : a \in graph.defs[n] /\ b \in live[s]
    \/ {a, b} \subseteq live[graph.entry]
    \/ {a, b} \subseteq graph.parameters
    \/ a \in graph.parameters /\ b \in live[graph.entry]

Interfere ==
    /\ queued = {} /\ conflicts = None
    /\ conflicts' = {p \in Slots \X Slots : p[1] # p[2] /\ (Apart(p[1], p[2]) \/ Apart(p[2], p[1]))}
    /\ UNCHANGED <<graph, queued, live, color, classes, node, virtual, physical>>

-----------------------------------------------------------------------------
(* color: the slot with most neighbours first, then the lowest. *)
Neighbours(s) == {t \in Slots : <<s, t>> \in conflicts}
Degree(s) == Cardinality(Neighbours(s))
Uncolored == Slots \ DOMAIN color
First(s) == \A t \in Uncolored : Degree(s) > Degree(t) \/ (Degree(s) = Degree(t) /\ s <= t)

(* (Mutant: the class of the colour is not looked at.) *)
Fits_AnyClass(s, c) == \A t \in Neighbours(s) \cap DOMAIN color : color[t] # c
Fits(s, c) == classes[c] = graph.class[s] /\ \A t \in Neighbours(s) \cap DOMAIN color : color[t] # c

(* The colour at the other end of a copy. *)
Prefers(s, n, c) ==
    /\ graph.copy[n] # None
    /\ \E t \in DOMAIN color : color[t] = c /\ graph.copy[n] \in {<<s, t>>, <<t, s>>}
    /\ Fits(s, c)
Preferred(s, c) ==
    \E n \in Nodes : /\ Prefers(s, n, c)
                     /\ \A m \in Nodes : m < n => ~\E d \in Colors : Prefers(s, m, d)

Given(s, c) ==
    IF \E d \in Colors : Preferred(s, d) THEN c \in Colors /\ Preferred(s, c)
    ELSE IF \E d \in Colors : Fits(s, d)
         THEN c \in Colors /\ Fits(s, c) /\ \A d \in Colors : Fits(s, d) => c <= d
         ELSE c = Len(classes) + 1

Color ==
    /\ conflicts # None
    /\ \E s \in Uncolored : \E c \in 1 .. Len(classes) + 1 :
          /\ First(s) /\ Given(s, c)
          /\ color' = [t \in DOMAIN color \cup {s} |-> IF t = s THEN c ELSE color[t]]
          /\ classes' = IF c \in Colors THEN classes ELSE Append(classes, graph.class[s])
    /\ UNCHANGED <<graph, queued, live, conflicts, node, virtual, physical>>

-----------------------------------------------------------------------------
(* What is written, on the side of the colours. *)
Stored(memory, written) ==
    [c \in Colors |-> IF \E s \in DOMAIN written : color[s] = c
                      THEN written[CHOOSE s \in DOMAIN written : color[s] = c]
                      ELSE memory[c]]

(* An activation: a frame of zeros, with its parameters. *)
Enter ==
    /\ conflicts # None /\ Uncolored = {} /\ node = None
    /\ node' = graph.entry
    /\ \E arguments \in [graph.parameters -> Values] :
          /\ virtual' = [s \in Slots |-> IF s \in graph.parameters THEN arguments[s] ELSE Zero]
          /\ physical' = Stored([c \in Colors |-> Zero], arguments)
    /\ UNCHANGED <<graph, queued, live, conflicts, color, classes>>

(* An instruction.  A copy takes its value where it is stored. *)
Execute ==
    /\ node # None
    /\ node' \in graph.successors[node]
    /\ \E written \in [graph.defs[node] -> Values] :
          LET copy == graph.copy[node] IN
              /\ copy # None => written[copy[2]] = virtual[copy[1]]
              /\ virtual' = [s \in Slots |-> IF s \in DOMAIN written THEN written[s] ELSE virtual[s]]
              /\ physical' = IF copy = None THEN Stored(physical, written)
                             ELSE [physical EXCEPT ![color[copy[2]]] = physical[color[copy[1]]]]
    /\ UNCHANGED <<graph, queued, live, conflicts, color, classes>>

Next == Visit \/ Interfere \/ Color \/ Enter \/ Execute

(* The pass runs to its end; the program may stop anywhere. *)
Spec == Init /\ [][Next]_vars /\ WF_vars(Visit \/ Interfere \/ Color)

-----------------------------------------------------------------------------
Allocated == conflicts # None /\ Uncolored = {}

TypeOK ==
    /\ queued \in SUBSET Nodes /\ live \in [Nodes -> SUBSET Slots]
    /\ conflicts \in {None} \cup SUBSET (Slots \X Slots)
    /\ DOMAIN color \subseteq Slots
    /\ \A s \in DOMAIN color : color[s] \in Colors /\ classes[color[s]] = graph.class[s]
    /\ node # None => /\ node \in Nodes /\ Allocated
                      /\ virtual \in [Slots -> Values] /\ physical \in [Colors -> Values]

(* Liveness is what it should be: a slot is live where some path reads it  *)
(* before it is written, through back edges and around other definitions.  *)
(* More would cost storage, less would lose values.                        *)
Needed(n, s) ==
    \E k \in 0 .. Cardinality(Nodes) - 1 : \E path \in [0 .. k -> Nodes] :
        /\ path[0] = n /\ s \in graph.uses[path[k]]
        /\ \A i \in 0 .. k - 1 : path[i + 1] \in graph.successors[path[i]] /\ s \notin graph.defs[path[i]]
LivenessExact ==
    conflicts # None /\ DOMAIN color = {} =>
        \A n \in Nodes : live[n] = {s \in Slots : Needed(n, s)}

(* What an instruction reads from the colours is what it would read from   *)
(* slots of its own, on every path: no value is overwritten while it is    *)
(* needed, zeros of the frame and parameters included (allocate).          *)
OperandsAgree == node # None => \A s \in graph.uses[node] : physical[color[s]] = virtual[s]

(* The work queue of the liveness analysis runs empty, and every slot gets *)
(* a colour.                                                               *)
Settles == <>Allocated
=============================================================================
