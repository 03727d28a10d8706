----------------------- MODULE FrameAllocationProofs -----------------------
(***************************************************************************)
(* Sharing storage is sound, for every graph: whatever the order of the    *)
(* work queue, the liveness that is found satisfies its equations; a       *)
(* colouring in which conflicting slots differ keeps every live value      *)
(* where its slot is; so every operand is what it would be in a slot of    *)
(* its own.  The last fact is not inductive: it is carried by agreement on *)
(* all live slots, of which the operands of the node are some.             *)
(***************************************************************************)
EXTENDS FrameAllocation, CommonLemmas, FiniteSetTheorems, TLAPS

(* A node whose equation may not be satisfied yet is in the queue. *)
Solved == \A n \in Nodes \ queued : Updated(n) \subseteq live[n]

Shapes ==
    /\ graph \in Graphs
    /\ queued \in SUBSET Nodes /\ live \in [Nodes -> SUBSET Slots]
    /\ classes \in Seq({graph.class[s] : s \in Slots})
    /\ DOMAIN color \subseteq Slots
    /\ \A s \in DOMAIN color : color[s] \in Colors /\ classes[color[s]] = graph.class[s]

ConflictsOf == {p \in Slots \X Slots : p[1] # p[2] /\ (Apart(p[1], p[2]) \/ Apart(p[2], p[1]))}

Proper ==
    /\ conflicts = None => DOMAIN color = {}
    /\ conflicts # None => queued = {} /\ conflicts = ConflictsOf
    /\ \A s, t \in DOMAIN color : <<s, t>> \in conflicts => color[s] # color[t]

Agree ==
    node # None =>
        /\ node \in Nodes /\ Allocated
        /\ virtual \in [Slots -> Values] /\ physical \in [Colors -> Values]
        /\ \A s \in live[node] : physical[color[s]] = virtual[s]

IInv == Shapes /\ Solved /\ Proper /\ Agree

-----------------------------------------------------------------------------
LEMMA GraphShape ==
    ASSUME graph \in Graphs
    PROVE  /\ Slots \subseteq Nat /\ Nodes \subseteq Nat /\ IsFiniteSet(Nodes)
           /\ graph.uses \in [Nodes -> SUBSET Slots] /\ graph.defs \in [Nodes -> SUBSET Slots]
           /\ graph.successors \in [Nodes -> SUBSET Nodes]
           /\ graph.copy \in [Nodes -> (Slots \X Slots) \cup {None}]
           /\ graph.entry \in Nodes /\ graph.parameters \subseteq Slots
           /\ \A n \in Nodes :
                 graph.copy[n] # None => /\ graph.uses[n] = {graph.copy[n][1]}
                                         /\ graph.defs[n] = {graph.copy[n][2]}
BY AllocationAssumption DEF IsGraph, Nodes, Slots

(* Slots that an instruction, the entry or a definition needs apart have   *)
(* colours of their own.                                                   *)
LEMMA ApartDiffer ==
    ASSUME Shapes, Proper, Allocated, NEW a \in Slots, NEW b \in Slots, a # b,
           Apart(a, b) \/ Apart(b, a)
    PROVE  color[a] # color[b]
<1>1. a \in DOMAIN color /\ b \in DOMAIN color
  BY DEF Allocated, Uncolored
<1>2. <<a, b>> \in conflicts
  BY DEF Proper, Allocated, ConflictsOf
<1> QED
  BY <1>1, <1>2 DEF Proper

(* Storing values of slots whose colours differ stores each in its own.    *)
LEMMA StoredThere ==
    ASSUME NEW memory, NEW written, NEW s \in DOMAIN written, color[s] \in Colors,
           \A t \in DOMAIN written : color[t] = color[s] => t = s
    PROVE  Stored(memory, written)[color[s]] = written[s]
<1> DEFINE there == CHOOSE t \in DOMAIN written : color[t] = color[s]
<1>1. there \in DOMAIN written /\ color[there] = color[s]
  OBVIOUS
<1>2. there = s
  BY <1>1
<1>3. Stored(memory, written)[color[s]] = written[there]
  BY DEF Stored
<1> QED
  BY <1>2, <1>3

LEMMA KeptElsewhere ==
    ASSUME NEW memory, NEW written, NEW s, color[s] \in Colors,
           \A t \in DOMAIN written : color[t] # color[s]
    PROVE  Stored(memory, written)[color[s]] = memory[color[s]]
BY DEF Stored

LEMMA StoredType ==
    ASSUME NEW memory \in [Colors -> Values], NEW D, NEW written \in [D -> Values]
    PROVE  Stored(memory, written) \in [Colors -> Values]
<1>1. ASSUME NEW c \in Colors
      PROVE  (IF \E s \in DOMAIN written : color[s] = c
              THEN written[CHOOSE s \in DOMAIN written : color[s] = c] ELSE memory[c]) \in Values
  <2>1. CASE \E s \in DOMAIN written : color[s] = c
    <3>1. (CHOOSE s \in DOMAIN written : color[s] = c) \in D
      BY <2>1
    <3> QED
      BY <2>1, <3>1
  <2>2. CASE ~\E s \in DOMAIN written : color[s] = c
    BY <2>2
  <2> QED
    BY <2>1, <2>2
<1> QED
  BY <1>1 DEF Stored

-----------------------------------------------------------------------------
LEMMA InitKeeps == Init => IInv
<1> SUFFICES ASSUME Init PROVE IInv
  OBVIOUS
<1>1. Shapes
  BY AllocationAssumption DEF Init, Shapes, Nodes, Slots, Colors
<1>2. Solved /\ Proper /\ Agree
  BY DEF Init, Solved, Proper, Agree
<1> QED
  BY <1>1, <1>2 DEF IInv

(* A node leaves the queue consistent with its successors, and those that  *)
(* look at what changed are in it.                                         *)
LEMMA VisitKeeps == IInv /\ Visit => IInv'
<1> SUFFICES ASSUME IInv, NEW n \in queued,
                    live' = [live EXCEPT ![n] = Updated(n)],
                    queued' = (queued \ {n}) \cup Again(n),
                    UNCHANGED <<graph, conflicts, color, classes, node, virtual, physical>>
             PROVE  IInv'
  BY DEF Visit
<1> USE DEF IInv
<1>1. graph \in Graphs /\ n \in Nodes /\ queued \subseteq Nodes /\ live \in [Nodes -> SUBSET Slots]
  BY DEF Shapes
<1>2. Nodes' = Nodes /\ Slots' = Slots /\ Colors' = Colors
  BY DEF Nodes, Slots, Colors
<1>3. Updated(n) \subseteq Slots
  BY <1>1, GraphShape DEF Updated
<1>4. Shapes'
  BY <1>1, <1>2, <1>3 DEF Shapes, Again
<1>5. Solved'
  <2> SUFFICES ASSUME NEW m \in Nodes \ queued' PROVE Updated(m)' \subseteq live'[m]
    BY <1>2 DEF Solved
  <2>1. CASE Updated(n) = live[n]
    <3>1. live' = live
      BY <1>1, <2>1
    <3>2. m = n \/ m \notin queued
      OBVIOUS
    <3>3. Updated(m) \subseteq live[m]
      BY <2>1, <3>2 DEF Solved
    <3> QED
      BY <3>1, <3>3 DEF Updated
  <2>2. CASE Updated(n) # live[n]
    <3>1. n \notin graph.successors[m]
      BY <2>2 DEF Again
    <3>2. graph.successors[m] \subseteq Nodes
      BY <1>1, GraphShape
    <3>3. \A s \in graph.successors[m] : live'[s] = live[s]
      BY <1>1, <3>1, <3>2
    <3>4. Updated(m)' = Updated(m)
      BY <3>3 DEF Updated
    <3>5. CASE m = n
      BY <1>1, <3>4, <3>5
    <3>6. CASE m # n
      BY <1>1, <3>4, <3>6 DEF Solved
    <3> QED
      BY <3>5, <3>6
  <2> QED
    BY <2>1, <2>2
<1>6. conflicts = None /\ node = None
  BY DEF Proper, Agree, Allocated
<1>7. Proper' /\ Agree'
  BY <1>6 DEF Proper, Agree
<1> QED
  BY <1>4, <1>5, <1>7

LEMMA InterfereKeeps == IInv /\ Interfere => IInv'
<1> SUFFICES ASSUME IInv, Interfere PROVE IInv'
  OBVIOUS
<1> USE DEF IInv
<1>1. UNCHANGED <<graph, queued, live, color, classes, node, virtual, physical>> /\ queued = {}
  BY DEF Interfere
<1>2. conflicts' = ConflictsOf /\ conflicts = None
  BY DEF Interfere, ConflictsOf
<1>3. ConflictsOf' = ConflictsOf
  BY <1>1 DEF ConflictsOf, Apart, Nodes, Slots
<1>4. DOMAIN color = {} /\ node = None
  BY <1>2 DEF Proper, Agree, Allocated
<1>5. Shapes' /\ Solved'
  BY <1>1 DEF Shapes, Solved, Updated, Nodes, Slots, Colors
<1>6. Proper'
  BY <1>1, <1>2, <1>3, <1>4 DEF Proper
<1>7. Agree'
  BY <1>1, <1>4 DEF Agree
<1> QED
  BY <1>5, <1>6, <1>7

(* A slot gets a colour of its class that none of its neighbours has. *)
LEMMA ColorKeeps == IInv /\ Color => IInv'
<1> SUFFICES ASSUME IInv, conflicts # None, NEW s \in Uncolored, NEW c \in 1 .. Len(classes) + 1,
                    Given(s, c),
                    color' = [t \in DOMAIN color \cup {s} |-> IF t = s THEN c ELSE color[t]],
                    classes' = IF c \in Colors THEN classes ELSE Append(classes, graph.class[s]),
                    UNCHANGED <<graph, queued, live, conflicts, node, virtual, physical>>
             PROVE  IInv'
  BY DEF Color
<1> USE DEF IInv
<1>1. s \in Slots /\ s \notin DOMAIN color /\ Slots' = Slots /\ Nodes' = Nodes
  BY DEF Uncolored, Slots, Nodes
<1>2. Colors = 1 .. Len(classes) /\ Len(classes) \in Nat
  BY DEF Shapes, Colors
<1>3. c \in Colors => Fits(s, c)
  BY <1>2 DEF Given, Preferred, Prefers
<1>4. c \notin Colors => c = Len(classes) + 1
  BY <1>2 DEF Given
<1>5. /\ classes' \in Seq({graph.class[t] : t \in Slots}) /\ Colors \subseteq Colors'
      /\ c \in Colors' /\ classes'[c] = graph.class[s]
      /\ \A d \in Colors : classes'[d] = classes[d]
  <2>1. CASE c \in Colors
    BY <2>1, <1>3 DEF Shapes, Fits, Colors
  <2>2. CASE c \notin Colors
    BY <2>2, <1>1, <1>2, <1>4 DEF Shapes, Colors
  <2> QED
    BY <2>1, <2>2
<1>6. \A t \in DOMAIN color : <<s, t>> \in conflicts \/ <<t, s>> \in conflicts => color[t] # c
  <2> SUFFICES ASSUME NEW t \in DOMAIN color, <<s, t>> \in conflicts \/ <<t, s>> \in conflicts
               PROVE  color[t] # c
    OBVIOUS
  <2>1. t \in Neighbours(s)
    BY <1>1 DEF Proper, ConflictsOf, Neighbours, Shapes
  <2>2. color[t] \in Colors
    BY DEF Shapes
  <2> QED
    BY <2>1, <2>2, <1>3 DEF Fits
<1>7. Shapes'
  <2>1. graph' \in Graphs /\ queued' \in SUBSET Nodes' /\ live' \in [Nodes' -> SUBSET Slots']
    BY <1>1 DEF Shapes
  <2>2. classes' \in Seq({graph'.class[t] : t \in Slots'})
    BY <1>1, <1>5
  <2>3. DOMAIN color' = DOMAIN color \cup {s}
    OBVIOUS
  <2>4. \A t \in DOMAIN color' : color'[t] \in Colors' /\ classes'[color'[t]] = graph'.class[t]
    BY <1>5, <2>3 DEF Shapes
  <2> QED
    BY <1>1, <2>1, <2>2, <2>3, <2>4 DEF Shapes
<1>8. Solved'
  BY DEF Solved, Updated, Nodes
<1>9. Proper'
  <2>1. queued' = {} /\ conflicts' = ConflictsOf'
    BY DEF Proper, ConflictsOf, Apart, Nodes, Slots
  <2>2. <<s, s>> \notin conflicts
    BY DEF Proper, ConflictsOf
  <2> QED
    BY <1>1, <1>6, <2>1, <2>2 DEF Proper
<1>10. Agree'
  BY <1>1 DEF Agree, Allocated
<1> QED
  BY <1>7, <1>8, <1>9, <1>10

LEMMA EnterKeeps == IInv /\ Enter => IInv'
<1> SUFFICES ASSUME IInv, Enter, NEW arguments \in [graph.parameters -> Values],
                    virtual' = [s \in Slots |-> IF s \in graph.parameters THEN arguments[s] ELSE Zero],
                    physical' = Stored([c \in Colors |-> Zero], arguments)
             PROVE  IInv'
  BY DEF Enter
<1> USE DEF IInv
<1>1. UNCHANGED <<graph, queued, live, conflicts, color, classes>> /\ node' = graph.entry /\ Allocated
  BY DEF Enter, Allocated
<1>2. graph.entry \in Nodes /\ graph.parameters \subseteq Slots
  BY GraphShape DEF Shapes
<1>3. Nodes' = Nodes /\ Slots' = Slots /\ Colors' = Colors /\ Allocated'
  BY <1>1 DEF Nodes, Slots, Colors, Allocated, Uncolored
<1>4. Shapes' /\ Solved' /\ Proper'
  BY <1>1, <1>3 DEF Shapes, Solved, Updated, Proper, ConflictsOf, Apart
<1>5. virtual' \in [Slots -> Values] /\ physical' \in [Colors -> Values]
  <2>1. [c \in Colors |-> Zero] \in [Colors -> Values]
    BY AllocationAssumption
  <2> QED
    BY <2>1, <1>2, StoredType, AllocationAssumption
<1>6. ASSUME NEW s \in live[graph.entry]
      PROVE  physical'[color[s]] = virtual'[s]
  <2>1. s \in Slots /\ color[s] \in Colors
    BY <1>1, <1>2 DEF Shapes, Allocated, Uncolored
  <2>2. \A p \in graph.parameters : color[p] = color[s] => p = s
    <3> SUFFICES ASSUME NEW p \in graph.parameters, p # s PROVE color[p] # color[s]
      OBVIOUS
    <3>1. Apart(p, s)
      BY DEF Apart
    <3> QED
      BY <3>1, <1>1, <1>2, <2>1, ApartDiffer
  <2>3. DOMAIN arguments = graph.parameters
    OBVIOUS
  <2>4. CASE s \in graph.parameters
    BY <2>1, <2>2, <2>3, <2>4, StoredThere
  <2>5. CASE s \notin graph.parameters
    <3>1. \A p \in DOMAIN arguments : color[p] # color[s]
      BY <2>2, <2>3, <2>5
    <3>2. Stored([c \in Colors |-> Zero], arguments)[color[s]] = [c \in Colors |-> Zero][color[s]]
      BY <2>1, <3>1, KeptElsewhere
    <3> QED
      BY <2>1, <2>5, <3>2
  <2> QED
    BY <2>4, <2>5
<1>7. Agree'
  BY <1>1, <1>2, <1>3, <1>5, <1>6 DEF Agree
<1> QED
  BY <1>4, <1>7

(* What is live after an instruction was written by it, or was live before *)
(* and its colour is not written.                                          *)
LEMMA ExecuteKeeps == IInv /\ Execute => IInv'
<1> SUFFICES ASSUME IInv, Execute, node # None, node' \in graph.successors[node],
                    NEW written \in [graph.defs[node] -> Values],
                    graph.copy[node] # None => written[graph.copy[node][2]] = virtual[graph.copy[node][1]],
                    virtual' = [s \in Slots |-> IF s \in DOMAIN written THEN written[s] ELSE virtual[s]],
                    physical' = IF graph.copy[node] = None THEN Stored(physical, written)
                                ELSE [physical EXCEPT ![color[graph.copy[node][2]]] =
                                          physical[color[graph.copy[node][1]]]]
             PROVE  IInv'
  BY DEF Execute
<1> USE DEF IInv
<1>1. UNCHANGED <<graph, queued, live, conflicts, color, classes>>
  BY DEF Execute
<1>2. node \in Nodes /\ Allocated /\ virtual \in [Slots -> Values] /\ physical \in [Colors -> Values]
  BY DEF Agree
<1>3. node' \in Nodes /\ graph.defs[node] \subseteq Slots /\ graph.uses[node] \subseteq Slots
  BY <1>2, GraphShape DEF Shapes
<1>4. Nodes' = Nodes /\ Slots' = Slots /\ Colors' = Colors /\ Allocated'
  BY <1>1, <1>2 DEF Nodes, Slots, Colors, Allocated, Uncolored
<1>5. Shapes' /\ Solved' /\ Proper'
  BY <1>1, <1>4 DEF Shapes, Solved, Updated, Proper, ConflictsOf, Apart
<1>6. \A s \in Slots : color[s] \in Colors
  BY <1>2 DEF Shapes, Allocated, Uncolored
<1>7. Updated(node) \subseteq live[node]
  BY <1>2 DEF Solved, Proper, Allocated
<1>8. live[node'] \subseteq Slots /\ live[node] \subseteq Slots
  BY <1>2, <1>3 DEF Shapes
<1>9. ASSUME NEW s \in live[node'], NEW d \in graph.defs[node], d # s
      PROVE  color[d] # color[s]
  <2>1. Apart(d, s)
    BY <1>2 DEF Apart
  <2> QED
    BY <1>9, <2>1, <1>2, <1>3, <1>8, ApartDiffer
<1>10. ASSUME NEW s \in live[node'], s \notin graph.defs[node]
       PROVE  physical[color[s]] = virtual[s]
  <2>1. s \in live[node]
    BY <1>7, <1>10 DEF Updated
  <2> QED
    BY <2>1 DEF Agree
<1>11. CASE graph.copy[node] = None
  <2>1. virtual' \in [Slots -> Values] /\ physical' \in [Colors -> Values]
    BY <1>2, <1>3, <1>11, StoredType
  <2>2. ASSUME NEW s \in live[node'] PROVE physical'[color[s]] = virtual'[s]
    <3>1. DOMAIN written = graph.defs[node] /\ s \in Slots /\ color[s] \in Colors
      BY <1>6, <1>8
    <3>2. CASE s \in graph.defs[node]
      BY <3>1, <3>2, <1>9, <1>11, StoredThere
    <3>3. CASE s \notin graph.defs[node]
      <4>1. \A d \in DOMAIN written : color[d] # color[s]
        BY <3>1, <3>3, <1>9
      <4> QED
        BY <3>1, <3>3, <4>1, <1>10, <1>11, KeptElsewhere
    <3> QED
      BY <3>2, <3>3
  <2> QED
    BY <2>1, <2>2, <1>1, <1>3, <1>4, <1>5 DEF Agree
<1>12. CASE graph.copy[node] # None
  <2> DEFINE src == graph.copy[node][1]
             dst == graph.copy[node][2]
  <2>1. graph.uses[node] = {src} /\ graph.defs[node] = {dst} /\ src \in Slots /\ dst \in Slots
    BY <1>2, <1>3, <1>12, GraphShape DEF Shapes
  <2>2. physical[color[src]] = virtual[src]
    BY <2>1, <1>7 DEF Updated, Agree
  <2>3. virtual' \in [Slots -> Values] /\ physical' \in [Colors -> Values]
    BY <1>2, <1>3, <1>6, <1>12, <2>1
  <2>4. ASSUME NEW s \in live[node'] PROVE physical'[color[s]] = virtual'[s]
    <3>1. DOMAIN written = {dst} /\ s \in Slots /\ color[s] \in Colors /\ color[dst] \in Colors
      BY <1>6, <1>8, <2>1
    <3>2. CASE s = dst
      BY <3>1, <3>2, <2>2, <1>2, <1>12
    <3>3. CASE s # dst
      <4>1. color[dst] # color[s]
        BY <3>3, <2>1, <1>9
      <4> QED
        BY <3>1, <3>3, <4>1, <2>1, <1>2, <1>10, <1>12
    <3> QED
      BY <3>2, <3>3
  <2> QED
    BY <2>3, <2>4, <1>1, <1>3, <1>4, <1>5 DEF Agree
<1> QED
  BY <1>11, <1>12

LEMMA StepKeeps == IInv /\ [Next]_vars => IInv'
<1> SUFFICES ASSUME IInv, [Next]_vars PROVE IInv'
  OBVIOUS
<1>1. CASE UNCHANGED vars
  BY <1>1 DEF vars, IInv, Shapes, Solved, Proper, Agree, Updated, Allocated, Uncolored, ConflictsOf,
              Apart, Nodes, Slots, Colors
<1> QED
  BY <1>1, VisitKeeps, InterfereKeeps, ColorKeeps, EnterKeeps, ExecuteKeeps DEF Next

LEMMA Invariant == Spec => []IInv
BY InitKeeps, StepKeeps, PTL DEF Spec

-----------------------------------------------------------------------------
(* The state of the pass and of the activation has its type; a slot has a  *)
(* colour of its class.                                                    *)
THEOREM TypesHold == Spec => []TypeOK
<1>1. IInv => TypeOK
  BY DEF IInv, Shapes, Proper, ConflictsOf, Agree, TypeOK
<1> QED
  BY <1>1, Invariant, PTL

(* Every operand, at every node of every execution, is what it would be    *)
(* without sharing (allocate).                                             *)
THEOREM SharingIsSound == Spec => []OperandsAgree
<1>1. IInv => OperandsAgree
  <2> SUFFICES ASSUME IInv, node # None PROVE \A s \in graph.uses[node] : physical[color[s]] = virtual[s]
    BY DEF OperandsAgree
  <2>1. node \in Nodes \ queued
    BY DEF IInv, Agree, Allocated, Proper
  <2>2. graph.uses[node] \subseteq live[node]
    BY <2>1 DEF IInv, Solved, Updated
  <2> QED
    BY <2>2 DEF IInv, Agree
<1> QED
  BY <1>1, Invariant, PTL

(* What a visit finds only grows: nothing is live before a node that its   *)
(* equation does not give, at any time of the analysis.                    *)
Founded == \A n \in Nodes : live[n] \subseteq Updated(n)

LEMMA FoundedStays == IInv /\ Founded /\ [Next]_vars => Founded'
<1> SUFFICES ASSUME IInv, Founded, [Next]_vars PROVE Founded'
  OBVIOUS
<1>1. graph \in Graphs /\ queued \subseteq Nodes /\ live \in [Nodes -> SUBSET Slots]
  BY DEF IInv, Shapes
<1>2. CASE Visit
  <2>1. PICK n \in queued : live' = [live EXCEPT ![n] = Updated(n)] /\ graph' = graph
    BY <1>2 DEF Visit
  <2>2. Nodes' = Nodes
    BY <2>1 DEF Nodes
  <2>3. \A m \in Nodes : live[m] \subseteq live'[m]
    BY <1>1, <2>1 DEF Founded
  <2>4. ASSUME NEW m \in Nodes PROVE Updated(m) \subseteq Updated(m)'
    <3>1. graph.successors[m] \subseteq Nodes
      BY <1>1, GraphShape
    <3> QED
      BY <2>1, <2>3, <3>1 DEF Updated
  <2>5. ASSUME NEW m \in Nodes PROVE live'[m] \subseteq Updated(m)
    BY <1>1, <2>1 DEF Founded
  <2> QED
    BY <2>2, <2>4, <2>5 DEF Founded
<1>3. CASE UNCHANGED <<graph, live>>
  BY <1>3 DEF Founded, Updated, Nodes
<1>4. UNCHANGED <<graph, live>> \/ Visit
  BY DEF Next, Interfere, Color, Enter, Execute, vars
<1> QED
  BY <1>2, <1>3, <1>4

(* When the work queue is empty, liveness is a solution of its equations,  *)
(* whatever the order of the visits was: live before a node is what it     *)
(* reads and what is live after it and not written by it, no more and no   *)
(* less (liveness).                                                        *)
THEOREM LivenessSolved == Spec => [](queued = {} => \A n \in Nodes : live[n] = Updated(n))
<1>1. Init => Founded
  BY DEF Init, Founded
<1>2. IInv /\ Founded /\ [Next]_vars => Founded'
  BY FoundedStays
<1>3. IInv /\ Founded => (queued = {} => \A n \in Nodes : live[n] = Updated(n))
  BY DEF IInv, Solved, Founded
<1> QED
  BY <1>1, <1>2, <1>3, Invariant, PTL DEF Spec

(* Conflicting slots have different colours, however they were chosen      *)
(* (color).                                                                *)
THEOREM ColoringIsProper ==
    Spec => [](Allocated => \A s, t \in Slots : <<s, t>> \in conflicts => color[s] # color[t])
<1>1. IInv => (Allocated => \A s, t \in Slots : <<s, t>> \in conflicts => color[s] # color[t])
  BY DEF IInv, Proper, Allocated, Uncolored
<1> QED
  BY <1>1, Invariant, PTL

-----------------------------------------------------------------------------
(* A path of k steps from n to a read of s that does not pass a write.     *)
Path(n, s, k, path) ==
    /\ path \in [0 .. k -> Nodes]
    /\ path[0] = n /\ s \in graph.uses[path[k]]
    /\ \A i \in 0 .. k - 1 : path[i + 1] \in graph.successors[path[i]] /\ s \notin graph.defs[path[i]]

Reaches(n, s) == \E k \in Nat : \E path : Path(n, s, k, path)

(* Nothing is live, at any time of the analysis, without a path. *)
OnlyNeeded == \A n \in Nodes : \A s \in live[n] : Reaches(n, s)

LEMMA ReachesFromReader ==
    ASSUME NEW n \in Nodes, NEW s \in graph.uses[n]
    PROVE  Reaches(n, s)
<1> DEFINE path == [i \in 0 .. 0 |-> n]
<1>1. path \in [0 .. 0 -> Nodes] /\ path[0] = n /\ 0 .. 0 - 1 = {}
  OBVIOUS
<1>2. Path(n, s, 0, path)
  BY <1>1 DEF Path
<1> QED
  BY <1>2 DEF Reaches

LEMMA ReachesBefore ==
    ASSUME NEW n \in Nodes, NEW m \in graph.successors[n], NEW s, s \notin graph.defs[n],
           Reaches(m, s)
    PROVE  Reaches(n, s)
<1>0. PICK k \in Nat : \E rest : Path(m, s, k, rest)
  BY DEF Reaches
<1>1. PICK rest : Path(m, s, k, rest)
  BY <1>0
<1> DEFINE path == [i \in 0 .. k + 1 |-> IF i = 0 THEN n ELSE rest[i - 1]]
<1>2. rest \in [0 .. k -> Nodes] /\ rest[0] = m /\ s \in graph.uses[rest[k]]
  BY <1>1 DEF Path
<1>3. \A i \in 0 .. k + 1 : i # 0 => i - 1 \in 0 .. k
  OBVIOUS
<1>4. path \in [0 .. k + 1 -> Nodes]
  BY <1>2, <1>3
<1>5. path[0] = n /\ path[k + 1] = rest[k] /\ k + 1 \in Nat
  OBVIOUS
<1>6. ASSUME NEW i \in 0 .. (k + 1) - 1
      PROVE  path[i + 1] \in graph.successors[path[i]] /\ s \notin graph.defs[path[i]]
  <2>1. path[i + 1] = rest[i]
    OBVIOUS
  <2>2. CASE i = 0
    BY <1>2, <1>5, <2>1, <2>2
  <2>3. CASE i # 0
    <3>1. i - 1 \in 0 .. k - 1 /\ (i - 1) + 1 = i /\ path[i] = rest[i - 1]
      BY <2>3
    <3> QED
      BY <1>1, <2>1, <3>1 DEF Path
  <2> QED
    BY <2>2, <2>3
<1> HIDE DEF path
<1>7. Path(n, s, k + 1, path)
  BY <1>2, <1>4, <1>5, <1>6 DEF Path
<1> QED
  BY <1>5, <1>7 DEF Reaches

(* A path that passes a node twice has a shorter one. *)
LEMMA Shortcut ==
    ASSUME NEW n, NEW s, NEW k \in Nat, NEW path, Path(n, s, k, path),
           NEW i \in 0 .. k, NEW j \in 0 .. k, i < j, path[i] = path[j]
    PROVE  \E short : Path(n, s, k - (j - i), short)
<1>1. PICK d \in Nat \ {0} : j = i + d
  <2>1. j - i \in Nat \ {0} /\ j = i + (j - i)
    OBVIOUS
  <2> QED
    BY <2>1
<1>2. PICK l \in Nat : l = k - d /\ i <= l /\ k - (j - i) = l
  <2>1. k - d \in Nat /\ i <= k - d /\ k - (j - i) = k - d
    BY <1>1
  <2> QED
    BY <2>1
<1>3. /\ path \in [0 .. k -> Nodes] /\ path[0] = n /\ s \in graph.uses[path[k]]
      /\ \A x \in 0 .. k - 1 :
            path[x + 1] \in graph.successors[path[x]] /\ s \notin graph.defs[path[x]]
  BY DEF Path
<1> DEFINE short == [x \in 0 .. l |-> IF x <= i THEN path[x] ELSE path[x + d]]
<1>4. short \in [0 .. l -> Nodes]
  <2> SUFFICES ASSUME NEW x \in 0 .. l PROVE x \in 0 .. k /\ x + d \in 0 .. k
    BY <1>3
  <2> QED
    BY <1>1, <1>2
<1>5. short[0] = n
  BY <1>2, <1>3
<1>6. short[l] = path[k]
  <2>1. CASE l <= i
    <3>1. l = i /\ k = j
      BY <1>1, <1>2, <2>1
    <3> QED
      BY <1>2, <3>1
  <2>2. CASE ~(l <= i)
    BY <1>1, <1>2, <2>2
  <2> QED
    BY <2>1, <2>2
<1>7. ASSUME NEW x \in 0 .. l - 1
      PROVE  short[x + 1] \in graph.successors[short[x]] /\ s \notin graph.defs[short[x]]
  <2>1. x \in 0 .. l /\ x + 1 \in 0 .. l /\ x \in 0 .. k - 1 /\ x + d \in 0 .. k - 1
    BY <1>1, <1>2
  <2>2. CASE x + 1 <= i
    <3>1. short[x] = path[x] /\ short[x + 1] = path[x + 1]
      BY <2>1, <2>2
    <3> QED
      BY <1>3, <2>1, <3>1
  <2>3. CASE x = i
    <3>1. short[x] = path[j] /\ short[x + 1] = path[(x + d) + 1] /\ j = x + d
      BY <1>1, <2>1, <2>3
    <3> QED
      BY <1>3, <2>1, <3>1
  <2>4. CASE x > i
    <3>1. short[x] = path[x + d] /\ short[x + 1] = path[(x + d) + 1]
      BY <1>1, <2>1, <2>4
    <3> QED
      BY <1>3, <2>1, <3>1
  <2> QED
    BY <2>1, <2>2, <2>3, <2>4
<1> HIDE DEF short
<1>8. Path(n, s, l, short)
  BY <1>3, <1>4, <1>5, <1>6, <1>7 DEF Path
<1> QED
  BY <1>2, <1>8

(* A shortest path visits no node twice, so it is no longer than Needed    *)
(* looks for.                                                              *)
LEMMA ReachesIsNeeded ==
    ASSUME graph \in Graphs, NEW n \in Nodes, NEW s, Reaches(n, s)
    PROVE  Needed(n, s)
<1> DEFINE S == {k \in Nat : \E path : Path(n, s, k, path)}
<1>1. S \subseteq Nat /\ S # {}
  BY DEF Reaches
<1>2. PICK k \in S : \A l \in S : k <= l
  BY <1>1, NaturalsHaveMin
<1>3. PICK path : Path(n, s, k, path)
  BY <1>2
<1>4. k \in Nat /\ path \in [0 .. k -> Nodes]
  BY <1>3 DEF Path
<1>5. ASSUME NEW i \in 0 .. k, NEW j \in 0 .. k, i < j PROVE path[i] # path[j]
  <2> SUFFICES ASSUME path[i] = path[j] PROVE FALSE
    OBVIOUS
  <2>1. \E short : Path(n, s, k - (j - i), short)
    BY <1>3, <1>4, <1>5, Shortcut
  <2>2. k - (j - i) \in Nat /\ k - (j - i) < k
    BY <1>4, <1>5
  <2>3. k - (j - i) \in S
    BY <2>1, <2>2
  <2> QED
    BY <1>2, <1>4, <2>2, <2>3
<1>6. path \in Injection(0 .. k, Nodes)
  <2>1. \A i, j \in 0 .. k : path[i] = path[j] => i = j
    <3> SUFFICES ASSUME NEW i \in 0 .. k, NEW j \in 0 .. k, i # j PROVE path[i] # path[j]
      OBVIOUS
    <3>1. i < j \/ j < i
      BY <1>4
    <3> QED
      BY <1>5, <3>1
  <2> QED
    BY <1>4, <2>1 DEF Injection, IsInjective
<1>7. IsFiniteSet(Nodes) /\ Cardinality(Nodes) \in Nat
  BY GraphShape, FS_CardinalityType
<1>8. Cardinality(0 .. k) = k + 1
  <2>1. 0 \in Int /\ k \in Int /\ ~(0 > k) /\ k - 0 + 1 = k + 1
    BY <1>4
  <2> QED
    BY <2>1, FS_Interval
<1>9. Cardinality(0 .. k) <= Cardinality(Nodes)
  BY <1>6, <1>7, FS_Injection
<1>10. k \in 0 .. Cardinality(Nodes) - 1
  BY <1>4, <1>7, <1>8, <1>9
<1> QED
  BY <1>3, <1>4, <1>10 DEF Needed, Path

(* Along a path, from its end, everything is live once the queue is empty. *)
LEMMA NeededIsLive ==
    ASSUME graph \in Graphs, Solved, queued = {}, NEW n \in Nodes, NEW s, Needed(n, s)
    PROVE  s \in live[n]
<1>1. PICK k \in 0 .. Cardinality(Nodes) - 1 : \E path : Path(n, s, k, path)
  BY DEF Needed, Path
<1>2. PICK path : Path(n, s, k, path)
  BY <1>1
<1>3. /\ k \in Nat /\ path \in [0 .. k -> Nodes] /\ path[0] = n /\ s \in graph.uses[path[k]]
      /\ \A i \in 0 .. k - 1 :
            path[i + 1] \in graph.successors[path[i]] /\ s \notin graph.defs[path[i]]
  BY <1>1, <1>2 DEF Path
<1>4. \A m \in Nodes : Updated(m) \subseteq live[m]
  BY DEF Solved
<1> DEFINE Lost == {l \in 0 .. k : s \notin live[path[k - l]]}
<1>5. CASE Lost # {}
  <2>1. Lost \subseteq Nat
    BY <1>3
  <2>2. PICK l \in Lost : \A x \in Lost : l <= x
    BY <1>5, <2>1, NaturalsHaveMin
  <2>3. l \in 0 .. k /\ s \notin live[path[k - l]] /\ path[k - l] \in Nodes
    BY <1>3, <2>2
  <2>4. l # 0
    <3>1. s \in live[path[k]]
      BY <1>3, <1>4 DEF Updated
    <3> QED
      BY <1>3, <2>3, <3>1
  <2>5. l - 1 \in 0 .. k /\ l - 1 \notin Lost
    <3>1. l - 1 \in 0 .. k /\ ~(l <= l - 1)
      BY <1>3, <2>3, <2>4
    <3> HIDE DEF Lost
    <3> QED
      BY <2>2, <3>1
  <2>6. s \in live[path[k - (l - 1)]]
    BY <2>5
  <2>7. k - l \in 0 .. k - 1 /\ k - (l - 1) = (k - l) + 1
    BY <1>3, <2>3, <2>4
  <2>8. s \in Updated(path[k - l])
    BY <1>3, <2>6, <2>7 DEF Updated
  <2> QED
    BY <1>4, <2>3, <2>8
<1>6. CASE Lost = {}
  <2>1. k \in 0 .. k /\ k - k = 0
    BY <1>3
  <2> QED
    BY <1>3, <1>6, <2>1
<1> QED
  BY <1>5, <1>6

LEMMA OnlyNeededKept == IInv /\ OnlyNeeded /\ [Next]_vars => OnlyNeeded'
<1> SUFFICES ASSUME IInv, OnlyNeeded, [Next]_vars PROVE OnlyNeeded'
  OBVIOUS
<1>1. graph \in Graphs /\ live \in [Nodes -> SUBSET Slots] /\ queued \subseteq Nodes
  BY DEF IInv, Shapes
<1>2. graph' = graph
  BY DEF Next, Visit, Interfere, Color, Enter, Execute, vars
<1>3. Nodes' = Nodes /\ \A n, s : Reaches(n, s)' = Reaches(n, s)
  BY <1>2 DEF Nodes, Reaches, Path
<1>4. CASE Visit
  <2>1. PICK n \in queued : live' = [live EXCEPT ![n] = Updated(n)]
    BY <1>4 DEF Visit
  <2>2. ASSUME NEW s \in Updated(n) PROVE Reaches(n, s)
    <3>1. CASE s \in graph.uses[n]
      BY <1>1, <3>1, ReachesFromReader
    <3>2. CASE s \notin graph.uses[n]
      <4>1. PICK m \in graph.successors[n] : s \in live[m] /\ s \notin graph.defs[n]
        BY <2>2, <3>2 DEF Updated
      <4>2. m \in Nodes /\ n \in Nodes
        BY <1>1, GraphShape
      <4> QED
        BY <4>1, <4>2, ReachesBefore DEF OnlyNeeded
    <3> QED
      BY <3>1, <3>2
  <2>3. \A m \in Nodes : \A s \in live'[m] : Reaches(m, s)
    BY <1>1, <2>1, <2>2 DEF OnlyNeeded
  <2> QED
    BY <1>3, <2>3 DEF OnlyNeeded
<1>5. CASE UNCHANGED live
  BY <1>3, <1>5 DEF OnlyNeeded
<1> QED
  BY <1>4, <1>5 DEF Next, Interfere, Color, Enter, Execute, vars

(* When the work queue has run empty, in whatever order, a slot is live    *)
(* before a node exactly where some path reads it before it is written:    *)
(* for every graph (liveness).                                             *)
THEOREM LivenessIsExact == Spec => []LivenessExact
<1>1. Init => OnlyNeeded
  BY DEF Init, OnlyNeeded, Nodes
<1>2. IInv /\ OnlyNeeded => LivenessExact
  <2> SUFFICES ASSUME IInv, OnlyNeeded, conflicts # None, NEW n \in Nodes
               PROVE  live[n] = {s \in Slots : Needed(n, s)}
    BY DEF LivenessExact
  <2>1. graph \in Graphs /\ live[n] \subseteq Slots /\ Solved /\ queued = {}
    BY DEF IInv, Shapes, Proper
  <2>2. \A s \in live[n] : Needed(n, s)
    BY <2>1, ReachesIsNeeded DEF OnlyNeeded
  <2>3. \A s : Needed(n, s) => s \in live[n]
    BY <2>1, NeededIsLive
  <2> QED
    BY <2>1, <2>2, <2>3
<1> QED
  BY <1>1, <1>2, Invariant, OnlyNeededKept, PTL DEF Spec
=============================================================================
