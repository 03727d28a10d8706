------------------------------ MODULE CirCompile ------------------------------
(***************************************************************************)
(* From the continuations of a lowered program to those whose frames are   *)
(* laid out: calls are replaced, one site at a time, by one of the         *)
(* selections (frontend/pipeline.rs, cir/inline/automatic.rs), and then    *)
(* each pass of cir/pipeline.rs rewrites the whole program.                *)
(*                                                                         *)
(* Which of the eligible sites are worth it is decided by costs: any       *)
(* choice and any order of them is allowed here, up to MaxSpliced.         *)
(***************************************************************************)
EXTENDS CirMachine, CirOptimizer, CirInline, CirCopies, CirExpressions

CONSTANTS
    Programs,     \* the programs to compile
    Inputs,       \* the inputs to compare on
    MaxSpliced,   \* calls replaced in one selection
    MaxHandoff    \* parameters of a function whose prefix moves, 8

VARIABLES
    program,
    graph,        \* while calls are replaced, else None
    stage,
    expected      \* what the source program does on each input

vars == <<program, graph, stage, expected>>

Selections == {"automatic", "closed", "forwarding", "non_tail"}

Runs(p) == [input \in Inputs |-> Run(p, input)]

(* What an operator makes of a program. *)
Of(Pass(_), p)       == Pass(p)
Each(Pass(_, _), p)  == FoldSet(LAMBDA f, q : Pass(q, f), p, DOMAIN p.functions)

Init ==
    /\ program \in Programs
    /\ graph = None
    /\ stage = "source"
    /\ expected = Of(Runs, program)

-----------------------------------------------------------------------------
(* inline_with_selection: which callees are replaced. *)
ClosedFunction(p, f) == \A c \in NodesOf(p, f) : ~Hard(p.nodes[c].end)
CallOnly(p, f) == \A c \in NodesOf(p, f) : Hard(p.nodes[c].end) => p.nodes[c].end.op = "call"
EligibleAtFirst(g, f) ==
    CASE stage = "automatic"  -> TRUE
      [] stage = "closed"     -> ClosedFunction(g.program, f)
      [] stage = "forwarding" -> ClosedFunction(g.program, f) \/ ForwardsCalls(g, f)
      [] stage = "non_tail"   -> CallOnly(g.program, f) /\ ~ForwardsCalls(g, f) /\ Sites(g.program, f) # {}
EligibleThen(g, f) ==
    CASE stage = "automatic" -> TRUE
      [] stage = "closed"    -> ClosedFunction(g.program, f)
      [] stage = "forwarding" -> ClosedFunction(g.program, f) \/ ForwardsCalls(g, f)
      [] stage = "non_tail"   -> CallOnly(g.program, f)
Stops == IF stage \in {"forwarding", "non_tail"} THEN RecursiveRoots(program) ELSE Recursive(program)

(* Only "non_tail" follows another selection. *)
Select(selection) ==
    /\ \/ stage = "source" /\ selection # "non_tail"
       \/ stage = "forwarded" /\ selection = "non_tail"
    /\ program' = Of(Cleanup, program)
    /\ graph' = [graph |-> Of(Normalized, program'), changed |-> {}, spliced |-> 0]
    /\ stage' = selection
    /\ UNCHANGED expected

Chosen(g, site) ==
    LET callee == g.program.nodes[site].end.callee IN
    /\ site \in FromMain(g.program)
    /\ IF callee \in graph.changed THEN EligibleThen(g, callee) ELSE EligibleAtFirst(g, callee)
    /\ callee \notin Stops \cup {g.program.nodes[site].function}

(* The wrappers' calls are forwarded where that is all they do. *)
Replaced(g, site) ==
    LET n == g.program.nodes[site]
        forward == stage = "forwarding" \/ (stage = "non_tail" /\ ForwardsCalls(g, n.end.callee))
    IN  Refreshed(Spliced(g, site, forward), n.function)

OfSite(Step(_, _), site) == Step(graph.graph, site)

Splice(site) ==
    /\ stage \in Selections
    /\ graph.spliced < MaxSpliced
    /\ OfSite(Chosen, site)
    /\ graph' = [graph |-> OfSite(Replaced, site),
                  changed |-> graph.changed \cup {graph.graph.program.nodes[site].function},
                  spliced |-> graph.spliced + 1]
    /\ UNCHANGED <<program, stage, expected>>

(* The graph as a program again. *)
Shown == IF graph = None THEN program
         ELSE IF graph.spliced = 0 THEN program ELSE Of(Cleanup, Of(Materialized, graph.graph))

Selected ==
    /\ stage \in Selections
    /\ program' = Shown
    /\ graph' = None
    /\ stage' = IF stage = "forwarding" THEN "forwarded" ELSE "inlined"
    /\ UNCHANGED expected

Prefixed(p) == Hoisted(p, MaxHandoff)
Hoist ==
    /\ stage \in {"source", "inlined", "forwarded"}
    /\ program' = Of(Prefixed, program)
    /\ stage' = "hoisted"
    /\ UNCHANGED <<graph, expected>>

-----------------------------------------------------------------------------
(* optimize_impl and allocate_impl, a pass at a time.  The passes of one   *)
(* function do not look at another, so each runs on all of them.           *)
Become(from, to, p) ==
    /\ stage = from
    /\ stage' = to
    /\ program' = p
    /\ UNCHANGED <<graph, expected>>

WithBranches(p)    == Simplified(p, TRUE)
WithoutBranches(p) == Simplified(p, FALSE)
Finished(p) == [p EXCEPT !.nodes = [c \in DOMAIN @ |-> [@[c] EXCEPT !.body = WithoutSelfCopies(@)]]]

Simplify ==
    /\ stage \in {"source", "inlined", "forwarded", "hoisted"}
    /\ Become(stage, "simple", Of(WithBranches, program))
Structure == Become("simple", "structured", Of(Regions, program))
Compact   == Become("structured", "control", Of(WithoutBranches, program))
Scale     == Become("control", "scaled", Each(ScaledOffset, program))
Scalarize == Become("scaled", "fields", Each(AggregateFields, program))
Fuse      == Become("fields", "fused", Each(ArithmeticFusion, program))
Fold      == Become("fused", "folded", Each(ConstantTransfer, program))
Rebuild   == Become("folded", "rebuilt", Each(ComputationGraph, program))
Forward   == Become("rebuilt", "copied", Each(BoundaryCopies, program))
Aim       == Become("copied", "aimed", Each(PortalOffset, program))
Place     == Become("aimed", "placed", Each(ValuePlacement, program))
Finish    == Become("placed", "finished", Of(WithoutBranches, Of(Finished, program)))

Next ==
    \/ \E selection \in Selections : Select(selection)
    \/ graph # None /\ \E site \in DOMAIN graph.graph.results : Splice(site)
    \/ Selected \/ Hoist
    \/ Simplify \/ Structure \/ Compact
    \/ Scale \/ Scalarize \/ Fuse \/ Fold \/ Rebuild \/ Forward \/ Aim \/ Place \/ Finish

Spec == Init /\ [][Next]_vars

-----------------------------------------------------------------------------
(* Every step leaves a program that does on every input what the source    *)
(* program does.                                                           *)
SameRun == LET now == Of(Runs, Shown) IN \A input \in Inputs : Alike(now[input], expected[input])

(* Every step leaves a program the validator of cir/ir.rs accepts: all     *)
(* cells are of the frame, the outbox or a global, edges stay in their     *)
(* function, calls fit the parameters and the outbox, portals have offsets *)
(* apart from their operands.                                              *)
Bounded(p, f, a) ==
    CASE a = Abi -> TRUE
      [] a[1] = "outbox" -> a[3] < p.functions[f].outbox
      [] a[1] = "global" -> a[2] \in DOMAIN p.globals /\ a[3] < p.globals[a[2]]
      [] OTHER -> a \in Frame(p.functions[f])

FitsEnd(p, f, t) ==
    CASE t.op = "call" ->
           LET d == p.functions[t.callee] IN
           /\ t.callee \in DOMAIN p.functions \ {p.main}
           /\ Len(t.arguments) = Len(d.parameters)
           /\ \A k \in DOMAIN t.arguments : t.arguments[k].cells = Len(ParameterCells(d, d.parameters[k]))
           /\ d.returns.cells <= p.functions[f].outbox
      [] t.op = "return" ->
           LET kind == p.functions[f].returns.kind IN
           CASE kind = "void" -> t.value = None
             [] kind = "cell" -> t.value # None /\ t.value.kind = "cell"
             [] OTHER -> t.value # None /\ t.value.cells = p.functions[f].returns.cells
      [] t.op \in {"load", "store"} ->
           /\ Cardinality(Range(t.at)) = Len(t.at)
           /\ Len(t.at) = 2 => \A k \in 1 .. 2 : Local(t.at[k]) /\ t.at[k] \notin CellsOf(t.operand)
      [] OTHER -> TRUE

Valid(p) ==
    /\ \A f \in DOMAIN p.functions :
          /\ p.nodes[p.functions[f].entry].function = f
          /\ AllParameters(p.functions[f]) \subseteq Frame(p.functions[f])
    /\ \A c \in DOMAIN p.nodes :
          LET n == p.nodes[c]
              e == EndEffects(p, n.function, n.end)
          IN  /\ \A a \in Touched(n.body) \cup e.reads \cup e.writes \cup e.may : Bounded(p, n.function, a)
              /\ \A d \in Successors(n.end) : d \in DOMAIN p.nodes /\ p.nodes[d].function = n.function
              /\ FitsEnd(p, n.function, n.end)

StillValid == Of(Valid, Shown)

(* The work list of structure.rs ends with nothing left to reduce.         *)
NothingLeft == stage = "structured" => Of(Irreducible, program)

(* No reference leads to an empty jump, the entries of functions included, *)
(* but to the one node that is left of a cycle of them.                    *)
NoEmptyChain ==
    stage \in {"simple", "control", "finished"} =>
        \A c \in DOMAIN program.nodes :
            Empty(program, c) => program.nodes[c].end.to = c
=============================================================================
