---------------------------- MODULE CirOptimizer ----------------------------
(***************************************************************************)
(* Simplification of the control flow of a continuation program: empty     *)
(* jumps are threaded, branches copied into the jumps that lead to them,   *)
(* what is unreachable dropped (cir/optimizer.rs); single-entry regions    *)
(* become loops and branches of one body (cir/structure.rs).               *)
(*                                                                         *)
(* Continuations are listed in the order of their identifiers.             *)
(***************************************************************************)
EXTENDS CirProgram

Empty(p, c) == p.nodes[c].body = <<>> /\ p.nodes[c].end.op = "goto"

(* TargetResolver::resolve: the first continuation that is not empty, or   *)
(* the one that a cycle of empty ones is left with.  (Mutants: a cycle     *)
(* keeps the one it was entered by; the entry of the function is no        *)
(* better than another.)                                                   *)
Kept_AsEntered(p, cycle) == Head(cycle)
Kept(p, cycle) ==
    LET entry == p.functions[p.nodes[Head(cycle)].function].entry IN
    IF entry \in Range(cycle) THEN entry ELSE Min(Range(cycle))

RECURSIVE Resolved(_, _, _)
Resolved(p, c, stack) ==
    IF ~Empty(p, c) THEN c
    ELSE IF c \in Range(stack) THEN Kept(p, SubSeq(stack, IndexFirstSubSeq(<<c>>, stack), Len(stack)))
    ELSE Resolved(p, p.nodes[c].end.to, Append(stack, c))

(* map_successor_references, and the entries of the functions. *)
Retargeted(p, to) ==
    [p EXCEPT !.nodes = [c \in DOMAIN @ |-> [@[c] EXCEPT !.end = Redirected(@, to)]],
              !.functions = [f \in DOMAIN @ |-> [@[f] EXCEPT !.entry = to[@]]]]

Threaded(p) == Retargeted(p, [c \in DOMAIN p.nodes |-> Resolved(p, c, <<>>)])

(* inline_branch_successors: the body is copied as it was before the pass. *)
BranchesCopied(p) ==
    LET Copied(n) ==
            LET next == p.nodes[n.end.to] IN
            IF n.end.op = "goto" /\ next.body # <<>> /\ next.end.op = "branch"
            THEN [n EXCEPT !.body = @ \o next.body, !.end = next.end]
            ELSE n
    IN  [p EXCEPT !.nodes = [c \in DOMAIN @ |-> Copied(@[c])]]

(* reachable_continuations: from the entries of all functions. *)
RECURSIVE Closure(_, _)
Closure(p, cs) ==
    LET next == cs \cup UNION {Successors(p.nodes[c].end) : c \in cs} IN
    IF next = cs THEN cs ELSE Closure(p, next)
Entries(p) == {p.functions[f].entry : f \in DOMAIN p.functions}
Reachable(p) == [p EXCEPT !.nodes = Restrict(@, Closure(p, Entries(p)))]

(* compact_ids. *)
Compacted(p) ==
    LET ids == DOMAIN p.nodes
        to == [c \in ids |-> Cardinality({d \in ids : d <= c})]
        q == Retargeted(p, to)
    IN  [q EXCEPT !.nodes = [n \in 1 .. Cardinality(ids) |-> @[CHOOSE c \in ids : to[c] = n]]]

(* optimize_continuations_with_options, without local structure. *)
Simplified(p, inline) == Compacted(Reachable(IF inline THEN BranchesCopied(Threaded(p)) ELSE Threaded(p)))

-----------------------------------------------------------------------------
(* structure_local_control_flow, on [program, guards, pending]: the guard  *)
(* slot of each function that has one, and the continuations to look at.   *)
Count(S) == Cardinality(S)
Incoming(p, c) ==
    LET from == {d \in DOMAIN p.nodes : c \in Successors(p.nodes[d].end)}
    IN  Count({f \in DOMAIN p.functions : p.functions[f].entry = c}) + Count(from) +
        Count({d \in from : p.nodes[d].end.op = "branch" /\ p.nodes[d].end.then = p.nodes[d].end.else})

SingleEntry(p, n, c) == c # n /\ Incoming(p, c) = 1

Reduction(adds, end, removed, guarded) == [adds |-> adds, end |-> end, removed |-> removed, guarded |-> guarded]

(* Where an arm of a diamond goes on. *)
ArmExit(p, n, c) ==
    IF SingleEntry(p, n, c) /\ p.nodes[c].end.op = "goto" THEN {p.nodes[c].end.to} ELSE {}
Joins(p, n, t) ==
    LET left == ArmExit(p, n, t.then)  right == ArmExit(p, n, t.else) IN
    CASE left = {t.else}  -> left
      [] left # {t.else} /\ right = {t.then} -> right
      [] OTHER -> left \cap right

(* A terminal branch clears its condition before it goes on, a structured  *)
(* one after its arm too, a loop not at all.  (Mutants: the condition is   *)
(* not cleared in a loop; it is its own guard.)                            *)
LoopBody_NotCleared(p, n, t) == (IF t.then = n THEN <<>> ELSE p.nodes[t.then].body) \o p.nodes[n].body
LoopBody(p, n, t) ==
    <<Set(t.condition, 0)>> \o (IF t.then = n THEN <<>> ELSE p.nodes[t.then].body) \o p.nodes[n].body
Diamond_Unguarded(t, guard, yes, no) == <<If(t.condition, yes, no)>>
Diamond(t, guard, yes, no) == <<Copy(t.condition, guard), Set(t.condition, 0), If(guard, yes, no)>>

LoopsBack(p, n, t) ==
    \/ t.then = n
    \/ SingleEntry(p, n, t.then) /\ p.nodes[t.then].end = Goto(n)

Reductions(p, n, guard) ==
    LET t == p.nodes[n].end
        Arm(c, join) == IF c = join THEN <<>> ELSE p.nodes[c].body
    IN
    CASE t.op = "goto" ->
           {Reduction(p.nodes[c].body, p.nodes[c].end, {c}, FALSE) : c \in {d \in {t.to} : SingleEntry(p, n, d)}}
      [] t.op = "branch" /\ t.then = t.else ->
           {Reduction(<<Set(t.condition, 0)>>, Goto(t.then), {}, FALSE)}
      [] t.op = "branch" /\ t.then # t.else /\ LoopsBack(p, n, t) ->
           {Reduction(<<Loop(t.condition, LoopBody(p, n, t))>>, Goto(t.else), {t.then} \ {n}, FALSE)}
      [] t.op = "branch" /\ t.then # t.else /\ ~LoopsBack(p, n, t) ->
           {Reduction(Diamond(t, guard, Arm(t.then, j), Arm(t.else, j)), Goto(j), {t.then, t.else} \ {j}, TRUE)
               : j \in Joins(p, n, t) \ {n}}
      [] OTHER -> {}

(* Predecessors of what changed are looked at again.  (Mutant: only the    *)
(* continuation itself.)                                                   *)
Again_Self(p, q, n, removed) == {n}
Again(p, q, n, removed) ==
    LET changed == {n} \cup Successors(q.nodes[n].end) \cup
                   UNION {Successors(p.nodes[c].end) : c \in removed \cup {n}}
    IN  {n} \cup {d \in DOMAIN q.nodes : Successors(q.nodes[d].end) \cap changed # {}}

Guard(s, f) == IF f \in DOMAIN s.guards THEN s.guards[f] ELSE s.program.functions[f].slots

Reduced(s, n, r) ==
    LET p == s.program
        f == p.nodes[n].function
        slot == Guard(s, f)
        q == [p EXCEPT
                 !.nodes = [c \in DOMAIN @ \ r.removed |->
                               IF c = n THEN Node(f, @[n].body \o r.adds, r.end) ELSE @[c]],
                 !.functions[f].slots = IF r.guarded /\ @ = slot THEN slot + 1 ELSE @]
    IN  [program |-> q,
         guards |-> IF r.guarded THEN (f :> slot) @@ s.guards ELSE s.guards,
         pending |-> (s.pending \ r.removed) \cup Again(p, q, n, r.removed)]

RECURSIVE Settled(_)
Settled(s) ==
    IF s.pending = {} THEN s
    ELSE LET n == Min(s.pending)
             f == s.program.nodes[n].function
             rs == Reductions(s.program, n, Slot(Guard(s, f)))
         IN  Settled(IF rs = {} THEN [s EXCEPT !.pending = @ \ {n}]
                     ELSE Reduced(s, n, CHOOSE r \in rs : TRUE))

Regions(p) == Settled([program |-> p, guards |-> [f \in {} |-> 0], pending |-> DOMAIN p.nodes]).program

(* Nothing is left that could be reduced. *)
Irreducible(p) == \A n \in DOMAIN p.nodes : Reductions(p, n, Slot(0)) = {}

Structured(p) == Simplified(Regions(p), FALSE)
=============================================================================
