--------------------------- MODULE AtomicDispatch ---------------------------
(***************************************************************************)
(* What the Brainfuck dispatcher promises to the bodies it selects: while  *)
(* the current context is active, the body of exactly the entry in its PC  *)
(* runs, and the PC that body stores in the context it ends in is the next *)
(* one.                                                                    *)
(***************************************************************************)
EXTENDS Integers, Sequences

CONSTANTS
    Codes,        \* <<PcHigh, PcLow>>
    MaxContexts   \* bound on the depth of calls

VARIABLES
    entries,   \* the encoded PCs of the program: <<PcHigh, PcLow>>
    stack,     \* the contexts, bottom first: [pc, ret]
    running,
    ran        \* the entry whose body ran last

vars == <<entries, stack, running, ran>>

NoPc  == <<0, 0>>
Top   == stack[Len(stack)]
Below == SubSeq(stack, 1, Len(stack) - 1)

Init ==
    /\ entries \in SUBSET (Codes \ {NoPc}) \ {{}}
    /\ \E e \in entries : stack = <<[pc |-> e, ret |-> NoPc]>>
    /\ running = TRUE
    /\ ran = NoPc

Runs == running /\ Top.pc \in entries /\ ran' = Top.pc /\ UNCHANGED entries

(* A body that stays in its frame: goto, branch, portal accessor, resume. *)
Goto(next) ==
    /\ Runs
    /\ stack' = [stack EXCEPT ![Len(stack)].pc = next]
    /\ UNCHANGED running

(* A body that ends in the context of a callee. *)
Call(entry, ret) ==
    /\ Runs
    /\ Len(stack) < MaxContexts
    /\ stack' = Below \o <<[Top EXCEPT !.pc = NoPc], [pc |-> entry, ret |-> ret]>>
    /\ UNCHANGED running

(* A body that ends in the context of its caller. *)
Return ==
    /\ Runs
    /\ Len(stack) > 1
    /\ stack' = [Below EXCEPT ![Len(Below)].pc = Top.ret]
    /\ UNCHANGED running

Halt ==
    /\ Runs
    /\ stack' = [stack EXCEPT ![Len(stack)].pc = NoPc]
    /\ running' = FALSE

Next ==
    \/ \E next \in entries : Goto(next)
    \/ \E entry, ret \in entries : Call(entry, ret)
    \/ Return \/ Halt

Spec == Init /\ [][Next]_vars
=============================================================================
