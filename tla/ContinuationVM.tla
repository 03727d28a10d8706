--------------------------- MODULE ContinuationVM ---------------------------
(***************************************************************************)
(* The continuation VM (cir/vm/mod.rs) on every program the validator      *)
(* accepts, with the values of cells left out: a frame is its function,    *)
(* the lengths of its vectors and its return continuation.  Every lookup   *)
(* that the VM makes at run time is made here too, and ends in a fault     *)
(* when it fails (an Err, or a panic of the Rust code).                    *)
(*                                                                         *)
(* Only the declarations of the program are fixed.  A continuation ends    *)
(* with any terminator the validator accepts for it, chosen anew at every  *)
(* visit, and its body executes any accepted instructions: what holds of   *)
(* all these behaviours holds of every program.                            *)
(***************************************************************************)
EXTENDS ContinuationIr

CONSTANTS
    Programs,        \* declarations of programs
    ArgumentLists,   \* the argument lists of calls
    MaxByte,         \* 255: largest index of an array access
    MaxOffset,       \* 65535: largest logical offset
    MaxDepth         \* bound on the depth of calls; none in the code

ASSUME VMAssumption ==
    /\ \A p \in Programs : IsProgram(p)
    /\ ArgumentLists \subseteq Seq(Operands)
    /\ MaxByte \in Nat /\ MaxOffset \in Nat
    /\ MaxDepth \in Nat \ {0}
    /\ None \notin ContinuationIds \cup Operands

VARIABLES
    prog,      \* the declarations of the program
    stack,     \* frames, main's first
    current,   \* the continuation to run
    status     \* where run() is, or how it ended

vars == <<prog, stack, current, status>>

Statuses == {"dispatch", "body", "halted", "aborted", "out of range", "fault"}

(* new_frame *)
NewFrame(f, returnTo) ==
    [function |-> f,
     slots    |-> prog.functions[f].slots,
     cells    |-> prog.functions[f].cells,
     outbox   |-> prog.functions[f].outbox,
     returnTo |-> returnTo]

Init ==
    /\ prog \in {p \in Programs : ValidDeclarations(p)}
    /\ stack = <<NewFrame(prog.main, None)>>
    /\ current = prog.functions[prog.main].entry
    /\ status = "dispatch"

Top == stack[Len(stack)]

-----------------------------------------------------------------------------
(* region: the vector a region names in the current frame; globals by      *)
(* initial_global.                                                         *)
Present(r) ==
    CASE r.kind = "frame"  -> r.id \in DOMAIN Top.cells
      [] r.kind = "global" -> r.id \in DOMAIN prog.globals /\ IsAggregate(prog.globals[r.id])
      [] OTHER             -> TRUE

Length(r) ==
    CASE r.kind = "frame"  -> Top.cells[r.id]
      [] r.kind = "global" -> prog.globals[r.id].cells
      [] OTHER             -> Top.outbox

(* read_address, write_address *)
Accessible(a) ==
    CASE a.kind = "frame"   -> a.slot < Top.slots
      [] a.kind = "global"  -> a.id \in DOMAIN prog.globals /\ prog.globals[a.id].kind = "cell"
      [] a.kind = "element" -> Present(a.region) /\ a.index < Length(a.region)
      [] OTHER              -> TRUE

(* read_operand, and the length of the vector it returns *)
Readable(o) ==
    CASE o.kind = "cell"  -> Accessible(o.address)
      [] o.kind = "array" -> Present(o.region)
      [] OTHER            -> Present(o.region) /\ o.offset + o.cells <= Length(o.region)

Cells(o) == CASE o.kind = "cell" -> 1 [] o.kind = "array" -> Length(o.region) [] OTHER -> o.cells

(* write_operand: a shorter vector fits into a whole region. *)
Writable(o, cells) ==
    CASE o.kind = "cell"  -> Accessible(o.address) /\ cells = 1
      [] o.kind = "array" -> Present(o.region) /\ cells <= Length(o.region)
      [] OTHER            -> /\ Present(o.region) /\ o.offset + o.cells <= Length(o.region)
                             /\ cells = o.cells

-----------------------------------------------------------------------------
End(how) == status' = how /\ UNCHANGED <<prog, stack, current>>

(* The head of run(): the continuation exists and belongs to the frame. *)
Dispatch ==
    /\ status = "dispatch"
    /\ IF current \in DOMAIN prog.owner /\ prog.owner[current] = Top.function
       THEN status' = "body" /\ UNCHANGED <<prog, stack, current>>
       ELSE End("fault")

InBody == status = "body"
Here   == prog.owner[current]

Jump(c) == current' = c /\ status' = "dispatch" /\ UNCHANGED <<prog, stack>>

(* execute_instruction: the cells a scalar instruction, a loop or a branch *)
(* touches, and AggregateCopy.                                             *)
Instruction ==
    /\ InBody
    /\ \/ \E a \in Addresses :
             /\ ValidAddress(prog, Here, a)
             /\ IF Accessible(a) THEN UNCHANGED vars ELSE End("fault")
       \/ \E src, dst \in Regions, cells \in Sizes :
             /\ ValidCopy(prog, Here, src, dst, cells)
             /\ IF \A r \in {src, dst} : Present(r) /\ cells <= Length(r)
                THEN UNCHANGED vars ELSE End("fault")

Goto ==
    /\ InBody
    /\ \E target \in ContinuationIds : ValidSuccessor(prog, Here, target) /\ Jump(target)

Branch ==
    /\ InBody
    /\ \E condition \in Addresses, thenTarget, elseTarget \in ContinuationIds :
          /\ ValidAddress(prog, Here, condition)
          /\ ValidSuccessor(prog, Here, thenTarget) /\ ValidSuccessor(prog, Here, elseTarget)
          /\ IF Accessible(condition) THEN Jump(thenTarget) \/ Jump(elseTarget) ELSE End("fault")

(* A cell parameter takes a cell and a whole aggregate a vector, whose     *)
(* length the aggregate then has; anything else is unreachable!().         *)
(* Arrived: the length of an aggregate after the first n arguments.        *)
IsVector(q) == q.kind \in {"array", "aggregate"}
Arrived(d, arguments, n, id) ==
    IF \E i \in 1 .. n : IsVector(d.parameters[i]) /\ d.parameters[i].id = id
    THEN Cells(arguments[CHOOSE i \in 1 .. n : IsVector(d.parameters[i]) /\ d.parameters[i].id = id])
    ELSE d.cells[id]

Passable(d, arguments, i) ==
    LET argument == arguments[i]  q == d.parameters[i] IN
    CASE q.kind = "cell"    -> argument.kind = "cell" /\ q.slot < d.slots
      [] q.kind = "element" -> argument.kind = "cell" /\ q.id \in DOMAIN d.cells
                               /\ q.index < Arrived(d, arguments, i - 1, q.id)
      [] OTHER              -> argument.kind # "cell" /\ q.id \in DOMAIN d.cells

Call ==
    /\ InBody
    /\ Len(stack) < MaxDepth
    /\ \E callee \in FunctionIds, arguments \in ArgumentLists, returnTo \in ContinuationIds :
          /\ ValidCall(prog, Here, callee, arguments, returnTo)
          /\ LET d == prog.functions[callee] IN
             IF \A i \in DOMAIN arguments : Readable(arguments[i]) /\ Passable(d, arguments, i)
             THEN /\ stack' = Append(stack, [NewFrame(callee, returnTo) EXCEPT
                                !.cells = [id \in DOMAIN d.cells |->
                                              Arrived(d, arguments, Len(arguments), id)]])
                  /\ current' = d.entry
                  /\ status' = "dispatch"
                  /\ UNCHANGED prog
             ELSE End("fault")

(* A vector goes to the front of the caller's outbox. *)
Return ==
    /\ InBody
    /\ \E value \in Operands \cup {None} :
          /\ ValidReturn(prog, Here, value)
          /\ IF /\ value # None => Readable(value)
                /\ Top.returnTo # None
                /\ Len(stack) > 1
                /\ value # None /\ value.kind # "cell" =>
                       Cells(value) <= stack[Len(stack) - 1].outbox
             THEN /\ stack' = SubSeq(stack, 1, Len(stack) - 1)
                  /\ current' = Top.returnTo
                  /\ status' = "dispatch"
                  /\ UNCHANGED prog
             ELSE End("fault")

(* A dynamic access may miss its region, which ends the run with an error. *)
ArrayLoad ==
    /\ InBody
    /\ \E array \in Regions, index \in Addresses :
          /\ ValidPortalArray(prog, Here, array) /\ ValidAddress(prog, Here, index)
          /\ \E destination \in Addresses, returnTo \in ContinuationIds, i \in 0 .. MaxByte :
                /\ ValidAddress(prog, Here, destination)
                /\ ValidSuccessor(prog, Here, returnTo)
                /\ IF ~Accessible(index) \/ ~Present(array) THEN End("fault")
                   ELSE IF i >= Length(array) THEN End("out of range")
                   ELSE IF Accessible(destination) THEN Jump(returnTo) ELSE End("fault")

ArrayStore ==
    /\ InBody
    /\ \E array \in Regions, index \in Addresses :
          /\ ValidPortalArray(prog, Here, array) /\ ValidAddress(prog, Here, index)
          /\ \E value \in Addresses, returnTo \in ContinuationIds, i \in 0 .. MaxByte :
                /\ ValidAddress(prog, Here, value)
                /\ ValidSuccessor(prog, Here, returnTo)
                /\ IF ~Accessible(index) \/ ~Accessible(value) \/ ~Present(array) THEN End("fault")
                   ELSE IF i < Length(array) THEN Jump(returnTo) ELSE End("out of range")

AggregateLoad ==
    /\ InBody
    /\ \E source \in Regions, cells \in Sizes, low, high \in Addresses :
          /\ ValidDynamicRegion(prog, Here, source, cells)
          /\ ValidOffset(prog, Here, low, high)
          /\ \E destination \in Operands, returnTo \in ContinuationIds, start \in 0 .. MaxOffset :
                /\ ValidAccessOperand(prog, Here, destination, cells)
                /\ NoAlias(low, high, destination)
                /\ ValidSuccessor(prog, Here, returnTo)
                /\ IF ~Accessible(low) \/ ~Accessible(high) \/ ~Present(source) THEN End("fault")
                   ELSE IF start + cells > Length(source) THEN End("out of range")
                   ELSE IF Writable(destination, cells) THEN Jump(returnTo) ELSE End("fault")

AggregateStore ==
    /\ InBody
    /\ \E destination \in Regions, cells \in Sizes, low, high \in Addresses :
          /\ ValidDynamicRegion(prog, Here, destination, cells)
          /\ ValidOffset(prog, Here, low, high)
          /\ \E source \in Operands, returnTo \in ContinuationIds, start \in 0 .. MaxOffset :
                /\ ValidAccessOperand(prog, Here, source, cells)
                /\ NoAlias(low, high, source)
                /\ ValidSuccessor(prog, Here, returnTo)
                /\ IF \/ ~Accessible(low) \/ ~Accessible(high) \/ ~Present(destination)
                      \/ ~Readable(source) \/ Cells(source) # cells
                   THEN End("fault")
                   ELSE IF start + cells <= Length(destination) THEN Jump(returnTo)
                   ELSE End("out of range")

Halt  == InBody /\ ValidHalt(prog, Here) /\ End("halted")
Abort == InBody /\ End("aborted")

Terminator ==
    \/ Goto \/ Branch \/ Call \/ Return
    \/ ArrayLoad \/ ArrayStore \/ AggregateLoad \/ AggregateStore
    \/ Halt \/ Abort

Next == Dispatch \/ Instruction \/ Terminator

Spec == Init /\ [][Next]_vars

-----------------------------------------------------------------------------
TypeOK ==
    /\ prog \in Programs
    /\ Len(stack) \in 1 .. MaxDepth
    /\ \A i \in DOMAIN stack : stack[i].function \in DOMAIN prog.functions
    /\ current \in DOMAIN prog.owner
    /\ status \in Statuses

(* "Direct execution of validated continuation IR": the run-time errors of *)
(* the VM other than a dynamic access out of range, and its unreachable!() *)
(* arms, are really unreachable for a validated program (vm/mod.rs).       *)
NoFault == status # "fault"

(* Whoever returns comes back to its caller, at a continuation of the      *)
(* caller's function, with a value the caller's outbox has room for.       *)
CallersReady ==
    \A i \in 2 .. Len(stack) :
        /\ stack[i].returnTo \in DOMAIN prog.owner
        /\ prog.owner[stack[i].returnTo] = stack[i - 1].function
        /\ IsAggregate(prog.functions[stack[i].function].returns) =>
               prog.functions[stack[i].function].returns.cells <= stack[i - 1].outbox

(* The aggregates of a frame have their declared lengths, also those that  *)
(* were replaced by an argument.                                           *)
DeclaredShape == \A i \in DOMAIN stack : stack[i].cells = prog.functions[stack[i].function].cells

(* main is at the bottom and nowhere else, and a run that halts has no     *)
(* other frame left.                                                       *)
MainAtBottom ==
    /\ \A i \in DOMAIN stack : stack[i].function = prog.main <=> i = 1
    /\ status = "halted" => Len(stack) = 1
=============================================================================
