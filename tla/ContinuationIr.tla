--------------------------- MODULE ContinuationIr ---------------------------
(***************************************************************************)
(* The declarations of a continuation program and what                     *)
(* ContinuationProgram::new accepts (cir/ir.rs, validate_program and the   *)
(* functions it calls).  Values are left out: the checks are about         *)
(* identifiers, owners and sizes.                                          *)
(*                                                                         *)
(* Tables are functions of identifiers, so the checks for duplicate        *)
(* identifiers have nothing to reject.  Instructions nested in loops and   *)
(* branches are validated one by one like the others.                      *)
(***************************************************************************)
EXTENDS Integers, Sequences

CONSTANTS
    FunctionIds, ContinuationIds, GlobalIds, AggregateIds,
    MaxSize,            \* bound on sizes, slots, indices and offsets in programs
    MaxArrayCells,      \* 256
    MaxAggregateCells,  \* MAX_AGGREGATE_CELLS
    None

ASSUME IrAssumption == MaxSize \in Nat /\ MaxArrayCells \in Nat /\ MaxAggregateCells \in Nat

Sizes == 0 .. MaxSize

(* ValueType *)
Void == [kind |-> "void", cells |-> 0]
Cell == [kind |-> "cell", cells |-> 1]
Types == {Void, Cell} \cup [kind : {"array", "aggregate"}, cells : Sizes]
IsAggregate(type) == type.kind \in {"array", "aggregate"}

(* AggregateRegion, Address, ValueOperand, ParameterLocation *)
Regions ==
    [kind : {"frame"}, id : AggregateIds] \cup [kind : {"global"}, id : GlobalIds]
        \cup {[kind |-> "outbox"]}
Addresses ==
    [kind : {"frame"}, slot : Sizes] \cup [kind : {"global"}, id : GlobalIds]
        \cup [kind : {"element"}, region : Regions, index : Sizes] \cup {[kind |-> "abi"]}
Operands ==
    [kind : {"cell"}, address : Addresses] \cup [kind : {"array"}, region : Regions]
        \cup [kind : {"aggregate"}, region : Regions, offset : Sizes, cells : Sizes]
Parameters ==
    [kind : {"cell"}, slot : Sizes] \cup [kind : {"element"}, id : AggregateIds, index : Sizes]
        \cup [kind : {"array", "aggregate"}, id : AggregateIds]

(* FunctionDescriptor; the program's tables. *)
IsFunction(d) ==
    /\ d.entry \in ContinuationIds
    /\ d.slots \in Sizes /\ d.outbox \in Sizes
    /\ DOMAIN d.cells \subseteq AggregateIds
    /\ d.cells \in [DOMAIN d.cells -> Sizes]
    /\ d.parameters \in Seq(Parameters)
    /\ d.returns \in Types

IsProgram(p) ==
    /\ p.main \in FunctionIds
    /\ DOMAIN p.functions \subseteq FunctionIds
    /\ \A f \in DOMAIN p.functions : IsFunction(p.functions[f])
    /\ DOMAIN p.globals \subseteq GlobalIds
    /\ \A g \in DOMAIN p.globals : p.globals[g] \in Types
    /\ DOMAIN p.owner \subseteq ContinuationIds
    /\ \A c \in DOMAIN p.owner : p.owner[c] \in FunctionIds

-----------------------------------------------------------------------------
(* validate_declared_type *)
ValidType(type) ==
    /\ type.kind = "array" => type.cells \in 1 .. MaxArrayCells
    /\ type.kind = "aggregate" => type.cells <= MaxAggregateCells

ValidParameter(d, q) ==
    CASE q.kind = "cell"    -> q.slot < d.slots
      [] q.kind = "element" -> q.id \in DOMAIN d.cells /\ q.index < d.cells[q.id]
      [] OTHER              -> q.id \in DOMAIN d.cells

(* No location twice, and no aggregate as two whole parameters. *)
DistinctParameters(qs) ==
    \A i, j \in DOMAIN qs : i # j =>
        /\ qs[i] # qs[j]
        /\ {qs[i].kind, qs[j].kind} \subseteq {"array", "aggregate"} => qs[i].id # qs[j].id

ValidFunction(d) ==
    /\ ValidType(d.returns)
    /\ d.outbox <= MaxAggregateCells
    /\ \A a \in DOMAIN d.cells : d.cells[a] <= MaxAggregateCells
    /\ \A i \in DOMAIN d.parameters : ValidParameter(d, d.parameters[i])
    /\ DistinctParameters(d.parameters)

(* The entry of a function belongs to it. *)
ValidEntry(p, f) ==
    /\ p.functions[f].entry \in DOMAIN p.owner
    /\ p.owner[p.functions[f].entry] = f

ValidDeclarations(p) ==
    /\ \A g \in DOMAIN p.globals : p.globals[g] # Void /\ ValidType(p.globals[g])
    /\ \A f \in DOMAIN p.functions : ValidFunction(p.functions[f]) /\ ValidEntry(p, f)
    /\ p.main \in DOMAIN p.functions
    /\ p.functions[p.main].parameters = <<>>
    /\ p.functions[p.main].returns = Void
    /\ \A c \in DOMAIN p.owner : p.owner[c] \in DOMAIN p.functions

-----------------------------------------------------------------------------
(* aggregate_region_cells: an error, or the cells of the region. *)
KnownRegion(p, f, r) ==
    CASE r.kind = "frame"  -> r.id \in DOMAIN p.functions[f].cells
      [] r.kind = "global" -> r.id \in DOMAIN p.globals /\ IsAggregate(p.globals[r.id])
      [] OTHER             -> TRUE

RegionCells(p, f, r) ==
    CASE r.kind = "frame"  -> p.functions[f].cells[r.id]
      [] r.kind = "global" -> p.globals[r.id].cells
      [] OTHER             -> p.functions[f].outbox

(* validate_address.  (Mutant: an element as far as its region's size.) *)
ValidAddress_OneTooFar(p, f, a) ==
    CASE a.kind = "frame"   -> a.slot < p.functions[f].slots
      [] a.kind = "global"  -> a.id \in DOMAIN p.globals /\ p.globals[a.id] = Cell
      [] a.kind = "element" -> KnownRegion(p, f, a.region) /\ a.index <= RegionCells(p, f, a.region)
      [] OTHER              -> TRUE
ValidAddress(p, f, a) ==
    CASE a.kind = "frame"   -> a.slot < p.functions[f].slots
      [] a.kind = "global"  -> a.id \in DOMAIN p.globals /\ p.globals[a.id] = Cell
      [] a.kind = "element" -> KnownRegion(p, f, a.region) /\ a.index < RegionCells(p, f, a.region)
      [] OTHER              -> TRUE

(* value_operand_type: an error, or the type of the operand. *)
ValidOperand(p, f, o) ==
    CASE o.kind = "cell"  -> ValidAddress(p, f, o.address)
      [] o.kind = "array" -> KnownRegion(p, f, o.region)
      [] OTHER            -> /\ o.cells <= MaxAggregateCells
                             /\ KnownRegion(p, f, o.region)
                             /\ o.offset + o.cells <= RegionCells(p, f, o.region)

OperandType(p, f, o) ==
    CASE o.kind = "cell"  -> Cell
      [] o.kind = "array" -> [kind |-> "array", cells |-> RegionCells(p, f, o.region)]
      [] OTHER            -> [kind |-> "aggregate", cells |-> o.cells]

ParameterType(d, q) ==
    IF q.kind \in {"array", "aggregate"} THEN [kind |-> q.kind, cells |-> d.cells[q.id]] ELSE Cell

(* value_types_match.  (Mutant: any two aggregates.) *)
TypesMatch_AnySize(a, b) == a = b \/ (IsAggregate(a) /\ IsAggregate(b))
TypesMatch(a, b) == a = b \/ (IsAggregate(a) /\ IsAggregate(b) /\ a.cells = b.cells)

(* validate_successor: a continuation of the same function.  (Mutants: of  *)
(* any function; none that belongs to another one.)                        *)
ValidSuccessor_AnyOwner(p, f, c) == c \in DOMAIN p.owner
ValidSuccessor_Unknown(p, f, c) == c \in DOMAIN p.owner => p.owner[c] = f
ValidSuccessor(p, f, c) == c \in DOMAIN p.owner /\ p.owner[c] = f

(* The caller's outbox has room for what the callee returns. *)
OutboxFits(p, f, callee) ==
    IsAggregate(p.functions[callee].returns) =>
        p.functions[f].outbox >= p.functions[callee].returns.cells

(* main is never called. *)
Callable(p, callee) == callee \in DOMAIN p.functions \ {p.main}

ValidCall(p, f, callee, arguments, returnTo) ==
    /\ ValidSuccessor(p, f, returnTo)
    /\ Callable(p, callee)
    /\ LET d == p.functions[callee] IN
          /\ Len(arguments) = Len(d.parameters)
          /\ \A i \in DOMAIN arguments :
                /\ ValidOperand(p, f, arguments[i])
                /\ TypesMatch(OperandType(p, f, arguments[i]), ParameterType(d, d.parameters[i]))
    /\ OutboxFits(p, f, callee)

ValidReturn(p, f, value) ==
    /\ f # p.main
    /\ value = None <=> p.functions[f].returns = Void
    /\ value # None => /\ ValidOperand(p, f, value)
                       /\ TypesMatch(OperandType(p, f, value), p.functions[f].returns)

ValidHalt(p, f) == f = p.main

-----------------------------------------------------------------------------
(* The terminators that access a region dynamically. *)
ValidPortalArray(p, f, r) == r.kind # "outbox" /\ KnownRegion(p, f, r)

ValidDynamicRegion(p, f, r, cells) ==
    /\ cells # 0 /\ cells <= MaxAggregateCells
    /\ r.kind # "outbox"
    /\ KnownRegion(p, f, r) /\ cells <= RegionCells(p, f, r)

ValidAccessOperand(p, f, o, cells) ==
    ValidOperand(p, f, o) /\ OperandType(p, f, o).cells = cells

(* validate_logical_offset and validate_logical_offset_operand_alias *)
FrameOwned(a) == a.kind = "frame" \/ (a.kind = "element" /\ a.region.kind = "frame")
ValidOffset(p, f, low, high) ==
    /\ ValidAddress(p, f, low) /\ ValidAddress(p, f, high)
    /\ FrameOwned(low) /\ FrameOwned(high) /\ low # high
NoAlias(low, high, o) == o.kind = "cell" => o.address \notin {low, high}

(* FrameInstruction::AggregateCopy *)
ValidCopy(p, f, src, dst, cells) ==
    /\ cells <= MaxAggregateCells
    /\ \A r \in {src, dst} : KnownRegion(p, f, r) /\ cells <= RegionCells(p, f, r)
=============================================================================
