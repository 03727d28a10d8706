------------------------ MODULE ContinuationVMProofs ------------------------
(***************************************************************************)
(* A validated program does not fault: the checks of the validator, made   *)
(* once per continuation against declarations, imply every check the VM    *)
(* makes against the frame it has at hand.  The link between the two is    *)
(* that a frame keeps the shape its function declares, whatever arguments  *)
(* replaced its aggregates, and that control is always in the function of  *)
(* the top frame, whatever call or return brought it there.                *)
(***************************************************************************)
EXTENDS ContinuationVM, TLAPS

CellMaps == UNION {[S -> Sizes] : S \in SUBSET AggregateIds}
Frames ==
    [function : FunctionIds, slots : Sizes, cells : CellMaps, outbox : Sizes,
     returnTo : ContinuationIds \cup {None}]

Declared(frame) == prog.functions[frame.function]

Shaped(frame) ==
    /\ frame.function \in DOMAIN prog.functions
    /\ frame.slots = Declared(frame).slots
    /\ frame.cells = Declared(frame).cells
    /\ frame.outbox = Declared(frame).outbox

IInv ==
    /\ prog \in Programs /\ ValidDeclarations(prog)
    /\ stack \in Seq(Frames) /\ Len(stack) \in 1 .. MaxDepth
    /\ \A i \in DOMAIN stack : Shaped(stack[i])
    /\ current \in DOMAIN prog.owner /\ prog.owner[current] = Top.function
    /\ status \in Statuses
    /\ NoFault /\ CallersReady /\ MainAtBottom

-----------------------------------------------------------------------------
(* What the VM finds in the top frame is what the validator saw in its     *)
(* declaration.                                                            *)
LEMMA RegionsAgree ==
    ASSUME Shaped(Top), NEW r \in Regions, KnownRegion(prog, Top.function, r)
    PROVE  Present(r) /\ Length(r) = RegionCells(prog, Top.function, r)
BY DEF Shaped, Declared, KnownRegion, Present, Length, RegionCells, Regions

(* An address the validator accepts can be read and written. *)
LEMMA AddressesAgree ==
    ASSUME Shaped(Top), NEW a \in Addresses, ValidAddress(prog, Top.function, a)
    PROVE  Accessible(a)
<1>1. CASE a.kind = "frame"
  BY <1>1 DEF Shaped, Declared, ValidAddress, Accessible
<1>2. CASE a.kind = "global"
  BY <1>2 DEF ValidAddress, Accessible, Cell
<1>3. CASE a.kind = "element"
  <2>1. a.region \in Regions
    BY <1>3 DEF Addresses, Regions
  <2>2. KnownRegion(prog, Top.function, a.region) /\ a.index < RegionCells(prog, Top.function, a.region)
    BY <1>3 DEF ValidAddress
  <2>3. Present(a.region) /\ Length(a.region) = RegionCells(prog, Top.function, a.region)
    BY <2>1, <2>2, RegionsAgree
  <2> QED
    BY <1>3, <2>2, <2>3 DEF Accessible
<1>4. CASE a.kind \notin {"frame", "global", "element"}
  BY <1>4 DEF Accessible
<1> QED
  BY <1>1, <1>2, <1>3, <1>4

(* An operand the validator accepts can be read, and has the cells of its  *)
(* type.                                                                   *)
LEMMA OperandsAgree ==
    ASSUME Shaped(Top), NEW o \in Operands, ValidOperand(prog, Top.function, o)
    PROVE  Readable(o) /\ Cells(o) = OperandType(prog, Top.function, o).cells
<1>1. CASE o.kind = "cell"
  <2>1. o.address \in Addresses
    BY <1>1 DEF Operands
  <2>2. Accessible(o.address)
    BY <1>1, <2>1, AddressesAgree DEF ValidOperand
  <2> QED
    BY <1>1, <2>2 DEF Readable, Cells, OperandType, Cell
<1>2. CASE o.kind = "array"
  <2>1. o.region \in Regions
    BY <1>2 DEF Operands
  <2>2. Present(o.region) /\ Length(o.region) = RegionCells(prog, Top.function, o.region)
    BY <1>2, <2>1, RegionsAgree DEF ValidOperand
  <2> QED
    BY <1>2, <2>2 DEF Readable, Cells, OperandType
<1>3. CASE o.kind \notin {"cell", "array"}
  <2>1. o.region \in Regions
    BY <1>3 DEF Operands
  <2>2. KnownRegion(prog, Top.function, o.region)
        /\ o.offset + o.cells <= RegionCells(prog, Top.function, o.region)
    BY <1>3 DEF ValidOperand
  <2>3. Present(o.region) /\ Length(o.region) = RegionCells(prog, Top.function, o.region)
    BY <2>1, <2>2, RegionsAgree
  <2> QED
    BY <1>3, <2>2, <2>3 DEF Readable, Cells, OperandType
<1> QED
  BY <1>1, <1>2, <1>3

(* An operand of the right size can be written. *)
LEMMA DestinationsAgree ==
    ASSUME Shaped(Top), NEW o \in Operands, NEW cells \in Sizes,
           ValidAccessOperand(prog, Top.function, o, cells)
    PROVE  Writable(o, cells)
<1>1. Readable(o) /\ Cells(o) = cells
  BY OperandsAgree DEF ValidAccessOperand
<1>2. CASE o.kind = "cell"
  BY <1>1, <1>2 DEF Readable, Cells, Writable
<1>3. CASE o.kind = "array"
  BY <1>1, <1>3 DEF Readable, Cells, Writable, Sizes
<1>4. CASE o.kind \notin {"cell", "array"}
  BY <1>1, <1>4 DEF Readable, Cells, Writable
<1> QED
  BY <1>2, <1>3, <1>4

-----------------------------------------------------------------------------
(* The top frame has the shape of the function that control is in. *)
LEMMA TopFrame ==
    ASSUME IInv
    PROVE  /\ Len(stack) \in Nat \ {0}
           /\ Top = stack[Len(stack)] /\ Top \in Frames
           /\ Shaped(Top)
           /\ Here = Top.function
           /\ Here \in DOMAIN prog.functions
           /\ IsProgram(prog)
<1>1. Len(stack) \in Nat \ {0} /\ Len(stack) \in DOMAIN stack
  BY VMAssumption DEF IInv
<1>2. Top = stack[Len(stack)] /\ Top \in Frames /\ Shaped(Top)
  BY <1>1 DEF IInv, Top
<1>3. Here = Top.function
  BY DEF IInv, Here
<1> QED
  BY <1>1, <1>2, <1>3, VMAssumption DEF IInv, Shaped

(* A step to a continuation of the same function keeps everything. *)
LEMMA JumpKeeps ==
    ASSUME IInv, NEW c \in ContinuationIds, ValidSuccessor(prog, Here, c), Jump(c)
    PROVE  IInv'
<1>1. prog' = prog /\ stack' = stack /\ current' = c /\ status' = "dispatch"
  BY DEF Jump
<1>2. prog.owner[c] = Top.function /\ c \in DOMAIN prog.owner
  BY TopFrame DEF ValidSuccessor
<1> QED
  BY <1>1, <1>2 DEF IInv, Top, Shaped, Declared, Statuses, NoFault, CallersReady, MainAtBottom

(* So does the end of a run, if only main halts. *)
LEMMA EndKeeps ==
    ASSUME IInv, NEW how \in Statuses \ {"fault"}, how = "halted" => Len(stack) = 1, End(how)
    PROVE  IInv'
BY DEF IInv, End, Top, Shaped, Declared, Statuses, NoFault, CallersReady, MainAtBottom

LEMMA DispatchKeeps == IInv /\ Dispatch => IInv'
<1> SUFFICES ASSUME IInv, Dispatch PROVE IInv'
  OBVIOUS
<1>1. current \in DOMAIN prog.owner /\ prog.owner[current] = Top.function
  BY DEF IInv
<1>2. End("body")
  BY <1>1 DEF Dispatch, End
<1> QED
  BY <1>2, EndKeeps DEF Statuses

LEMMA InstructionKeeps == IInv /\ Instruction => IInv'
<1> SUFFICES ASSUME IInv, Instruction PROVE IInv'
  OBVIOUS
<1> USE TopFrame
<1>1. ASSUME NEW a \in Addresses, ValidAddress(prog, Here, a) PROVE Accessible(a)
  BY <1>1, AddressesAgree
<1>2. ASSUME NEW src \in Regions, NEW dst \in Regions, NEW cells \in Sizes,
             ValidCopy(prog, Here, src, dst, cells)
      PROVE  \A r \in {src, dst} : Present(r) /\ cells <= Length(r)
  BY <1>2, RegionsAgree DEF ValidCopy
<1>3. UNCHANGED vars
  BY <1>1, <1>2 DEF Instruction
<1> QED
  BY <1>3 DEF IInv, vars, Top, Shaped, Declared, NoFault, CallersReady, MainAtBottom

LEMMA GotoKeeps == IInv /\ Goto => IInv'
BY JumpKeeps DEF Goto

LEMMA BranchKeeps == IInv /\ Branch => IInv'
<1> SUFFICES ASSUME IInv, NEW condition \in Addresses,
                    NEW thenTarget \in ContinuationIds, NEW elseTarget \in ContinuationIds,
                    ValidAddress(prog, Here, condition),
                    ValidSuccessor(prog, Here, thenTarget), ValidSuccessor(prog, Here, elseTarget),
                    IF Accessible(condition) THEN Jump(thenTarget) \/ Jump(elseTarget)
                    ELSE End("fault")
             PROVE  IInv'
  BY DEF Branch
<1>1. Accessible(condition)
  BY TopFrame, AddressesAgree
<1> QED
  BY <1>1, JumpKeeps

LEMMA ArrayLoadKeeps == IInv /\ ArrayLoad => IInv'
<1> SUFFICES ASSUME IInv,
                    NEW array \in Regions, NEW index \in Addresses, NEW destination \in Addresses,
                    NEW returnTo \in ContinuationIds, NEW i \in 0 .. MaxByte,
                    ValidPortalArray(prog, Here, array), ValidAddress(prog, Here, index),
                    ValidAddress(prog, Here, destination), ValidSuccessor(prog, Here, returnTo),
                    IF ~Accessible(index) \/ ~Present(array) THEN End("fault")
                    ELSE IF i >= Length(array) THEN End("out of range")
                    ELSE IF Accessible(destination) THEN Jump(returnTo) ELSE End("fault")
             PROVE  IInv'
  BY DEF ArrayLoad
<1>1. Accessible(index) /\ Accessible(destination) /\ Present(array)
  BY TopFrame, AddressesAgree, RegionsAgree DEF ValidPortalArray
<1>2. End("out of range") \/ Jump(returnTo)
  BY <1>1
<1> QED
  BY <1>2, JumpKeeps, EndKeeps DEF Statuses

LEMMA ArrayStoreKeeps == IInv /\ ArrayStore => IInv'
<1> SUFFICES ASSUME IInv,
                    NEW array \in Regions, NEW index \in Addresses, NEW value \in Addresses,
                    NEW returnTo \in ContinuationIds, NEW i \in 0 .. MaxByte,
                    ValidPortalArray(prog, Here, array), ValidAddress(prog, Here, index),
                    ValidAddress(prog, Here, value), ValidSuccessor(prog, Here, returnTo),
                    IF ~Accessible(index) \/ ~Accessible(value) \/ ~Present(array) THEN End("fault")
                    ELSE IF i < Length(array) THEN Jump(returnTo) ELSE End("out of range")
             PROVE  IInv'
  BY DEF ArrayStore
<1>1. Accessible(index) /\ Accessible(value) /\ Present(array)
  BY TopFrame, AddressesAgree, RegionsAgree DEF ValidPortalArray
<1>2. End("out of range") \/ Jump(returnTo)
  BY <1>1
<1> QED
  BY <1>2, JumpKeeps, EndKeeps DEF Statuses

LEMMA AggregateLoadKeeps == IInv /\ AggregateLoad => IInv'
<1> SUFFICES ASSUME IInv,
                    NEW source \in Regions, NEW cells \in Sizes,
                    NEW low \in Addresses, NEW high \in Addresses,
                    NEW destination \in Operands, NEW returnTo \in ContinuationIds,
                    NEW start \in 0 .. MaxOffset,
                    ValidDynamicRegion(prog, Here, source, cells),
                    ValidOffset(prog, Here, low, high),
                    ValidAccessOperand(prog, Here, destination, cells),
                    ValidSuccessor(prog, Here, returnTo),
                    IF ~Accessible(low) \/ ~Accessible(high) \/ ~Present(source) THEN End("fault")
                    ELSE IF start + cells > Length(source) THEN End("out of range")
                    ELSE IF Writable(destination, cells) THEN Jump(returnTo) ELSE End("fault")
             PROVE  IInv'
  BY DEF AggregateLoad
<1>1. Accessible(low) /\ Accessible(high) /\ Present(source)
  BY TopFrame, AddressesAgree, RegionsAgree DEF ValidDynamicRegion, ValidOffset
<1>2. Writable(destination, cells)
  BY TopFrame, DestinationsAgree
<1>3. End("out of range") \/ Jump(returnTo)
  BY <1>1, <1>2
<1> QED
  BY <1>3, JumpKeeps, EndKeeps DEF Statuses

LEMMA AggregateStoreKeeps == IInv /\ AggregateStore => IInv'
<1> SUFFICES ASSUME IInv,
                    NEW destination \in Regions, NEW cells \in Sizes,
                    NEW low \in Addresses, NEW high \in Addresses,
                    NEW source \in Operands, NEW returnTo \in ContinuationIds,
                    NEW start \in 0 .. MaxOffset,
                    ValidDynamicRegion(prog, Here, destination, cells),
                    ValidOffset(prog, Here, low, high),
                    ValidAccessOperand(prog, Here, source, cells),
                    ValidSuccessor(prog, Here, returnTo),
                    IF \/ ~Accessible(low) \/ ~Accessible(high) \/ ~Present(destination)
                       \/ ~Readable(source) \/ Cells(source) # cells
                    THEN End("fault")
                    ELSE IF start + cells <= Length(destination) THEN Jump(returnTo)
                    ELSE End("out of range")
             PROVE  IInv'
  BY DEF AggregateStore
<1>1. Accessible(low) /\ Accessible(high) /\ Present(destination)
  BY TopFrame, AddressesAgree, RegionsAgree DEF ValidDynamicRegion, ValidOffset
<1>2. Readable(source) /\ Cells(source) = cells
  BY TopFrame, OperandsAgree DEF ValidAccessOperand
<1>3. End("out of range") \/ Jump(returnTo)
  BY <1>1, <1>2
<1> QED
  BY <1>3, JumpKeeps, EndKeeps DEF Statuses

(* Only main halts, and where main runs nothing is left to return to. *)
LEMMA HaltKeeps == IInv /\ Halt => IInv'
<1> SUFFICES ASSUME IInv, Halt PROVE IInv'
  OBVIOUS
<1>1. stack[Len(stack)].function = prog.main
  BY TopFrame DEF Halt, ValidHalt
<1>2. Len(stack) \in DOMAIN stack
  BY TopFrame DEF IInv
<1>3. Len(stack) = 1
  BY <1>1, <1>2 DEF IInv, MainAtBottom
<1> QED
  BY <1>3, EndKeeps DEF Halt, Statuses

LEMMA AbortKeeps == IInv /\ Abort => IInv'
BY EndKeeps DEF Abort, Statuses

-----------------------------------------------------------------------------
(* A call: the arguments fit the parameters, and the aggregates they       *)
(* replace keep their lengths.                                             *)
LEMMA ArgumentsFit ==
    ASSUME IInv, NEW callee \in FunctionIds, NEW arguments \in ArgumentLists,
           NEW returnTo \in ContinuationIds,
           ValidCall(prog, Here, callee, arguments, returnTo)
    PROVE  LET d == prog.functions[callee] IN
           /\ \A i \in DOMAIN arguments : Readable(arguments[i]) /\ Passable(d, arguments, i)
           /\ \A id \in DOMAIN d.cells : Arrived(d, arguments, Len(arguments), id) = d.cells[id]
<1> DEFINE d == prog.functions[callee]
<1>1. callee \in DOMAIN prog.functions /\ callee # prog.main /\ ValidFunction(d)
  BY DEF ValidCall, Callable, IInv, ValidDeclarations
<1>2. arguments \in Seq(Operands) /\ d.parameters \in Seq(Parameters) /\ Len(arguments) = Len(d.parameters)
  BY <1>1, VMAssumption, TopFrame DEF ValidCall, IsProgram, IsFunction
<1>3. ASSUME NEW i \in DOMAIN arguments
      PROVE  /\ arguments[i] \in Operands
             /\ d.parameters[i] \in Parameters
             /\ i \in DOMAIN d.parameters
             /\ Readable(arguments[i])
             /\ Cells(arguments[i]) = OperandType(prog, Here, arguments[i]).cells
             /\ ValidParameter(d, d.parameters[i])
             /\ TypesMatch(OperandType(prog, Here, arguments[i]), ParameterType(d, d.parameters[i]))
  <2>1. arguments[i] \in Operands /\ i \in DOMAIN d.parameters /\ d.parameters[i] \in Parameters
    BY <1>2
  <2>2. ValidOperand(prog, Here, arguments[i])
        /\ TypesMatch(OperandType(prog, Here, arguments[i]), ParameterType(d, d.parameters[i]))
    BY DEF ValidCall
  <2>3. ValidParameter(d, d.parameters[i])
    BY <1>1, <2>1 DEF ValidFunction
  <2> QED
    BY <2>1, <2>2, <2>3, TopFrame, OperandsAgree
<1>4. ASSUME NEW n \in 0 .. Len(arguments), NEW id \in DOMAIN d.cells
      PROVE  Arrived(d, arguments, n, id) = d.cells[id]
  <2> DEFINE Whole(i) == IsVector(d.parameters[i]) /\ d.parameters[i].id = id
  <2>1. ASSUME NEW i \in 1 .. n, Whole(i) PROVE Cells(arguments[i]) = d.cells[id]
    <3>1. ParameterType(d, d.parameters[i]).cells = d.cells[id]
      BY <2>1 DEF ParameterType, IsVector
    <3>2. i \in DOMAIN arguments
      BY <1>2
    <3> QED
      BY <1>3, <3>1, <3>2 DEF TypesMatch
  <2>2. CASE \E i \in 1 .. n : Whole(i)
    <3>1. PICK k \in 1 .. n : Whole(k) /\ k = CHOOSE i \in 1 .. n : Whole(i)
      BY <2>2
    <3> QED
      BY <2>1, <2>2, <3>1 DEF Arrived
  <2>3. CASE ~\E i \in 1 .. n : Whole(i)
    BY <2>3 DEF Arrived
  <2> QED
    BY <2>2, <2>3
<1>5. ASSUME NEW i \in DOMAIN arguments PROVE Passable(d, arguments, i)
  <2> DEFINE q == d.parameters[i]
             type == OperandType(prog, Here, arguments[i])
  <2>1. CASE q.kind \in {"cell", "element"}
    <3>1. ParameterType(d, q) = Cell
      BY <2>1 DEF ParameterType
    <3>2. type = Cell
      BY <1>3, <3>1 DEF TypesMatch, Cell, IsAggregate
    <3>3. arguments[i].kind = "cell"
      BY <1>3, <3>2 DEF OperandType, Cell
    <3>4. i - 1 \in 0 .. Len(arguments)
      BY <1>2
    <3> QED
      BY <1>3, <1>4, <2>1, <3>3, <3>4 DEF Passable, ValidParameter
  <2>2. CASE q.kind \notin {"cell", "element"}
    <3>1. q.kind \in {"array", "aggregate"}
      BY <1>3, <2>2 DEF Parameters
    <3>2. type.kind \in {"array", "aggregate"}
      BY <1>3, <3>1 DEF TypesMatch, ParameterType, IsAggregate
    <3>3. arguments[i].kind # "cell"
      BY <3>2 DEF OperandType, Cell
    <3> QED
      BY <1>3, <2>2, <3>3 DEF Passable, ValidParameter
  <2> QED
    BY <2>1, <2>2
<1>6. Len(arguments) \in 0 .. Len(arguments)
  BY <1>2
<1> QED
  BY <1>3, <1>4, <1>5, <1>6

(* The frame of a callee has the shape its function declares. *)
LEMMA NewFrameFits ==
    ASSUME prog \in Programs, NEW f \in DOMAIN prog.functions,
           NEW returnTo \in ContinuationIds \cup {None}
    PROVE  /\ NewFrame(f, returnTo) \in Frames
           /\ Shaped(NewFrame(f, returnTo))
           /\ NewFrame(f, returnTo).function = f
           /\ NewFrame(f, returnTo).returnTo = returnTo
           /\ NewFrame(f, returnTo).outbox = prog.functions[f].outbox
<1>1. IsFunction(prog.functions[f]) /\ f \in FunctionIds
  BY VMAssumption DEF IsProgram
<1>2. prog.functions[f].cells \in CellMaps
  BY <1>1 DEF IsFunction, CellMaps
<1> QED
  BY <1>1, <1>2 DEF NewFrame, Frames, Shaped, Declared, IsFunction

LEMMA CallKeeps == IInv /\ Call => IInv'
<1> SUFFICES ASSUME IInv, Len(stack) < MaxDepth,
                    NEW callee \in FunctionIds, NEW arguments \in ArgumentLists,
                    NEW returnTo \in ContinuationIds,
                    ValidCall(prog, Here, callee, arguments, returnTo),
                    LET d == prog.functions[callee] IN
                    IF \A i \in DOMAIN arguments : Readable(arguments[i]) /\ Passable(d, arguments, i)
                    THEN /\ stack' = Append(stack, [NewFrame(callee, returnTo) EXCEPT
                                !.cells = [id \in DOMAIN d.cells |->
                                              Arrived(d, arguments, Len(arguments), id)]])
                         /\ current' = d.entry
                         /\ status' = "dispatch"
                         /\ UNCHANGED prog
                    ELSE End("fault")
             PROVE  IInv'
  BY DEF Call
<1> DEFINE d == prog.functions[callee]
           frame == NewFrame(callee, returnTo)
<1>1. /\ callee \in DOMAIN prog.functions /\ callee # prog.main
      /\ returnTo \in DOMAIN prog.owner /\ prog.owner[returnTo] = Here
      /\ OutboxFits(prog, Here, callee)
  BY DEF ValidCall, Callable, ValidSuccessor
<1>2. /\ frame \in Frames /\ Shaped(frame)
      /\ frame.function = callee /\ frame.returnTo = returnTo
      /\ frame.cells = d.cells
  <2>1. prog \in Programs
    BY DEF IInv
  <2> QED
    BY <1>1, <2>1, NewFrameFits DEF NewFrame
<1>3. [frame EXCEPT !.cells = [id \in DOMAIN d.cells |-> Arrived(d, arguments, Len(arguments), id)]] = frame
  <2>1. IsFunction(d)
    BY <1>1, TopFrame DEF IsProgram
  <2>2. [id \in DOMAIN d.cells |-> Arrived(d, arguments, Len(arguments), id)] = d.cells
    BY <2>1, ArgumentsFit DEF IsFunction
  <2> QED
    BY <1>2, <2>2 DEF NewFrame
<1>4. /\ stack' = Append(stack, frame) /\ current' = d.entry
      /\ status' = "dispatch" /\ prog' = prog
  BY <1>3, ArgumentsFit
<1>5. stack \in Seq(Frames) /\ Len(stack) \in Nat \ {0} /\ Len(stack) + 1 \in 1 .. MaxDepth
  BY TopFrame, VMAssumption DEF IInv
<1>6. /\ stack' \in Seq(Frames) /\ Len(stack') = Len(stack) + 1
      /\ stack'[Len(stack) + 1] = frame
      /\ \A i \in 1 .. Len(stack) : stack'[i] = stack[i]
      /\ DOMAIN stack' = 1 .. (Len(stack) + 1) /\ DOMAIN stack = 1 .. Len(stack)
  BY <1>2, <1>4, <1>5
<1>7. Top' = frame
  BY <1>6 DEF Top
<1>8. (\A i \in DOMAIN stack : Shaped(stack[i]))'
  <2>1. \A i \in 1 .. Len(stack) : Shaped(stack[i])
    BY DEF IInv
  <2> QED
    BY <1>2, <1>4, <1>5, <1>6, <2>1 DEF Shaped, Declared
<1>9. d.entry \in DOMAIN prog.owner /\ prog.owner[d.entry] = callee
  BY <1>1 DEF IInv, ValidDeclarations, ValidEntry
<1>10. CallersReady'
  <2> SUFFICES ASSUME NEW i \in 2 .. (Len(stack) + 1)
               PROVE  /\ stack'[i].returnTo \in DOMAIN prog.owner
                      /\ prog.owner[stack'[i].returnTo] = stack'[i - 1].function
                      /\ IsAggregate(prog.functions[stack'[i].function].returns) =>
                             prog.functions[stack'[i].function].returns.cells <= stack'[i - 1].outbox
    BY <1>4, <1>6 DEF CallersReady
  <2>1. CASE i = Len(stack) + 1
    <3>1. stack'[i] = frame /\ stack'[i - 1] = Top
      BY <1>5, <1>6, <2>1 DEF Top
    <3>2. Top.function = Here /\ Top.outbox = prog.functions[Here].outbox
      BY TopFrame DEF Shaped, Declared
    <3> QED
      BY <1>1, <1>2, <3>1, <3>2 DEF OutboxFits
  <2>2. CASE i \in 2 .. Len(stack)
    <3>1. stack'[i] = stack[i] /\ stack'[i - 1] = stack[i - 1]
      BY <1>5, <1>6, <2>2
    <3> QED
      BY <2>2, <3>1 DEF IInv, CallersReady
  <2> QED
    BY <1>5, <2>1, <2>2
<1>11. MainAtBottom'
  <2>1. \A i \in DOMAIN stack : stack[i].function = prog.main <=> i = 1
    BY DEF IInv, MainAtBottom
  <2>2. \A i \in DOMAIN stack' : stack'[i].function = prog.main <=> i = 1
    BY <1>1, <1>2, <1>5, <1>6, <2>1
  <2> QED
    BY <1>4, <2>2 DEF MainAtBottom
<1> QED
  BY <1>2, <1>4, <1>5, <1>6, <1>7, <1>8, <1>9, <1>10, <1>11 DEF IInv, Statuses, NoFault

(* A return: main does not return, so there is a caller, which is ready.   *)
LEMMA ReturnKeeps == IInv /\ Return => IInv'
<1> SUFFICES ASSUME IInv, NEW value \in Operands \cup {None},
                    ValidReturn(prog, Here, value),
                    IF /\ value # None => Readable(value)
                       /\ Top.returnTo # None
                       /\ Len(stack) > 1
                       /\ value # None /\ value.kind # "cell" =>
                              Cells(value) <= stack[Len(stack) - 1].outbox
                    THEN /\ stack' = SubSeq(stack, 1, Len(stack) - 1)
                         /\ current' = Top.returnTo
                         /\ status' = "dispatch"
                         /\ UNCHANGED prog
                    ELSE End("fault")
             PROVE  IInv'
  BY DEF Return
<1> DEFINE n == Len(stack)
<1>1. n \in Nat \ {0} /\ n \in DOMAIN stack /\ DOMAIN stack = 1 .. n /\ stack \in Seq(Frames)
      /\ n <= MaxDepth
  BY TopFrame, VMAssumption DEF IInv
<1>2. n > 1
  <2>1. stack[n].function # prog.main
    BY TopFrame DEF ValidReturn
  <2> QED
    BY <1>1, <2>1 DEF IInv, MainAtBottom
<1>3. /\ Top.returnTo \in DOMAIN prog.owner
      /\ prog.owner[Top.returnTo] = stack[n - 1].function
      /\ IsAggregate(prog.functions[Here].returns) =>
             prog.functions[Here].returns.cells <= stack[n - 1].outbox
  <2>1. n \in 2 .. Len(stack)
    BY <1>1, <1>2
  <2> QED
    BY <2>1, TopFrame DEF IInv, CallersReady
<1>4. Top.returnTo # None
  BY <1>3, TopFrame, VMAssumption DEF IsProgram
<1>5. value # None => Readable(value) /\ Cells(value) = OperandType(prog, Here, value).cells
  BY TopFrame, OperandsAgree DEF ValidReturn
<1>6. value # None /\ value.kind # "cell" => Cells(value) <= stack[n - 1].outbox
  <2> SUFFICES ASSUME value # None, value.kind # "cell" PROVE Cells(value) <= stack[n - 1].outbox
    OBVIOUS
  <2>1. OperandType(prog, Here, value).kind \in {"array", "aggregate"}
    BY DEF OperandType
  <2>2. /\ IsAggregate(prog.functions[Here].returns)
        /\ prog.functions[Here].returns.cells = OperandType(prog, Here, value).cells
    BY <2>1 DEF ValidReturn, TypesMatch, IsAggregate
  <2> QED
    BY <1>3, <1>5, <2>2
<1>7. /\ stack' = SubSeq(stack, 1, n - 1) /\ current' = Top.returnTo
      /\ status' = "dispatch" /\ prog' = prog
  BY <1>2, <1>4, <1>5, <1>6
<1>8. /\ stack' \in Seq(Frames) /\ Len(stack') = n - 1 /\ DOMAIN stack' = 1 .. (n - 1)
      /\ \A i \in 1 .. (n - 1) : stack'[i] = stack[i]
  BY <1>1, <1>2, <1>7
<1>9. Top' = stack[n - 1]
  BY <1>1, <1>2, <1>8 DEF Top
<1>10. (\A i \in DOMAIN stack : Shaped(stack[i]))'
  <2>1. \A i \in 1 .. Len(stack) : Shaped(stack[i])
    BY DEF IInv
  <2> QED
    BY <1>1, <1>7, <1>8, <2>1 DEF Shaped, Declared
<1>11. CallersReady'
  <2>1. \A i \in 2 .. (n - 1) : stack'[i] = stack[i] /\ stack'[i - 1] = stack[i - 1] /\ i \in 2 .. n
    BY <1>1, <1>8
  <2> QED
    BY <1>7, <1>8, <2>1 DEF IInv, CallersReady
<1>12. MainAtBottom'
  <2>1. \A i \in DOMAIN stack : stack[i].function = prog.main <=> i = 1
    BY DEF IInv, MainAtBottom
  <2>2. \A i \in DOMAIN stack' : stack'[i].function = prog.main <=> i = 1
    BY <1>1, <1>7, <1>8, <2>1
  <2> QED
    BY <1>7, <2>2 DEF MainAtBottom
<1>13. Len(stack') \in 1 .. MaxDepth
  BY <1>1, <1>2, <1>8, VMAssumption
<1> QED
  BY <1>3, <1>7, <1>8, <1>9, <1>10, <1>11, <1>12, <1>13 DEF IInv, Statuses, NoFault

-----------------------------------------------------------------------------
LEMMA InitKeeps == Init => IInv
<1> SUFFICES ASSUME Init PROVE IInv
  OBVIOUS
<1>1. /\ prog \in Programs /\ ValidDeclarations(prog)
      /\ prog.main \in DOMAIN prog.functions
      /\ ValidEntry(prog, prog.main)
  BY DEF Init, ValidDeclarations
<1>2. /\ NewFrame(prog.main, None) \in Frames /\ Shaped(NewFrame(prog.main, None))
      /\ NewFrame(prog.main, None).function = prog.main
  BY <1>1, NewFrameFits
<1>3. /\ stack = <<NewFrame(prog.main, None)>> /\ status = "dispatch"
      /\ current = prog.functions[prog.main].entry
  BY DEF Init
<1>4. /\ stack \in Seq(Frames) /\ Len(stack) = 1 /\ DOMAIN stack = {1}
      /\ stack[1] = NewFrame(prog.main, None) /\ Top = stack[1]
  BY <1>2, <1>3 DEF Top
<1>5. CallersReady /\ MainAtBottom /\ NoFault
  BY <1>2, <1>3, <1>4 DEF CallersReady, MainAtBottom, NoFault
<1> QED
  BY <1>1, <1>2, <1>3, <1>4, <1>5, VMAssumption DEF IInv, Statuses, ValidEntry

LEMMA StepKeeps == IInv /\ [Next]_vars => IInv'
<1> SUFFICES ASSUME IInv, [Next]_vars PROVE IInv'
  OBVIOUS
<1>1. CASE UNCHANGED vars
  BY <1>1 DEF IInv, vars, Top, Shaped, Declared, NoFault, CallersReady, MainAtBottom
<1>2. CASE Dispatch
  BY <1>2, DispatchKeeps
<1>3. CASE Instruction
  BY <1>3, InstructionKeeps
<1>4. CASE Terminator
  BY <1>4, GotoKeeps, BranchKeeps, CallKeeps, ReturnKeeps, ArrayLoadKeeps, ArrayStoreKeeps,
     AggregateLoadKeeps, AggregateStoreKeeps, HaltKeeps, AbortKeeps DEF Terminator
<1> QED
  BY <1>1, <1>2, <1>3, <1>4 DEF Next

(* What the runs check follows from the invariant. *)
LEMMA InvariantImplies == IInv => TypeOK /\ NoFault /\ CallersReady /\ DeclaredShape /\ MainAtBottom
BY DEF IInv, TypeOK, Shaped, Declared, DeclaredShape

LEMMA Invariant == Spec => []IInv
BY InitKeeps, StepKeeps, PTL DEF Spec

(* run() stays in the program: it dispatches continuations that exist, in  *)
(* frames of declared functions.                                           *)
THEOREM TypesHold == Spec => []TypeOK
BY Invariant, InvariantImplies, PTL

(* No lookup of run(), execute_instruction or execute_terminator fails on  *)
(* a program that ContinuationProgram::new accepted, for any program.      *)
THEOREM ValidatedDoesNotFault == Spec => []NoFault
BY Invariant, InvariantImplies, PTL

(* Terminator::Return finds a caller to return to, with room for the value. *)
THEOREM ReturnsFindTheirCaller == Spec => []CallersReady
BY Invariant, InvariantImplies, PTL

(* Terminator::Call leaves every aggregate of the callee as long as the    *)
(* callee declares it.                                                     *)
THEOREM FramesKeepTheirShape == Spec => []DeclaredShape
BY Invariant, InvariantImplies, PTL

(* Terminator::Halt ends a run only where no call is pending. *)
THEOREM HaltsInMain == Spec => []MainAtBottom
BY Invariant, InvariantImplies, PTL
=============================================================================
