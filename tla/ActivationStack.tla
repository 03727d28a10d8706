--------------------------- MODULE ActivationStack ---------------------------
(***************************************************************************)
(* What an activation promises the program, as the continuation VM gives   *)
(* it (crates/bf-compiler/src/cir/vm/mod.rs): a stack of frames with cells *)
(* of their own, zeroed on entry; arguments read before the frame exists;  *)
(* a result delivered to the caller's AbiValue or outbox; nothing else of  *)
(* the caller touched.  AbiStack shows that frames laid out on a           *)
(* Brainfuck tape keep this promise.                                       *)
(*                                                                         *)
(* One weakening over the VM, and only one: the code generator may consume *)
(* a call argument that is dead after the call, so a call may leave any    *)
(* value in the caller's cells it names as dead.                           *)
(***************************************************************************)
EXTENDS AbiProgram

VARIABLES
    stack,     \* Machine::stack, bottom frame first
    globals,   \* Machine::globals
    current,   \* Machine::current
    running    \* FALSE once Halt or Abort was executed

vars == <<stack, globals, current, running>>

NewFrame(f, ret) ==
    [fn |-> f, store |-> [s \in Storage[f] |-> 0], value |-> 0, ret |-> ret]

Init ==
    /\ stack = <<NewFrame(Main, 0)>>
    /\ globals = [g \in Globals |-> 0]
    /\ current = Entry[Main]
    /\ running = TRUE

Top == stack[Len(stack)]
Fn  == Top.fn

(* read_address and write_address; a write set w maps locations to values. *)
Read(l) ==
    IF l \in Globals THEN globals[l]
    ELSE IF l = AbiValue THEN Top.value ELSE Top.store[l]

Overwrite(old, w) == [l \in DOMAIN old |-> IF l \in DOMAIN w THEN w[l] ELSE old[l]]

WithWrites(frame, w) ==
    [frame EXCEPT !.store = Overwrite(frame.store, w),
                  !.value = IF AbiValue \in DOMAIN w THEN w[AbiValue] ELSE @]

WriteAll(w) ==
    /\ stack' = [stack EXCEPT ![Len(stack)] = WithWrites(@, w)]
    /\ globals' = Overwrite(globals, w)

-----------------------------------------------------------------------------
(* Frame instructions.  Set stands for every instruction that stores a     *)
(* byte computed without the stack: Set, AddConst, Input, Compare results. *)
Set(dst, v) ==
    /\ running
    /\ WriteAll([l \in {dst} |-> v])
    /\ UNCHANGED <<current, running>>

Copy(src, dst) ==
    /\ running
    /\ WriteAll([l \in {dst} |-> Read(src)])
    /\ UNCHANGED <<current, running>>

Transfer(src, dst, factor) ==
    /\ running
    /\ src # dst
    /\ WriteAll([l \in {src, dst} |->
                    IF l = src THEN 0 ELSE (Read(dst) + factor * Read(src)) % CellBase])
    /\ UNCHANGED <<current, running>>

-----------------------------------------------------------------------------
(* Terminators *)
Goto(target) ==
    /\ running
    /\ current' = target
    /\ UNCHANGED <<stack, globals, running>>

Branch(condition, then, else) ==
    /\ running
    /\ current' = IF Read(condition) # 0 THEN then ELSE else
    /\ WriteAll([l \in {condition} |-> 0])
    /\ UNCHANGED running

(* Parameters are stored left to right: of two arguments for one cell the  *)
(* later one stays.                                                        *)
Bound(g, args) ==
    [s \in Storage[g] |->
        LET hits == {i \in 1 .. Len(Params[g]) : Params[g][i] = s}
        IN  IF hits = {} THEN 0
            ELSE Read(args[CHOOSE i \in hits : \A j \in hits : j <= i])]

Call(g, args, ret, dead) ==
    /\ running
    /\ \E lost \in [dead -> Byte] :
         stack' = Append([stack EXCEPT ![Len(stack)] = WithWrites(@, lost)],
                         [NewFrame(g, ret) EXCEPT !.store = Bound(g, args)])
    /\ current' = Entry[g]
    /\ UNCHANGED <<globals, running>>

Delivered(caller, f, result) ==
    CASE Result[f] = "void" -> [caller EXCEPT !.value = 0]
      [] Result[f] = "cell" -> [caller EXCEPT !.value = Read(result[1])]
      [] Result[f] = "aggregate" ->
            [caller EXCEPT
                !.store = [s \in DOMAIN caller.store |->
                    IF \E i \in DOMAIN result : Outbox[i] = s
                    THEN Read(result[CHOOSE i \in DOMAIN result : Outbox[i] = s])
                    ELSE caller.store[s]],
                !.value = 0]

Return(result) ==
    /\ running
    /\ Len(stack) > 1
    /\ LET n == Len(stack) - 1
       IN  stack' = [SubSeq(stack, 1, n) EXCEPT ![n] = Delivered(@, Fn, result)]
    /\ current' = Top.ret
    /\ UNCHANGED <<globals, running>>

(* Halt and Abort: the VM stops where it is. *)
Stop ==
    /\ running
    /\ running' = FALSE
    /\ UNCHANGED <<stack, globals, current>>

-----------------------------------------------------------------------------
BodyStep ==
    \E dst \in Locations(Fn) :
        \/ \E v \in Byte : Set(dst, v)
        \/ \E src \in Locations(Fn) : Copy(src, dst)
        \/ \E src \in Locations(Fn), factor \in Byte \ {0} : Transfer(src, dst, factor)

LocalControl ==
    \/ \E target \in ContsOf(Fn) : Goto(target)
    \/ \E condition \in Locations(Fn), then, else \in ContsOf(Fn) :
            Branch(condition, then, else)

CallStep ==
    \E g \in {h \in Functions : MayCall(Fn, h)}, ret \in ContsOf(Fn) :
        \E args \in Arguments(Fn, g) :
            \E dead \in SUBSET {args[i] : i \in DOMAIN args} :
                /\ dead \cap Globals = {}
                /\ Call(g, args, ret, dead)

ReturnStep == Fn # Main /\ \E result \in Results(Fn) : Return(result)

Next == BodyStep \/ LocalControl \/ CallStep \/ ReturnStep \/ Stop

Spec == Init /\ [][Next]_vars

-----------------------------------------------------------------------------
(* The code that runs belongs to the frame on top, and every frame but the *)
(* bottom one returns into the frame below it: the check at the head of    *)
(* Machine::run and the "main function attempted to return" error of       *)
(* Terminator::Return are unreachable.                                     *)
ReturnChain ==
    /\ Owner[current] = Fn
    /\ stack[1].fn = Main /\ stack[1].ret = 0
    /\ \A i \in 2 .. Len(stack) :
          /\ stack[i].fn # Main
          /\ stack[i].ret \in ContsOf(stack[i - 1].fn)
=============================================================================
