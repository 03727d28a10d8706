------------------------------ MODULE AbiStack ------------------------------
(***************************************************************************)
(* The activation stack as the ABI code generator lays it out on the       *)
(* Brainfuck tape (backend/codegen/{control,transport,dispatch}.rs and     *)
(* ABI-rust.md).  The tape right of the statics is a row of chunks, each a *)
(* head cell followed by data lanes; head c is the allocation flag of      *)
(* chunk c, chunks 1-Group..0 are the anchor bank whose heads stay zero,   *)
(* and the live frames are the chunks 1..ctx.  Nothing stores the stack    *)
(* pointer: emitted code knows its frame only because the pointer stands   *)
(* on the context chunk, and after a visit to a global it finds it again   *)
(* by scanning the heads.                                                  *)
(*                                                                         *)
(* An action is a piece of emitted code between two points where control   *)
(* or navigation may go wrong: one frame instruction, one terminator, one  *)
(* argument of a call, one cell of a result, one half of a dispatcher      *)
(* cycle.                                                                  *)
(***************************************************************************)
EXTENDS AbiProgram, FiniteSets

CONSTANTS
    Group,      \* anchor_bank: 16 phase anchors, or 1 when the bank is disabled
    Capacity    \* last chunk of the tape (bound: a deeper call is not taken)

ASSUME TapeAssumption ==
    /\ Group \in Nat \ {0}
    /\ Capacity \in Nat
    /\ FrameChunks(Main) + Group <= Capacity

VARIABLES
    head,      \* chunk -> its head cell
    cell,      \* <<chunk, lane>> -> data cell
    globals,   \* static storage left of the anchor bank
    ctx,       \* chunk under the emitter's origin: the current context
    code,      \* continuation whose emitted body is being executed
    mode,      \* where in a dispatcher cycle the emitted code stands
    pending,   \* the call or return being executed
    frames     \* auxiliary: the functions of the live frames, bottom first,
               \* each with its context chunk; the tape does not store them

tape == <<head, cell, globals, ctx>>
vars == <<head, cell, globals, ctx, code, mode, pending, frames>>

Chunks  == (1 - Group) .. Capacity
Anchors == (1 - Group) .. 0
Cells   == Chunks \X Lanes

Modes == {"dispatch", "body", "args", "deliver", "cycle", "stopped"}

Idle == [kind |-> "none"]

F == Owner[code]

-----------------------------------------------------------------------------
(* emit_context_to_global: from the context head, `[<]` by Group chunks    *)
(* until a zero head, i strides away.                                      *)
ScansDown(c, i) ==
    /\ c - i * Group \in Anchors
    /\ head[c - i * Group] = 0
    /\ \A j \in 0 .. i - 1 : c - j * Group \in Chunks /\ head[c - j * Group] # 0

(* emit_global_to_context: from the phase anchor p that the breadcrumb     *)
(* marks, at least one stride up until a zero head, m strides away.        *)
ScansUp(p, m) ==
    /\ m >= 1
    /\ p + m * Group \in Chunks
    /\ head[p + m * Group] = 0
    /\ \A j \in 1 .. m - 1 : head[p + j * Group] # 0

(* Leaving the context chunk c for static storage and coming back puts the *)
(* pointer on chunk d: one stride below the free head the up-scan found.   *)
Returns(c, d) ==
    \E i \in 0 .. Capacity + Group, m \in 1 .. Capacity + Group :
        /\ ScansDown(c, i)
        /\ ScansUp(c - i * Group, m)
        /\ d = c - i * Group + (m - 1) * Group

Home(c) == CHOOSE d \in Chunks : Returns(c, d)

(* Context after a visit to location l. *)
Back(c, l) == IF l \in Globals THEN Home(c) ELSE c

At(c, l) == <<c - l[1], l[2]>>

Read(c, l) == IF l \in Globals THEN globals[l] ELSE cell[At(c, l)]

(* Store the values of w, a function on locations, with the origin at c.   *)
Written(c, w) ==
    [x \in Cells |-> LET l == <<c - x[1], x[2]>>
                     IN  IF l \in DOMAIN w THEN w[l] ELSE cell[x]]

WriteAll(c, w) ==
    /\ cell' = Written(c, w)
    /\ globals' = [g \in Globals |-> IF g \in DOMAIN w THEN w[g] ELSE globals[g]]
    /\ ctx' = c

(* Wrapping addition of two cells. *)
Plus(a, b) == (a + b) % CellBase

-----------------------------------------------------------------------------
(* initialize_main *)
Init ==
    /\ head = [c \in Chunks |-> IF c \in 1 .. FrameChunks(Main) THEN 1 ELSE 0]
    /\ ctx = FrameChunks(Main)
    /\ cell = [x \in Cells |-> IF x = <<ctx, Active>> THEN 1
                               ELSE IF x = <<ctx, Pc>> THEN Entry[Main] ELSE 0]
    /\ globals = [g \in Globals |-> 0]
    /\ code = Entry[Main]
    /\ mode = "dispatch"
    /\ pending = Idle
    /\ frames = <<[fn |-> Main, ctx |-> ctx]>>

(* Head of the dispatcher loop: Active gates it, and the case that PcLow   *)
(* and PcHigh select clears them and enters its body.  No case matches an  *)
(* unknown PC.                                                             *)
Dispatch ==
    /\ mode = "dispatch"
    /\ IF cell[<<ctx, Active>>] = 0
       THEN mode' = "stopped" /\ UNCHANGED <<cell, code>>
       ELSE /\ cell[<<ctx, Pc>>] \in Conts
            /\ code' = cell[<<ctx, Pc>>]
            /\ cell' = [cell EXCEPT ![<<ctx, Pc>>] = 0]
            /\ mode' = "body"
    /\ UNCHANGED <<head, globals, ctx, pending, frames>>

(* Tail of the dispatcher loop: NextPc is moved to Pc.  (Mutant: copied.) *)
AdvancedPc_Copied == [cell EXCEPT ![<<ctx, Pc>>] = cell[<<ctx, NextPc>>]]
AdvancedPc ==
    [cell EXCEPT ![<<ctx, Pc>>] = cell[<<ctx, NextPc>>], ![<<ctx, NextPc>>] = 0]

EndCycle ==
    /\ mode = "cycle"
    /\ cell' = AdvancedPc
    /\ mode' = "dispatch"
    /\ UNCHANGED <<head, globals, ctx, code, pending, frames>>

-----------------------------------------------------------------------------
(* set_location, AddConst, Input, the delivery of a comparison result *)
SetLocation(dst, v) ==
    /\ mode = "body"
    /\ WriteAll(Back(ctx, dst), [l \in {dst} |-> v])
    /\ UNCHANGED <<head, code, mode, pending, frames>>

(* copy_locations: clear Restore and dst, then move src into both of them  *)
(* and Restore back into src.                                              *)
CopyLocations(src, dst) ==
    LET restore == <<0, Restore>>
        c == Back(Back(ctx, dst), src)
    IN  /\ mode = "body"
        /\ src # dst
        /\ WriteAll(c, [l \in {dst, restore} |-> IF l = dst THEN Read(c, src) ELSE 0])
        /\ UNCHANGED <<head, code, mode, pending, frames>>

(* transfer: src counts down while dst gains factor per unit. *)
TransferLocation(src, dst, factor) ==
    LET c == Back(Back(ctx, dst), src)
    IN  /\ mode = "body"
        /\ src # dst
        /\ WriteAll(c, [l \in {src, dst} |->
                IF l = src THEN 0 ELSE Plus(Read(c, dst), factor * Read(c, src))])
        /\ UNCHANGED <<head, code, mode, pending, frames>>

BodyStep ==
    \E dst \in Locations(F) :
        \/ \E v \in Byte : SetLocation(dst, v)
        \/ \E src \in Locations(F) : CopyLocations(src, dst)
        \/ \E src \in Locations(F), factor \in Byte \ {0} :
                TransferLocation(src, dst, factor)

-----------------------------------------------------------------------------
(* Terminator::Goto: set_next_pc. *)
Goto(target) ==
    /\ mode = "body"
    /\ cell' = [cell EXCEPT ![<<ctx, NextPc>>] = target]
    /\ mode' = "cycle"
    /\ UNCHANGED <<head, globals, ctx, code, pending, frames>>

(* Terminator::Branch: NextPc is set to the else target first and to the   *)
(* then target inside the loop that consumes a nonzero condition.          *)
Branch(condition, then, else) ==
    LET c     == Back(ctx, condition)
        taken == Read(c, condition) # 0
        next  == <<0, NextPc>>
    IN  /\ mode = "body"
        /\ WriteAll(c, [l \in {condition, next} |->
                IF l = condition THEN 0 ELSE IF taken THEN then ELSE else])
        /\ mode' = "cycle"
        /\ UNCHANGED <<head, code, pending, frames>>

(* Terminator::Halt and Terminator::Abort. *)
Stop ==
    /\ mode = "body"
    /\ cell' = [cell EXCEPT ![<<ctx, Active>>] = 0]
    /\ mode' = "cycle"
    /\ UNCHANGED <<head, globals, ctx, code, pending, frames>>

-----------------------------------------------------------------------------
(* The frames on the tape, read as a stack of VM frames.                   *)
StackOnTape ==
    [i \in 1 .. Len(frames) |->
        LET f == frames[i].fn  c == frames[i].ctx
        IN  [fn    |-> f,
             store |-> [s \in Storage[f] |-> cell[At(c, s)]],
             value |-> cell[<<c, Value>>],
             ret   |-> IF i = 1 THEN 0 ELSE cell[<<c, ReturnPc>>]]]

(* Terminator::Call, emit_call_inner.  The arguments are copied into the   *)
(* future parameter region while the heads of the callee are still free:   *)
(* an argument in static storage is fetched by leaving the caller and      *)
(* coming back to it.  dead holds the positions whose source is local,     *)
(* read for the last time here and dead after the call: those are moved.   *)
BeginCall(g, args, ret, dead) ==
    /\ mode = "body"
    /\ ctx + FrameChunks(g) + Group <= Capacity
    /\ cell' = IF Params[g] = <<>> THEN cell ELSE [cell EXCEPT ![<<ctx, Restore>>] = 0]
    /\ mode' = "args"
    /\ pending' = [kind |-> "call", callee |-> g, args |-> args, ret |-> ret,
                   dead |-> dead, next |-> 1, parameters |-> {},
                   stack |-> StackOnTape, globals |-> globals]
    /\ UNCHANGED <<head, globals, ctx, code, frames>>

(* Content of the parameter cell before the argument is added to it: only  *)
(* the first write finds it zero.  (Mutant: a second write is not cleared  *)
(* for.)                                                                   *)
ParameterBase_NotCleared(c, dst) == Read(c, dst)
ParameterBase(c, dst) == IF dst \in pending.parameters THEN 0 ELSE Read(c, dst)

(* One argument: copy_locations_to_zeroed_destination, or                  *)
(* move_location_to_zero for a dead source.  Both add to the parameter     *)
(* cell, which the first write expects to be zero and a second one clears. *)
CopyArgument ==
    LET i       == pending.next
        src     == pending.args[i]
        param   == Params[pending.callee][i]
        dst     == <<param[1] - FrameChunks(pending.callee), param[2]>>
        restore == <<0, Restore>>
        c       == Back(ctx, src)
        v       == Read(c, src)
        old     == ParameterBase(c, dst)
    IN  /\ mode = "args"
        /\ i <= Len(Params[pending.callee])
        /\ WriteAll(c, [l \in {src, dst, restore} |->
                CASE l = dst     -> Plus(old, v)
                  [] l = restore -> IF i \in pending.dead THEN Read(c, restore) ELSE 0
                  [] l = src     -> IF i \in pending.dead THEN 0
                                    ELSE Plus(v, Read(c, restore))])
        /\ pending' = [pending EXCEPT !.next = @ + 1, !.parameters = @ \cup {dst}]
        /\ UNCHANGED <<head, code, mode, frames>>

(* Heads of chunks lo..hi set to v.  (Mutant: the lowest one is missed.) *)
HeadsSet_MissesFirst(lo, hi, v) ==
    [b \in Chunks |-> IF b \in lo + 1 .. hi THEN v ELSE head[b]]
HeadsSet(lo, hi, v) ==
    [b \in Chunks |-> IF b \in lo .. hi THEN v ELSE head[b]]

(* The ABI fields of a new context.  (Mutant: entry and return PC swapped.) *)
ContextField_Swapped(q, entry, ret) ==
    IF q = Active THEN 1
    ELSE IF q = NextPc THEN ret ELSE IF q = ReturnPc THEN entry ELSE 0
ContextField(q, entry, ret) ==
    IF q = Active THEN 1
    ELSE IF q = NextPc THEN entry ELSE IF q = ReturnPc THEN ret ELSE 0

(* All arguments copied: mark the heads from the frontier up, initialize   *)
(* the ABI fields of the new context, migrate to it.                       *)
EnterCallee ==
    LET g == pending.callee
        c == ctx + FrameChunks(g)
    IN  /\ mode = "args"
        /\ pending.next > Len(Params[g])
        /\ head' = HeadsSet(ctx + 1, c, 1)
        /\ cell' = [x \in Cells |-> IF x[1] = c
                                    THEN ContextField(x[2], Entry[g], pending.ret)
                                    ELSE cell[x]]
        /\ ctx' = c
        /\ frames' = Append(frames, [fn |-> g, ctx |-> c])
        /\ mode' = "cycle"
        /\ pending' = Idle
        /\ UNCHANGED <<globals, code>>

(* The last position that reads a source may consume it.  (Mutant: any.) *)
MayConsume_AnyUse(args) == {i \in DOMAIN args : args[i] \notin Globals}
MayConsume(args) ==
    {i \in DOMAIN args : args[i] \notin Globals
                         /\ \A j \in DOMAIN args : args[j] = args[i] => j <= i}

CallStep ==
    \E g \in {h \in Functions : MayCall(F, h)}, ret \in ContsOf(F) :
        \E args \in Arguments(F, g) :
            \E dead \in SUBSET MayConsume(args) : BeginCall(g, args, ret, dead)

-----------------------------------------------------------------------------
(* Terminator::Return, emit_return_inner, in the frame of F. *)
BeginReturn(result) ==
    /\ mode = "body"
    /\ F # Main
    /\ cell' = IF Result[F] = "aggregate" THEN [cell EXCEPT ![<<ctx, Restore>>] = 0]
               ELSE cell
    /\ mode' = "deliver"
    /\ pending' = [kind |-> "return", result |-> result, next |-> 1,
                   stack |-> StackOnTape, globals |-> globals]
    /\ UNCHANGED <<head, globals, ctx, code, frames>>

(* One cell of the result into the caller's AbiValue or outbox.  A local   *)
(* source is moved, the frame dies; a global one is copied back and, for a *)
(* cell result, staged in the callee's AbiValue.                           *)
DeliverCell ==
    LET i       == pending.next
        src     == pending.result[i]
        slot    == IF Result[F] = "cell" THEN AbiValue ELSE Outbox[i]
        dst     == <<slot[1] + FrameChunks(F), slot[2]>>
        spent   == IF src \notin Globals THEN src
                   ELSE IF Result[F] = "cell" THEN AbiValue ELSE <<0, Restore>>
        c       == Back(ctx, src)
    IN  /\ mode = "deliver"
        /\ i <= ResultLength(F)
        /\ WriteAll(c, [l \in {dst, spent} |-> IF l = dst THEN Read(c, src) ELSE 0])
        /\ pending' = [pending EXCEPT !.next = @ + 1]
        /\ UNCHANGED <<head, code, mode, frames>>

(* The chunks of a dying frame whose data is cleared, the caller's context *)
(* being c.  (Mutant: the context chunk only.)                             *)
Wiped_ContextOnly(c) == {ctx}
Wiped(c) == c + 1 .. ctx

(* Distance in chunks from a context to the caller's.  (Mutant: the frame  *)
(* without its context chunk.)                                             *)
CallerDelta_BodyOnly(f) == BodyChunks[f]
CallerDelta(f) == FrameChunks(f)

(* All cells delivered: the caller resumes at ReturnPc, the heads and the  *)
(* data of the whole frame are cleared, the caller's context is current.   *)
LeaveCallee ==
    LET c == ctx - CallerDelta(F)
    IN  /\ mode = "deliver"
        /\ pending.next > ResultLength(F)
        /\ head' = HeadsSet(c + 1, ctx, 0)
        /\ cell' = [x \in Cells |->
                IF x[1] \in Wiped(c) THEN 0
                ELSE IF x = <<c, NextPc>> THEN cell[<<ctx, ReturnPc>>]
                ELSE IF x = <<c, Value>> /\ Result[F] # "cell" THEN 0
                ELSE cell[x]]
        /\ ctx' = c
        /\ frames' = SubSeq(frames, 1, Len(frames) - 1)
        /\ mode' = "cycle"
        /\ pending' = Idle
        /\ UNCHANGED <<globals, code>>

ReturnStep == \E result \in Results(F) : BeginReturn(result)

-----------------------------------------------------------------------------
LocalControl ==
    \/ \E target \in ContsOf(F) : Goto(target)
    \/ \E condition \in Locations(F), then, else \in ContsOf(F) :
            Branch(condition, then, else)

(* The Brainfuck program has ended. *)
Finished == mode = "stopped" /\ UNCHANGED vars

Next ==
    \/ Dispatch \/ EndCycle
    \/ BodyStep \/ LocalControl \/ Stop
    \/ CallStep \/ CopyArgument \/ EnterCallee
    \/ ReturnStep \/ DeliverCell \/ LeaveCallee
    \/ Finished

(* No fairness: a program may run for ever, and nothing here promises that *)
(* it ends.  TLC looks for deadlock instead: emitted code is never stuck.  *)
Spec == Init /\ [][Next]_vars

-----------------------------------------------------------------------------
TypeOK ==
    /\ head \in [Chunks -> {0, 1}]
    /\ cell \in [Cells -> Nat]
    /\ globals \in [Globals -> Byte]
    /\ ctx \in Chunks
    /\ code \in Conts
    /\ mode \in Modes
    /\ \A i \in DOMAIN frames : frames[i].fn \in Functions /\ frames[i].ctx \in Chunks

(* The heads from the anchor to the current context are one and all others *)
(* are zero: the lane every scan relies on has no hole and no stray flag.  *)
(* (ABI-rust.md: allocated heads are contiguous, the frontier is zero.)    *)
FlagLane == \A c \in Chunks : head[c] = IF c \in 1 .. ctx THEN 1 ELSE 0

(* Code that visits a global comes back to the frame it left, and the scan *)
(* reaches the anchor bank, never a gap between two frames.                *)
NavigationReturns == Returns(ctx, ctx) /\ Home(ctx) = ctx

(* Beyond the current frame the tape is zero: a call that allocates there  *)
(* only marks heads.  While arguments are copied, only cells that were     *)
(* given a parameter differ.                                               *)
FreeTapeZero ==
    \A x \in Cells :
        x[1] > ctx /\ ~(mode = "args" /\ <<ctx - x[1], x[2]>> \in pending.parameters)
            => cell[x] = 0

(* The frames tile the allocated chunks, in the order of the calls. *)
FramesTile ==
    /\ frames[1] = [fn |-> Main, ctx |-> FrameChunks(Main)]
    /\ \A i \in 2 .. Len(frames) :
          /\ frames[i].fn # Main
          /\ frames[i].ctx = frames[i - 1].ctx + FrameChunks(frames[i].fn)
    /\ ctx = frames[Len(frames)].ctx

(* The emitted body that runs was compiled for the function whose frame is *)
(* under the pointer, and so is the continuation that will run next: the   *)
(* offsets baked into the code are those of this frame.  Every frame       *)
(* returns to a continuation of the function below it.                     *)
RunningCodeMatches ==
    LET mine == ContsOf(frames[Len(frames)].fn)
    IN  /\ mode \in {"body", "args", "deliver"} => code \in mine
        /\ mode = "cycle" /\ cell[<<ctx, Active>>] # 0 => cell[<<ctx, NextPc>>] \in mine
        /\ mode = "dispatch" /\ cell[<<ctx, Active>>] # 0 => cell[<<ctx, Pc>>] \in mine

ReturnPcsMatch ==
    \A i \in 2 .. Len(frames) :
        cell[<<frames[i].ctx, ReturnPc>>] \in ContsOf(frames[i - 1].fn)

CodeMatchesFrame == RunningCodeMatches /\ ReturnPcsMatch

(* A suspended frame waits with both its PCs zero and Active set: the      *)
(* return that wakes it needs to write nothing but NextPc.                 *)
SuspendedFramesWait ==
    \A i \in 1 .. Len(frames) - 1 :
        /\ cell[<<frames[i].ctx, Pc>>] = 0
        /\ cell[<<frames[i].ctx, NextPc>>] = 0
        /\ cell[<<frames[i].ctx, Active>>] = 1

-----------------------------------------------------------------------------
(* The VM state that the tape represents.  A call or a return takes effect *)
(* when the pointer has migrated; until then the state is the one the      *)
(* terminator found.                                                       *)
InTransit == pending # Idle

vmStack   == IF InTransit THEN pending.stack ELSE StackOnTape
vmGlobals == IF InTransit THEN pending.globals ELSE globals
vmRunning == cell[<<ctx, Active>>] = 1
vmCurrent ==
    IF vmRunning /\ mode = "cycle" THEN cell[<<ctx, NextPc>>]
    ELSE IF vmRunning /\ mode = "dispatch" THEN cell[<<ctx, Pc>>]
    ELSE code

VM == INSTANCE ActivationStack WITH
        stack <- vmStack, globals <- vmGlobals, current <- vmCurrent, running <- vmRunning

(* Calls, returns and memory accesses on the tape are those of the         *)
(* continuation VM: fresh frames are zero, arguments and results arrive,   *)
(* and nothing else of any frame or global changes.                        *)
ImplementsVM == VM!Spec
=============================================================================
