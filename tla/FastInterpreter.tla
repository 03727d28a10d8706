--------------------------- MODULE FastInterpreter ---------------------------
(***************************************************************************)
(* The fast interpreter (bf-interpreter/src/lib.rs, compare_loop.rs,       *)
(* remote_transfer.rs) next to the reference.  One action executes one     *)
(* instruction of the fast program; the reference then executes as many    *)
(* commands as the interpreter says it did.  Profiling, sampling and       *)
(* progress callbacks are left out.                                        *)
(***************************************************************************)
EXTENDS FastProgram

CONSTANTS
    Sources,     \* programs
    Inputs,      \* inputs
    Disabled,    \* sets of disabled optimizations
    Grows,       \* whether the tape is unbounded
    ScanBatch,   \* 1024 steps of a scan between two polls
    MaxRaw       \* bound on the commands executed; none in the code

VARIABLES
    source, input, grow, enabled,   \* what is run, and how
    code,      \* the commands of the reference
    control,   \* what the interpreter is in the middle of, innermost last
    vm,        \* its tape and measurements
    status,    \* "running", "done", or the error
    offset,    \* where the error is
    ref,       \* the reference
    goal       \* how many commands it has to execute

fixed == <<source, input, grow, enabled, code>>
vars == <<fixed, control, vm, status, offset, ref, goal>>

(* Frames of control: a block and the loops around it, the levels of a     *)
(* countdown around its leaf and tails.                                    *)
BlockFrame(body) == [kind |-> "block", code |-> body, at |-> 1, run |-> 0]
LoopFrame(body)  == [kind |-> "loop", code |-> body, at |-> 1, run |-> 0]
CountdownFrame(i) ==
    [kind |-> "countdown", levels |-> i.levels, leaf |-> i.leaf,
     remaining |-> Len(i.levels), reentry |-> FALSE, at |-> "descend", level |-> 0]

Init ==
    /\ source \in Sources /\ input \in Inputs /\ grow \in Grows
    /\ \E disabled \in Disabled : enabled = Enabled(disabled)
    /\ \E loaded \in {Loaded(source)}, parsed \in {Parsed(source, enabled)} :
           /\ control = <<BlockFrame(Program(parsed, enabled))>>
           /\ status = IF parsed.error = None THEN "running" ELSE parsed.error
           /\ offset = parsed.offset
           /\ code = loaded.code
           /\ ref = [Boot EXCEPT !.error = loaded.error, !.offset = loaded.offset]
    /\ vm = Start /\ goal = 0

-----------------------------------------------------------------------------
Frame == Last(control)
Here  == Frame.code[Frame.at]

(* The reference keeps up: as far as commands were counted, and on to the  *)
(* one that fails.                                                         *)
Behind == ref.error = None /\ ref.m.raw < goal /\ ref.pc <= Len(code)
Reference == Behind /\ ref' = Step(code, input, grow, ref) /\ UNCHANGED <<fixed, control, vm, status, offset, goal>>

Running == ~Behind /\ status = "running" /\ vm.raw < MaxRaw

At(kind) == Running /\ Frame.kind \in {"block", "loop"} /\ Frame.at <= Len(Frame.code) /\ Here.kind = kind

Counted(m, raw, rle) == [m EXCEPT !.raw = @ + raw, !.rle = @ + rle]

Goes(m, frames) ==
    /\ vm' = m /\ control' = frames /\ goal' = m.raw
    /\ UNCHANGED <<fixed, status, offset, ref>>

Fails(m, error, where, more) ==
    /\ vm' = m /\ status' = error /\ offset' = where /\ goal' = m.raw + more
    /\ UNCHANGED <<fixed, control, ref>>

Past      == [control EXCEPT ![Len(control)].at = @ + 1]
To(pc)    == [control EXCEPT ![Len(control)].at = pc]
Continue(m) == Goes(m, Past)
Enter(m, frame) == Goes(m, Append(Past, frame))

(* move_pointer: whether it is allowed, and the index of the command that  *)
(* fails.                                                                  *)
MoveAllowed(m, amount) ==
    IF amount > 0 THEN grow \/ m.pointer + amount < Size(m) ELSE -amount <= m.pointer
MovePointer(m, amount) ==
    LET to == m.pointer + amount IN
    IF to >= Size(m) THEN Moved(Grown(m, to + 1), to)
    ELSE IF amount > 0 THEN Moved(m, to) ELSE [m EXCEPT !.pointer = to]
FailIndex(m, amount) == IF amount > 0 THEN Size(m) - 1 - m.pointer ELSE m.pointer
FailKind(amount)     == IF amount > 0 THEN "overflow" ELSE "underflow"

Move ==
    /\ At("move")
    /\ LET m == Counted(vm, Total(Here.offsets), 1) IN
       IF MoveAllowed(vm, Here.amount) THEN Continue(MovePointer(m, Here.amount))
       ELSE Fails(m, FailKind(Here.amount), OffsetAt(Here.offsets, FailIndex(vm, Here.amount)), 0)

Add == At("add") /\ Continue(Put(Counted(vm, Here.count, 1), Plus(Cell(vm), Here.amount)))

Input  == At("input")  /\ Continue(Read(Counted(vm, 1, 1), input))
Output == At("output") /\ Continue(Write(Counted(vm, 1, 1)))

(* execute_raw_run: one command of the run; "run" are the commands behind. *)
RawRun ==
    /\ At("raw")
    /\ LET m == Counted(vm, 1, IF Here.starts /\ Frame.run = 0 THEN 1 ELSE 0)
           amount == IF Here.op = ">" THEN 1 ELSE -1
           rest == [control EXCEPT ![Len(control)] =
                       IF Frame.run + 1 = Here.count THEN [@ EXCEPT !.at = @ + 1, !.run = 0]
                       ELSE [@ EXCEPT !.run = @ + 1]]
       IN  CASE Here.op = "+" -> Goes(Put(m, Plus(Cell(m), 1)), rest)
             [] Here.op = "-" -> Goes(Put(m, Plus(Cell(m), -1)), rest)
             [] OTHER -> IF MoveAllowed(m, amount) THEN Goes(MovePointer(m, amount), rest)
                         ELSE Fails(m, FailKind(amount), Here.offset, 0)

(* The jumps of a flattened program.  (Mutant: a closing bracket goes back *)
(* to the opening one, which counts again.) *)
Open  == At("open") /\ LET m == Counted(vm, 1, 1) IN
             IF Cell(m) = 0 THEN Goes(m, To(Here.target)) ELSE Continue(m)
Close == At("close") /\ LET m == Counted(vm, 1, 1) IN
             IF Cell(m) # 0 THEN Goes(m, To(Here.target)) ELSE Continue(m)

-----------------------------------------------------------------------------
(* Loops.  execute_generic_loop: the condition counts before each pass.    *)
AtLoop(kind) == At("loop") /\ Here.opt.kind = kind
Generic ==
    LET m == Counted(vm, 1, 1) IN
    IF Cell(vm) = 0 THEN Continue(m) ELSE Enter(m, LoopFrame(Here.body))
GenericLoop == AtLoop("none") /\ Generic

EndOfPass ==
    /\ Running /\ Frame.kind = "loop" /\ Frame.at > Len(Frame.code)
    /\ LET m == Counted(vm, 1, 1) IN
       IF Cell(vm) # 0 THEN Goes(m, To(1)) ELSE Goes(m, Front(control))

EndOfBlock ==
    /\ Running /\ Frame.kind = "block" /\ Frame.at > Len(Frame.code)
    /\ IF Len(control) > 1
       THEN Goes(vm, Front(control))
       ELSE status' = "done" /\ UNCHANGED <<fixed, control, vm, offset, ref, goal>>

ClearLoop ==
    /\ AtLoop("clear")
    /\ LET o == Here.opt
           iterations == (Cell(vm) * o.factor) % Modulus
       IN  Continue(Put(Counted(vm, 1 + iterations * (o.raw + 1), 1 + iterations * (o.rle + 1)), 0))

(* Scan: batches within the tape, and one move when a batch is empty.      *)
(* Batch: as many steps as it may take before a zero.                      *)
Batch(m, amount) ==
    LET stride    == IF amount > 0 THEN amount ELSE -amount
        available == IF amount > 0 THEN (Size(m) - 1 - m.pointer) \div stride ELSE m.pointer \div stride
        limit     == IF available < ScanBatch THEN available ELSE ScanBatch
    IN  Min({k \in 0 .. limit : k = limit \/ m.tape[m.pointer + k * amount] = 0})

EnterScan ==
    /\ AtLoop("scan")
    /\ Enter(Counted(vm, 1, 1), [kind |-> "scan", amount |-> Here.opt.amount, offsets |-> Here.opt.offsets])

ScanBatches ==
    /\ Running /\ Frame.kind = "scan"
    /\ LET steps == Batch(vm, Frame.amount)
           taken == IF steps = 0 THEN 1 ELSE steps
           m == Counted(vm, taken * (Total(Frame.offsets) + 1), 2 * taken)
       IN  IF Cell(vm) = 0 THEN Goes(vm, Front(control))
           ELSE IF steps > 0 THEN Goes(Moved(m, m.pointer + steps * Frame.amount), control)
           ELSE IF MoveAllowed(vm, Frame.amount) THEN Goes(MovePointer(m, Frame.amount), control)
           ELSE Fails(vm, FailKind(Frame.amount), OffsetAt(Frame.offsets, FailIndex(vm, Frame.amount)),
                      Total(Frame.offsets))

(* Transfer: all passes at once, if every cell that is passed exists.      *)
(* (Mutant: the leftmost cell is not checked.)                             *)
Reachable_Right(o) == grow \/ vm.pointer + o.max < Size(vm)
Reachable(o) == vm.pointer + o.min >= 0 /\ (grow \/ vm.pointer + o.max < Size(vm))

Iterations(delta) == IF delta = 1 THEN Plus(-Cell(vm), 0) ELSE Cell(vm)

TransferLoop ==
    /\ AtLoop("transfer")
    /\ LET o == Here.opt
           n == Iterations(o.delta)
           m == Counted(vm, 1 + n * (o.raw + 1), 1 + n * (o.rle + 1))
           reached == vm.pointer + o.max
           grown == IF reached >= Size(m) THEN Grown(m, reached + 1) ELSE m
           Sum(c) == IF c - vm.pointer \in DOMAIN o.updates THEN o.updates[c - vm.pointer] * n ELSE 0
       IN  IF n = 0 THEN Continue(m)
           ELSE IF ~Reachable(o) THEN Generic
           ELSE Continue(Put([grown EXCEPT !.tape = [c \in DOMAIN @ |-> Plus(@[c], Sum(c))],
                                           !.max = IF reached > @ THEN reached ELSE @], 0))

-----------------------------------------------------------------------------
(* The comparison idioms: their cells must look as expected.  (Mutant: the *)
(* scratch cell is not looked at.)                                         *)
L == Cell(vm)
InTape(cell) == cell \in DOMAIN vm.tape
At3(k) == vm.tape[vm.pointer + k]
Paired2(a, b) == IF a < b THEN a ELSE b
Excess(a, b)  == IF a > b THEN a - b ELSE 0

CompareReady_Unchecked == InTape(vm.pointer + 3)
CompareReady == InTape(vm.pointer + 3) /\ At3(2) = 0 /\ At3(3) = 0

CompareLoop ==
    /\ AtLoop("compare")
    /\ IF L = 0 THEN Continue(Counted(vm, 1, 1))
       ELSE IF ~CompareReady THEN Generic
       ELSE LET right == At3(1)
                paired == Paired2(L, right)
                remainder == Excess(L, right)
                tail == IF remainder = 0 THEN 0 ELSE 1
                m == Counted(vm, 1 + 18 * paired + 19 * tail + 2 * remainder,
                                 1 + 14 * paired + 13 * tail + 2 * remainder)
            IN  Continue([m EXCEPT !.tape[vm.pointer] = 0,
                                   !.tape[vm.pointer + 1] = Excess(right, L),
                                   !.max = IF vm.pointer + 3 > @ THEN vm.pointer + 3 ELSE @])

SlideReady == InTape(vm.pointer + 3) /\ At3(1) = 1 /\ At3(2) = 0

SlideLoop ==
    /\ AtLoop("slide")
    /\ IF L = 0 THEN Continue(Counted(vm, 1, 1))
       ELSE IF ~SlideReady THEN Generic
       ELSE LET right == At3(3)
                paired == Paired2(L, right)
                greater == IF L > right THEN 1 ELSE 0
                m == Counted(vm, 1 + 11 * paired + 8 * greater, 1 + 8 * paired + 5 * greater)
            IN  Continue([m EXCEPT !.tape[vm.pointer] = Excess(L, right),
                                   !.tape[vm.pointer + 3] = Excess(right, L),
                                   !.tape[vm.pointer + 1] = 1 - greater,
                                   !.pointer = @ + greater,
                                   !.max = IF vm.pointer + 3 > @ THEN vm.pointer + 3 ELSE @])

-----------------------------------------------------------------------------
(* Remote transfers.  The probe walks the body once without writing: the   *)
(* cells it would add to, the cells its scans look at, the counts.         *)
ScanEnd(pointer, amount) ==
    LET f[p \in Int] == IF p \notin DOMAIN vm.tape THEN None
                        ELSE IF vm.tape[p] = 0 THEN p ELSE f[p + amount]
    IN  f[pointer]

Seen(start, end, amount) ==
    LET low == IF start < end THEN start ELSE end  high == IF start < end THEN end ELSE start
    IN  {c \in low .. high : (c - start) % (IF amount > 0 THEN amount ELSE -amount) = 0}

Probed(body) ==
    FoldLeft(LAMBDA p, i :
        IF ~p.ok THEN p
        ELSE CASE i.kind = "add" ->
                  [p EXCEPT !.adds = Append(@, <<p.pointer, i.amount>>),
                            !.raw = @ + i.count, !.rle = @ + 1]
             [] i.kind = "move" ->
                  LET to == p.pointer + i.amount IN
                  IF ~InTape(to) THEN [p EXCEPT !.ok = FALSE]
                  ELSE [p EXCEPT !.pointer = to, !.max = IF to > @ THEN to ELSE @,
                                 !.raw = @ + Total(i.offsets), !.rle = @ + 1]
             [] OTHER ->
                  LET end == ScanEnd(p.pointer, i.opt.amount)
                      distance == IF end > p.pointer THEN end - p.pointer ELSE p.pointer - end
                      steps == distance \div (IF i.opt.amount > 0 THEN i.opt.amount ELSE -i.opt.amount)
                  IN  IF end = None THEN [p EXCEPT !.ok = FALSE]
                      ELSE [p EXCEPT !.pointer = end, !.max = IF end > @ THEN end ELSE @,
                                     !.seen = @ \cup Seen(p.pointer, end, i.opt.amount),
                                     !.raw = @ + 1 + steps * (Total(i.opt.offsets) + 1),
                                     !.rle = @ + 1 + 2 * steps],
        [ok |-> TRUE, pointer |-> vm.pointer, max |-> vm.pointer, adds |-> <<>>, seen |-> {},
         raw |-> 0, rle |-> 0], body)

Added(adds, cell) == FoldLeft(LAMBDA sum, a : IF a[1] = cell THEN Plus(sum, a[2]) ELSE sum, 0, adds)

(* The route is the same in every pass: it returns, and no cell that steers *)
(* it is written.  (Mutant: cells that a scan ends at may be written.)      *)
Invariable_Endpoints(p) ==
    p.ok /\ p.pointer = vm.pointer
    /\ \A i \in DOMAIN p.adds : p.adds[i][2] # 0 => p.adds[i][1] \notin {c \in p.seen : vm.tape[c] # 0}
Invariable(p) ==
    p.ok /\ p.pointer = vm.pointer
    /\ \A i \in DOMAIN p.adds : p.adds[i][2] # 0 => p.adds[i][1] \notin p.seen

RemoteTransferLoop ==
    /\ AtLoop("remote")
    /\ LET p == Probed(Here.body)
           delta == Added(p.adds, vm.pointer)
           n == Iterations(delta)
       IN  IF L = 0 THEN Continue(Counted(vm, 1, 1))
           ELSE IF ~Invariable(p) \/ delta \notin {1, Modulus - 1} THEN Generic
           ELSE Continue([Counted(vm, 1 + n * (p.raw + 1), 1 + n * (p.rle + 1)) EXCEPT
                             !.tape = [c \in DOMAIN @ |-> Plus(@[c], Added(p.adds, c) * n)],
                             !.max = IF p.max > @ THEN p.max ELSE @])

-----------------------------------------------------------------------------
(* execute_countdown: down to the first level whose condition is zero, and *)
(* out again through the tails; a tail may start another descent.          *)
EnterCountdown ==
    /\ At("countdown")
    /\ Goes(vm, Append(Past, CountdownFrame(Here)))

AtLevel(where) == Running /\ Frame.kind = "countdown" /\ Frame.at = where
Become(frame) == [control EXCEPT ![Len(control)] = frame]

(* The opening brackets that count.  (Mutant: also on reentry.)            *)
Opens_Again(entered, skipped, reentry) == entered + (IF skipped # 0 THEN 1 ELSE 0)
Opens(entered, skipped, reentry) ==
    entered + (IF skipped # 0 THEN 1 ELSE 0) - (IF reentry THEN 1 ELSE 0)

Descend ==
    /\ AtLevel("descend")
    /\ LET f == Frame
           entered == IF L < f.remaining THEN L ELSE f.remaining
           skipped == f.remaining - entered
           decrements == f.levels[f.remaining].prefix - (IF skipped = 0 THEN 0 ELSE f.levels[skipped].prefix)
           opens == Opens(entered, skipped, f.reentry)
           m == Put(Counted(vm, decrements + opens, entered + opens), L - entered)
           tails == Become([f EXCEPT !.at = "tail", !.level = skipped])
       IN  Goes(m, IF skipped = 0 THEN Append(tails, BlockFrame(<<f.leaf>>)) ELSE tails)

RunTail ==
    /\ AtLevel("tail")
    /\ LET f == Frame IN
       IF f.level = Len(f.levels) THEN Goes(vm, Front(control))
       ELSE Goes(vm, Append(Become([f EXCEPT !.at = "condition"]), BlockFrame(f.levels[f.level + 1].tail)))

Condition ==
    /\ AtLevel("condition")
    /\ LET f == Frame  m == Counted(vm, 1, 1) IN
       Goes(m, Become(IF L # 0
                      THEN [f EXCEPT !.at = "descend", !.remaining = f.level + 1, !.reentry = TRUE]
                      ELSE [f EXCEPT !.at = "tail", !.level = @ + 1]))

Next ==
    \/ Move \/ Add \/ Input \/ Output \/ RawRun \/ Open \/ Close
    \/ GenericLoop \/ EndOfPass \/ EndOfBlock
    \/ ClearLoop \/ EnterScan \/ ScanBatches \/ TransferLoop
    \/ CompareLoop \/ SlideLoop \/ RemoteTransferLoop
    \/ EnterCountdown \/ Descend \/ RunTail \/ Condition
    \/ Reference

Spec == Init /\ [][Next]_vars

-----------------------------------------------------------------------------
(* "executed_instructions and executed_rle_instructions retain the exact   *)
(* counts of the unoptimized bytecode execution" (lib.rs), and so do the   *)
(* tape, the pointer, its maximum, the input and the output: after every   *)
(* instruction the interpreter is where the reference is after as many     *)
(* commands.                                                               *)
AsReference ==
    ~Behind /\ status \in {"running", "done"} =>
        /\ ref.error = None
        /\ LET size == IF Size(vm) > Size(ref.m) THEN Size(vm) ELSE Size(ref.m) IN
           Grown(vm, size) = Grown(ref.m, size)
        /\ status = "done" => ref.pc = Len(code) + 1

(* An error is the reference's error, at the same command of the source,   *)
(* also in the middle of a run or of a scan, and for brackets.             *)
SameError ==
    ~Behind /\ status \notin {"running", "done"} => ref.error = status /\ ref.offset = offset
=============================================================================
