----------------------------- MODULE BfOptimizer -----------------------------
(***************************************************************************)
(* Brainfuck-shaped instructions with their profile sites and how they are *)
(* written as a source (bf/ir.rs), the peephole optimizer of the generated *)
(* program (bf/optimizer.rs), and the two programs side by side, a command *)
(* each, on the reference machine until both have stopped.                 *)
(***************************************************************************)
EXTENDS BfMachine

CONSTANTS
    Parent,      \* the parent of every profile site, None for the root
    Programs,    \* instruction sequences
    Inputs,      \* inputs
    MaxMove,     \* isize::MAX
    MaxOutput    \* bound on the output; none in the code

-----------------------------------------------------------------------------
(* An instruction that does not need its amount has amount 0, one that is  *)
(* no loop has an empty body.                                              *)
Instruction(op, amount, body, site) == [op |-> op, amount |-> amount, body |-> body, site |-> site]

(* lowest_common_ancestor.  (Mutant: it looks no further than the parent.) *)
RECURSIVE Ancestors(_)
Ancestors(site) == IF site = None THEN <<>> ELSE <<site>> \o Ancestors(Parent[site])

Root == CHOOSE site \in DOMAIN Parent : Parent[site] = None

LowestCommonAncestor_Parents(left, right) ==
    IF left = right THEN left
    ELSE IF Parent[left] = Parent[right] THEN Parent[left] ELSE Root
LowestCommonAncestor(left, right) ==
    LET above == ToSet(Ancestors(left)) IN SelectSeq(Ancestors(right), LAMBDA site : site \in above)[1]

-----------------------------------------------------------------------------
(* Serialization.  An addition is written with the fewer of the two        *)
(* commands.                                                               *)
AddRun(value) ==
    IF value <= Modulus \div 2 THEN [op |-> "+", count |-> value]
    ELSE [op |-> "-", count |-> Modulus - value]
MoveRun(amount) ==
    IF amount < 0 THEN [op |-> "<", count |-> -amount] ELSE [op |-> ">", count |-> amount]

(* write_instructions, write_compact: the runs, each with its site.        *)
RECURSIVE Written(_)
Written(instructions) ==
    LET At(run, site) == <<[op |-> run.op, count |-> run.count, site |-> site]>>
        One(op, site) == At([op |-> op, count |-> 1], site)
        Of(i) ==
            CASE i.op = "move"   -> At(MoveRun(i.amount), i.site)
              [] i.op = "add"    -> At(AddRun(i.amount), i.site)
              [] i.op = "input"  -> One(",", i.site)
              [] i.op = "output" -> One(".", i.site)
              [] i.op = "loop"   -> One("[", i.site) \o Written(i.body) \o One("]", i.site)
    IN  SelectSeq(FlattenSeq([k \in DOMAIN instructions |-> Of(instructions[k])]),
                  LAMBDA run : run.count # 0)

Source(instructions, compressed) ==
    LET runs == Written(instructions) IN
    [compressed |-> compressed,
     runs |-> [k \in DOMAIN runs |-> [op |-> runs[k].op, count |-> runs[k].count]]]

(* The profile ranges over the expanded commands: write_annotated_compact  *)
(* emits a run at once, write_annotated a command at a time.               *)
Emit(ranges, count, site) ==
    LET end == IF ranges = <<>> THEN 0 ELSE Last(ranges).end IN
    IF ranges # <<>> /\ Last(ranges).site = site
    THEN [ranges EXCEPT ![Len(ranges)].end = @ + count]
    ELSE Append(ranges, [start |-> end, end |-> end + count, site |-> site])

(* (Mutant: a run that continues a range counts once.)                     *)
CompactRanges_Once(instructions) ==
    FoldLeft(LAMBDA ranges, run :
                 Emit(ranges, IF ranges # <<>> /\ Last(ranges).site = run.site THEN 1 ELSE run.count, run.site),
             <<>>, Written(instructions))
CompactRanges(instructions) ==
    FoldLeft(LAMBDA ranges, run : Emit(ranges, run.count, run.site), <<>>, Written(instructions))

PlainRanges(instructions) ==
    LET each == FlattenSeq([k \in DOMAIN Written(instructions) |->
                    [n \in 1 .. Written(instructions)[k].count |-> Written(instructions)[k].site]])
    IN  FoldLeft(LAMBDA ranges, site : Emit(ranges, 1, site), <<>>, each)

-----------------------------------------------------------------------------
(* The optimizer. *)
(* What is pushed remembers the sites of what it was merged from.          *)
Fresh(i) == [op |-> i.op, amount |-> i.amount, body |-> i.body, site |-> i.site, from |-> {i.site}]

Ends(output, op) == output # <<>> /\ Last(output).op = op

(* merge_site. *)
MergeSite(left, right) == LowestCommonAncestor(left, right)

Merge(output, i, amount) ==
    IF amount = 0 THEN Front(output)
    ELSE [output EXCEPT ![Len(output)] =
             [@ EXCEPT !.amount = amount, !.site = MergeSite(@, i.site), !.from = @ \cup {i.site}]]

PushMove(output, i) ==
    LET combined == IF Ends(output, "move") THEN Last(output).amount + i.amount ELSE 0
        fits == -MaxMove - 1 <= combined /\ combined <= MaxMove
    IN  CASE i.amount = 0 -> output
          [] i.amount # 0 /\ Ends(output, "move") /\ fits -> Merge(output, i, combined)
          [] OTHER -> Append(output, Fresh(i))

(* (Mutant: the sum is not reduced.)                                       *)
PushAdd_Wide(output, i) ==
    CASE i.amount = 0 -> output
      [] i.amount # 0 /\ Ends(output, "add") -> Merge(output, i, Last(output).amount + i.amount)
      [] OTHER -> Append(output, Fresh(i))
PushAdd(output, i) ==
    CASE i.amount = 0 -> output
      [] i.amount # 0 /\ Ends(output, "add") -> Merge(output, i, Plus(Last(output).amount, i.amount))
      [] OTHER -> Append(output, Fresh(i))

(* A loop over one odd addition ends for every cell.  (Mutant: over any    *)
(* addition.)                                                              *)
IsClearBody_Even(body) == Len(body) = 1 /\ body[1].op = "add"
IsClearBody(body) == Len(body) = 1 /\ body[1].op = "add" /\ body[1].amount % 2 = 1
IsClear(i) == i.op = "loop" /\ IsClearBody(i.body)

(* What stays when the last instructions that are dropped are popped.      *)
Without(output, Dropped(_)) == SubSeq(output, 1, Max({0} \cup {k \in DOMAIN output : ~Dropped(output[k])}))

IsAdd(i) == i.op = "add"

PushClear(output, site) ==
    LET rest == Without(output, IsAdd)
        one  == [Fresh(Instruction("add", Modulus - 1, <<>>, site)) EXCEPT !.from = {site}]
    IN  IF rest # <<>> /\ IsClear(Last(rest)) THEN rest
        ELSE Append(rest, Fresh(Instruction("loop", 0, <<one>>, site)))

(* Input overwrites the cell.  (Mutant: whatever loop comes before it.)    *)
Overwritten_Loops(i) == IsAdd(i) \/ i.op = "loop"
Overwritten(i) == IsAdd(i) \/ IsClear(i)

RECURSIVE Optimized(_)
Optimized(instructions) ==
    LET Push(output, i) ==
            CASE i.op = "move"   -> PushMove(output, i)
              [] i.op = "add"    -> PushAdd(output, i)
              [] i.op = "input"  -> Append(Without(output, Overwritten), Fresh(i))
              [] i.op = "output" -> Append(output, Fresh(i))
              [] i.op = "loop"   ->
                     LET body == Optimized(i.body) IN
                     IF IsClearBody(body) THEN PushClear(output, i.site)
                     ELSE Append(output, Fresh([i EXCEPT !.body = body]))
    IN  FoldLeft(Push, <<>>, instructions)

-----------------------------------------------------------------------------
VARIABLES
    program,    \* the program
    result,     \* the program optimized
    input,      \* the input of both
    code,       \* the commands of the two
    before,     \* the machine that runs the program
    after       \* the machine that runs the result

vars == <<program, result, input, code, before, after>>

Init ==
    /\ program \in Programs /\ input \in Inputs
    /\ result \in {Optimized(program)}
    /\ \E p \in {Loaded(Source(program, FALSE)).code}, q \in {Loaded(Source(result, TRUE)).code} :
          code = [before |-> p, after |-> q]
    /\ before = Boot /\ after = Boot

Ended(commands, r) == r.pc > Len(commands) \/ r.error # None
Stopped(commands, r) == Ended(commands, r) \/ Len(r.m.output) = MaxOutput

(* The measurements are left out, so that endless loops are cycles.        *)
Run(commands, r) ==
    [Step(commands, input, FALSE, r) EXCEPT
        !.last = None,
        !.m = [@ EXCEPT !.raw = 0, !.rle = 0, !.max = 0,
                        !.consumed = IF @ > Len(input) THEN Len(input) ELSE @]]

Paced(commands, r) == IF Stopped(commands, r) THEN r ELSE Run(commands, r)

Advance ==
    /\ ~(Stopped(code.before, before) /\ Stopped(code.after, after))
    /\ before' = Paced(code.before, before)
    /\ after' = Paced(code.after, after)
    /\ UNCHANGED <<program, result, input, code>>

Next == Advance

Spec == Init /\ [][Next]_vars /\ WF_vars(Next)

-----------------------------------------------------------------------------
InTape == before.error = None

RECURSIVE Instructions(_)
Instructions(instructions) ==
    \A k \in DOMAIN instructions :
        LET i == instructions[k] IN
        /\ i.site \in DOMAIN Parent
        /\ i.amount \in IF i.op = "move" THEN -MaxMove - 1 .. MaxMove ELSE Byte
        /\ Instructions(i.body)

(* "without changing its input/output behavior", "this assumes that the    *)
(* unoptimized execution does not cross a tape boundary" (optimize_bf):    *)
(* one output begins with the other, at any time, and in the end they have *)
(* left the same tape, pointer and rest of the input.                      *)
SameRun ==
    InTape =>
        /\ IsPrefix(before.m.output, after.m.output) \/ IsPrefix(after.m.output, before.m.output)
        /\ Ended(code.before, before) /\ Ended(code.after, after) =>
               after.m = before.m /\ after.error = None

(* Neither runs on when the other has come to its end: no loop that may    *)
(* run forever is taken for a clear, and none becomes one that does.       *)
EndsAlike ==
    /\ (Stopped(code.before, before) /\ InTape) ~> Stopped(code.after, after)
    /\ Stopped(code.after, after) ~> Stopped(code.before, before)

(* The amounts of the result fit their fields, and "merged operations from *)
(* different sites are attributed to their lowest common ancestor"         *)
(* (optimize_annotated_bf), over any number of merges.                     *)
RECURSIVE Attributed(_)
Attributed(instructions) ==
    \A k \in DOMAIN instructions :
        LET i == instructions[k]
            common == {s \in DOMAIN Parent : \A f \in i.from : s \in ToSet(Ancestors(f))}
        IN  /\ i.site \in common
            /\ common \subseteq ToSet(Ancestors(i.site))
            /\ Attributed(i.body)
WellAnnotated == before = Boot /\ after = Boot => Instructions(result) /\ Attributed(result)

(* The ranges of both encodings are the same, and cover the commands that  *)
(* a reader of either source sees.                                         *)
RangesCover ==
    before = Boot /\ after = Boot =>
        \A p \in {program, result} :
            LET ranges == CompactRanges(p)
                Ops(compressed) == LET c == Decoded(Source(p, compressed)) IN [k \in DOMAIN c |-> c[k].op]
            IN  /\ ranges = PlainRanges(p)
                /\ Ops(TRUE) = Ops(FALSE)
                /\ Len(Ops(TRUE)) = IF ranges = <<>> THEN 0 ELSE Last(ranges).end
=============================================================================
