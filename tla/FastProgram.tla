----------------------------- MODULE FastProgram -----------------------------
(***************************************************************************)
(* The fast representation of a source (parse_optimized_with_options,      *)
(* bf-interpreter/src/lib.rs): runs merged into instructions, loops        *)
(* recognised as clears, scans, transfers and comparisons, nests of loops  *)
(* that count down folded into one instruction.  Profile maps are left     *)
(* out, so every instruction has the same site; the arena is left out,     *)
(* so a body is the sequence of its instructions.                          *)
(***************************************************************************)
EXTENDS BfMachine, FiniteSetsExt

CONSTANT MaxBody   \* MAX_BODY of remote transfers

(* Optimizations::from: what remains enabled.  "compare" is the option for *)
(* both comparison idioms, "compare" and "slide".                          *)
Enabled(disabled) ==
    LET on(names) == names \cap disabled = {} IN
    {o \in {"rle", "clear", "scan", "transfer", "countdown", "remote", "compare", "slide"} :
        CASE o = "rle"       -> on({"rle"})
          [] o = "clear"     -> on({"rle", "clear"})
          [] o = "scan"      -> on({"rle", "scan"})
          [] o = "transfer"  -> on({"rle", "transfer"})
          [] o = "countdown" -> on({"rle", "countdown"})
          [] o = "remote"    -> on({"rle", "scan", "transfer", "remote"})
          [] o = "compare"   -> on({"rle", "clear", "compare"})
          [] o = "slide"     -> on({"rle", "compare"})}

-----------------------------------------------------------------------------
(* SourceOffsets: the offsets of the commands of a move, in ranges.        *)
OffsetRange(start, len, repeated) == [start |-> start, len |-> len, repeated |-> repeated]

PushContiguous(ranges, offset, count) ==
    IF ranges # <<>> /\ ~Last(ranges).repeated /\ Last(ranges).start + Last(ranges).len = offset
    THEN [ranges EXCEPT ![Len(ranges)].len = @ + count]
    ELSE Append(ranges, OffsetRange(offset, count, FALSE))

PushRepeated(ranges, offset, count) == Append(ranges, OffsetRange(offset, count, TRUE))

Total(ranges) == FoldLeft(LAMBDA sum, range : sum + range.len, 0, ranges)

(* get: the offset of the command with the given index, from 0.  (Mutant:  *)
(* the commands of an encoded run at consecutive offsets.)                 *)
OffsetAt_Spread(ranges, index) ==
    LET before(k) == Total(SubSeq(ranges, 1, k - 1))
        k == CHOOSE k \in DOMAIN ranges : before(k) <= index /\ index < before(k) + ranges[k].len
    IN  ranges[k].start + index - before(k)
OffsetAt(ranges, index) ==
    LET before(k) == Total(SubSeq(ranges, 1, k - 1))
        k == CHOOSE k \in DOMAIN ranges : before(k) <= index /\ index < before(k) + ranges[k].len
    IN  ranges[k].start + (IF ranges[k].repeated THEN 0 ELSE index - before(k))

-----------------------------------------------------------------------------
(* FastBlock: the instructions so far, the command that the last one       *)
(* merges with, and where the block was opened.                            *)
Block(offset) == [code |-> <<>>, last |-> None, opened |-> offset]

Merges(block, op, kind) == block.last = op /\ block.code # <<>> /\ Last(block.code).kind = kind

PushMove(block, op, offset, count, compressed) ==
    LET amount == IF op = ">" THEN count ELSE -count
        Push(ranges) == IF compressed THEN PushRepeated(ranges, offset, count)
                                      ELSE PushContiguous(ranges, offset, count)
    IN  IF Merges(block, op, "move")
        THEN [block EXCEPT !.code[Len(block.code)] =
                 [@ EXCEPT !.amount = @ + amount, !.offsets = Push(@)]]
        ELSE [block EXCEPT !.code = Append(@, [kind |-> "move", amount |-> amount, offsets |-> Push(<<>>)]),
                           !.last = op]

PushAdd(block, op, count) ==
    LET amount == Plus(IF op = "+" THEN count ELSE -count, 0)
    IN  IF Merges(block, op, "add")
        THEN [block EXCEPT !.code[Len(block.code)] =
                 [@ EXCEPT !.amount = Plus(@, amount), !.count = @ + count]]
        ELSE [block EXCEPT !.code = Append(@, [kind |-> "add", amount |-> amount, count |-> count]),
                           !.last = op]

(* Without run lengths commands stay apart, but counted as if they merged. *)
PushRaw(block, op, offset, count) ==
    [block EXCEPT !.code = Append(@, [kind |-> "raw", op |-> op, offset |-> offset, count |-> count,
                                      starts |-> block.last # op]),
                  !.last = op]

Push(block, instruction) == [block EXCEPT !.code = Append(@, instruction), !.last = None]

-----------------------------------------------------------------------------
(* compare_loop.rs: the bodies of the two comparison idioms.               *)
IsMove(i, amount) == i.kind = "move" /\ i.amount = amount /\ Total(i.offsets) = IF amount < 0 THEN -amount ELSE amount
IsOne(i, amount)  == i.kind = "add" /\ i.amount = Plus(amount, 0) /\ i.count = 1
IsLoop(i, len)    == i.kind = "loop" /\ Len(i.body) = len

IsCompare(b) ==
    /\ Len(b) = 7 /\ IsLoop(b[4], 5) /\ IsLoop(b[6], 4)
    /\ LET n == b[4].body  z == b[6].body IN
          /\ IsMove(b[1], 2) /\ IsOne(b[2], 1) /\ IsMove(b[3], -1) /\ IsMove(b[5], 1) /\ IsMove(b[7], -3)
          /\ IsOne(n[1], -1) /\ IsMove(n[2], -1) /\ IsOne(n[3], -1) /\ IsMove(n[4], 2) /\ IsOne(n[5], -1)
          /\ IsLoop(z[3], 1) /\ IsOne(z[3].body[1], -1)
          /\ IsOne(z[1], -1) /\ IsMove(z[2], -2) /\ IsMove(z[4], 3)

IsSlide(b) ==
    /\ Len(b) = 4 /\ IsLoop(b[2], 2)
    /\ IsMove(b[1], 3) /\ IsMove(b[3], -2) /\ IsOne(b[4], -1)
    /\ IsOne(b[2].body[1], -1) /\ IsMove(b[2].body[2], -1)

(* remote_transfer.rs: adds, moves and at least one scan, led by an add of *)
(* one.                                                                    *)
IsScan(i) == i.kind = "loop" /\ i.opt.kind = "scan"
IsRemoteTransfer(b) ==
    /\ Len(b) <= MaxBody
    /\ b[1].kind = "add" /\ b[1].amount \in {1, Modulus - 1}
    /\ \A i \in DOMAIN b : b[i].kind \in {"add", "move"} \/ IsScan(b[i])
    /\ \E i \in DOMAIN b : IsScan(b[i])

(* clear_iterations_factor: the Newton steps find the inverse of an odd    *)
(* number.  (Mutant: the inverse, not negated.)                            *)
InverseOf(delta) ==
    LET newton(x) == Plus(x * (2 - delta * x), 0) IN newton(newton(delta))
ClearFactor_Positive(delta) == InverseOf(delta)
ClearFactor(delta) == Plus(-InverseOf(delta), 0)

(* A body of adds and moves: where the pointer goes, and what is added     *)
(* where.                                                                  *)
Walked(b) ==
    FoldLeft(LAMBDA w, i :
        IF i.kind = "move"
        THEN LET p == w.pointer + i.amount IN
             [w EXCEPT !.pointer = p, !.min = IF p < @ THEN p ELSE @, !.max = IF p > @ THEN p ELSE @,
                       !.raw = @ + Total(i.offsets)]
        ELSE [w EXCEPT !.raw = @ + i.count,
                       !.updates = [o \in DOMAIN @ \cup {w.pointer} |->
                           IF o # w.pointer THEN @[o]
                           ELSE Plus(IF o \in DOMAIN @ THEN @[o] ELSE 0, i.amount)]],
        [pointer |-> 0, min |-> 0, max |-> 0, updates |-> [o \in {} |-> 0], raw |-> 0], b)

(* recognize_fast_loop.  (Mutant of the transfer: the pointer may end      *)
(* elsewhere.)                                                             *)
NoOpt == [kind |-> "none"]
Balanced_Anywhere(walk) == TRUE
Balanced(walk) == walk.pointer = 0

LinearLoop(b) ==
    LET walk  == Walked(b)
        delta == IF 0 \in DOMAIN walk.updates THEN walk.updates[0] ELSE 0
        used  == {o \in DOMAIN walk.updates \ {0} : walk.updates[o] # 0}
    IN  IF ~Balanced(walk) \/ delta \notin {1, Modulus - 1} THEN NoOpt
        ELSE [kind |-> "transfer", delta |-> delta, updates |-> [o \in used |-> walk.updates[o]],
              min |-> walk.min, max |-> walk.max, raw |-> walk.raw, rle |-> Len(b)]

FastLoop(b, enabled) ==
    IF "rle" \notin enabled \/ b = <<>> THEN NoOpt
    ELSE IF Len(b) = 1 /\ b[1].kind = "add" /\ b[1].amount % 2 = 1
    THEN IF "clear" \in enabled
         THEN [kind |-> "clear", factor |-> ClearFactor(b[1].amount), raw |-> b[1].count, rle |-> 1]
         ELSE NoOpt
    ELSE IF Len(b) = 1 /\ b[1].kind = "move"
    THEN IF "scan" \in enabled
         THEN [kind |-> "scan", amount |-> b[1].amount, offsets |-> b[1].offsets] ELSE NoOpt
    ELSE IF \/ "transfer" \notin enabled
            \/ "clear" \notin enabled /\ \A i \in DOMAIN b : b[i].kind = "add"
    THEN NoOpt
    ELSE IF \A i \in DOMAIN b : b[i].kind \in {"add", "move"} THEN LinearLoop(b)
    ELSE IF "remote" \in enabled /\ IsRemoteTransfer(b) THEN [kind |-> "remote"]
    ELSE NoOpt

Recognised(b, enabled) ==
    CASE "compare" \in enabled /\ IsCompare(b) -> [kind |-> "compare"]
      [] ~("compare" \in enabled /\ IsCompare(b)) /\ "slide" \in enabled /\ IsSlide(b) -> [kind |-> "slide"]
      [] OTHER -> FastLoop(b, enabled)

(* fold_countdown: [- CHILD tail], innermost level first.                  *)
Counts(loop) ==
    /\ loop.opt = NoOpt
    /\ Len(loop.body) >= 2
    /\ loop.body[1].kind = "add" /\ loop.body[1].amount = Modulus - 1
    /\ loop.body[2].kind \in {"loop", "countdown"}

Folded(loop) ==
    LET child  == loop.body[2]
        inner  == IF child.kind = "countdown" THEN child.levels ELSE <<>>
        prefix == IF inner = <<>> THEN 0 ELSE Last(inner).prefix
    IN  [kind   |-> "countdown",
         levels |-> Append(inner, [tail |-> SubSeq(loop.body, 3, Len(loop.body)),
                                   prefix |-> prefix + loop.body[1].count]),
         leaf   |-> IF child.kind = "countdown" THEN child.leaf ELSE child]

-----------------------------------------------------------------------------
(* Runs::new_coalesced, Runs::new: plain commands come one by one when     *)
(* runs are not used.                                                      *)
RunsOf(source, enabled) ==
    LET offset == OffsetOf(source)
        run(i) == [op |-> source.runs[i].op, count |-> source.runs[i].count, offset |-> offset[i]]
        single(i) == [k \in 1 .. run(i).count |->
                         [op |-> run(i).op, count |-> 1, offset |-> offset[i] + k - 1]]
        apart == source.compressed \/ "rle" \in enabled
    IN  FlattenSeq([i \in DOMAIN source.runs |->
            IF source.runs[i].op \notin Commands THEN <<>>
            ELSE IF apart THEN <<run(i)>> ELSE single(i)])

(* parse_optimized_with_options: a run is read into the innermost block.   *)
(* (Mutant: an open bracket is reported from the innermost block.)         *)
ReadRun(blocks, run, compressed, enabled) ==
    LET n == Len(blocks)
        Top(block) == [blocks EXCEPT ![n] = block]
    IN
    CASE run.op \in Paired /\ "rle" \notin enabled ->
             Top(PushRaw(blocks[n], run.op, run.offset, run.count))
      [] run.op \in {">", "<"} /\ "rle" \in enabled ->
             Top(PushMove(blocks[n], run.op, run.offset, run.count, compressed))
      [] run.op \in {"+", "-"} /\ "rle" \in enabled -> Top(PushAdd(blocks[n], run.op, run.count))
      [] run.op = "." -> Top(Push(blocks[n], [kind |-> "output"]))
      [] run.op = "," -> Top(Push(blocks[n], [kind |-> "input"]))
      [] run.op = "[" -> Append(Top([blocks[n] EXCEPT !.last = None]), Block(run.offset))
      [] run.op = "]" ->
             LET body == blocks[n].code
                 loop == [kind |-> "loop", body |-> body, opt |-> Recognised(body, enabled)]
             IN  SubSeq(blocks, 1, n - 2) \o
                 <<Push(blocks[n - 1],
                        IF "countdown" \in enabled /\ Counts(loop) THEN Folded(loop) ELSE loop)>>

Unclosed_Innermost(blocks) == Last(blocks).opened
Unclosed(blocks) == blocks[2].opened

(* A run that is no command stands for the end of the source. *)
Parsed(source, enabled) ==
    LET Reads(p, run) ==
            CASE p.error # None -> p
              [] p.error = None /\ run.op = "]" /\ Len(p.blocks) = 1 ->
                     [p EXCEPT !.error = "closing", !.offset = run.offset]
              [] p.error = None /\ run.op = "end" ->
                     IF Len(p.blocks) = 1 THEN p
                     ELSE [p EXCEPT !.error = "opening", !.offset = Unclosed(p.blocks)]
              [] OTHER -> [p EXCEPT !.blocks = ReadRun(@, run, source.compressed, enabled)]
    IN  FoldLeft(Reads, [blocks |-> <<Block(0)>>, error |-> None, offset |-> 0],
                 Append(RunsOf(source, enabled), [op |-> "end"]))

-----------------------------------------------------------------------------
(* compact_rle: with run lengths alone, the tree is flattened; a loop      *)
(* becomes two jumps.                                                      *)
RECURSIVE Compact(_, _)
Compact(code, base) ==
    IF code = <<>> THEN <<>>
    ELSE LET i == Head(code) IN
         IF i.kind # "loop" THEN <<i>> \o Compact(Tail(code), base + 1)
         ELSE LET body == Compact(i.body, base + 1)
                  close == base + Len(body) + 1
              IN  <<[kind |-> "open", target |-> close + 1]>> \o body
                  \o <<[kind |-> "close", target |-> base + 1]>>
                  \o Compact(Tail(code), close + 1)

Program(parsed, enabled) ==
    LET code == Head(parsed.blocks).code IN
    CASE parsed.error # None -> <<>>
      [] parsed.error = None /\ enabled = {"rle"} -> Compact(code, 1)
      [] OTHER -> code
=============================================================================
