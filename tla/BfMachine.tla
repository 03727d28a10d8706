------------------------------ MODULE BfMachine ------------------------------
(***************************************************************************)
(* Brainfuck as the interpreter's own reference runs it, one command at a  *)
(* time (parse, execute_reference, bf-interpreter/src/lib.rs), and the     *)
(* encodings of a source: plain text, or runs with counts                  *)
(* (bf-profiling/src/rle.rs).                                              *)
(*                                                                         *)
(* A source is [compressed, runs]; a run is a command or a comment with    *)
(* its count.  In plain text the commands of a run stand at consecutive    *)
(* offsets; in compressed text a run stands at one.  Digits are left out,  *)
(* so a compressed run has length 1.                                       *)
(***************************************************************************)
EXTENDS Integers, Sequences, SequencesExt, FiniteSets

CONSTANTS
    Modulus,   \* 256 values of a cell
    TapeLen,   \* TAPE_LEN, 30,000 cells
    None

Paired    == {">", "<", "+", "-"}            \* the commands that come in runs
Commands  == Paired \cup {".", ",", "[", "]"}
Byte      == 0 .. Modulus - 1
Plus(a, b) == (a + b) % Modulus

(* Runs: where each run begins. *)
Width(source, i) == IF source.compressed THEN 1 ELSE source.runs[i].count
OffsetOf(source) ==
    LET f[i \in 1 .. Len(source.runs)] == IF i = 1 THEN 0 ELSE f[i - 1] + Width(source, i - 1)
    IN  f

(* parse: the commands one by one, each with its offset. *)
Decoded(source) ==
    LET offset == OffsetOf(source)
        Of(i)  == LET run == source.runs[i] IN
                  IF run.op \notin Commands THEN <<>>
                  ELSE [k \in 1 .. run.count |->
                           [op     |-> run.op,
                            offset |-> offset[i] + (IF source.compressed THEN 0 ELSE k - 1)]]
    IN  FlattenSeq([i \in DOMAIN source.runs |-> Of(i)])

(* parse: the commands with their jumps.  A bracket that does not match is *)
(* reported where it stands, an open one as the outermost.                 *)
Loaded(source) ==
    LET Put1(p, c) == [p EXCEPT !.code = Append(@, [op |-> c.op, offset |-> c.offset, target |-> None])]
        Reads(p, c) ==
            LET n == Len(p.code) + 1  opening == Last(p.openings) IN
            CASE p.error # None -> p
              [] p.error = None /\ c.op = "[" -> [Put1(p, c) EXCEPT !.openings = Append(@, n)]
              [] p.error = None /\ c.op = "]" /\ p.openings = <<>> ->
                     [p EXCEPT !.error = "closing", !.offset = c.offset]
              [] p.error = None /\ c.op = "]" /\ p.openings # <<>> ->
                     [Put1(p, c) EXCEPT !.code[opening].target = n + 1, !.code[n].target = opening + 1,
                                        !.openings = Front(@)]
              [] OTHER -> Put1(p, c)
        end == FoldLeft(Reads, [code |-> <<>>, openings |-> <<>>, error |-> None, offset |-> 0],
                        Decoded(source))
    IN  IF end.error = None /\ end.openings # <<>>
        THEN [end EXCEPT !.error = "opening", !.offset = end.code[Head(end.openings)].offset]
        ELSE end

-----------------------------------------------------------------------------
(* What a run computes and measures.  An unbounded tape grows to the right *)
(* (only the fast interpreter offers it).                                  *)
Start ==
    [tape |-> [c \in 0 .. TapeLen - 1 |-> 0], pointer |-> 0, max |-> 0,
     consumed |-> 0, output |-> <<>>, raw |-> 0, rle |-> 0]

Cell(m)       == m.tape[m.pointer]
Put(m, value) == [m EXCEPT !.tape[m.pointer] = value]
Grown(m, len) == [m EXCEPT !.tape = [c \in 0 .. len - 1 |-> IF c \in DOMAIN @ THEN @[c] ELSE 0]]
Size(m)       == Cardinality(DOMAIN m.tape)
Moved(m, to)  == [m EXCEPT !.pointer = to, !.max = IF to > @ THEN to ELSE @]
Read(m, input) ==
    [Put(m, IF m.consumed < Len(input) THEN input[m.consumed + 1] ELSE 0) EXCEPT !.consumed = @ + 1]
Write(m)      == [m EXCEPT !.output = Append(@, Cell(m))]

Boot == [m |-> Start, pc |-> 1, last |-> None, error |-> None, offset |-> 0]

(* execute_reference: one command. *)
Step(code, input, grow, r) ==
    IF r.pc > Len(code) \/ r.error # None THEN r
    ELSE
    LET i == code[r.pc]
        continues == r.last = <<r.pc - 1, i.op>>
        m == [r.m EXCEPT !.raw = @ + 1, !.rle = @ + (IF continues THEN 0 ELSE 1)]
        next == [r EXCEPT !.last = IF i.op \in Paired THEN <<r.pc, i.op>> ELSE None]
        To(n, pc) == [next EXCEPT !.m = n, !.pc = pc]
        Fail(e) == [next EXCEPT !.m = m, !.error = e, !.offset = i.offset]
        pc == r.pc + 1
    IN
    CASE i.op = ">" -> IF m.pointer + 1 < Size(m) THEN To(Moved(m, m.pointer + 1), pc)
                       ELSE IF grow THEN To(Moved(Grown(m, m.pointer + 2), m.pointer + 1), pc)
                       ELSE Fail("overflow")
      [] i.op = "<" -> IF m.pointer > 0 THEN To([m EXCEPT !.pointer = @ - 1], pc) ELSE Fail("underflow")
      [] i.op = "+" -> To(Put(m, Plus(Cell(m), 1)), pc)
      [] i.op = "-" -> To(Put(m, Plus(Cell(m), -1)), pc)
      [] i.op = "." -> To(Write(m), pc)
      [] i.op = "," -> To(Read(m, input), pc)
      [] i.op = "[" -> To(m, IF Cell(m) = 0 THEN i.target ELSE pc)
      [] i.op = "]" -> To(m, IF Cell(m) # 0 THEN i.target ELSE pc)
=============================================================================
