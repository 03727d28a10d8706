----------------------------- MODULE AbiProgram -----------------------------
(***************************************************************************)
(* What the ABI code generator and the continuation VM both take from a    *)
(* validated ContinuationProgram and from the frame layouts computed for   *)
(* it: the functions, the continuations they own, the chunks and cells of  *)
(* every frame, parameters and results.  The program itself (which body    *)
(* and which terminator each continuation has) is not a constant: the      *)
(* specifications that extend this module let a continuation of f do       *)
(* anything validate_program allows a continuation of f to do.             *)
(*                                                                         *)
(* Cells of a frame are named by their place relative to the context of    *)
(* that frame, as the code generator does (Location::Relative): <<k, q>>   *)
(* is data lane q of the chunk k chunks below the context, and k = 0 is    *)
(* the context chunk itself, whose lanes are the AbiFields.                *)
(***************************************************************************)
EXTENDS Integers, Sequences

CONSTANTS
    Functions,    \* FunctionId
    Main,         \* ContinuationProgram::main
    Conts,        \* ContinuationId, nonzero numbers as in the code
    Owner,        \* Continuation::function
    Entry,        \* FunctionDescriptor::entry
    Lanes,        \* data lanes of a chunk, 0..15 in the code (AbiConfig D = 16)
    BodyChunks,   \* chunks of a frame below its context chunk
    Storage,      \* the frame cells that the layout gives to slots, aggregates and outbox
    Params,       \* FunctionDescriptor::parameter_locations, one cell per flattened cell
    Result,       \* "void", "cell" or "aggregate"
    ResultCells,  \* cells of an aggregate result
    OutboxCells,  \* FunctionDescriptor::outbox_cells
    Outbox,       \* common_outbox_offset: the same relative cells in every frame
    Globals,      \* scalar globals and elements of aggregate globals
    CellBase      \* 256 in the code: cells wrap modulo CellBase

Byte == 0 .. CellBase - 1

(* AbiField, frame_layout.rs.  A program counter is one lane here: its low *)
(* and its high byte are always written and moved together.                *)
Value    == 0
Active   == 1
Pc       == 2
NextPc   == 3
Restore  == 4
ReturnPc == 5
AbiFields == {Value, Active, Pc, NextPc, Restore, ReturnPc}

(* Address::AbiValue *)
AbiValue == <<0, Value>>

(* Everything a continuation of f may name as an Address. *)
Locations(f) == Storage[f] \cup {AbiValue} \cup Globals

FrameChunks(f) == BodyChunks[f] + 1

ContsOf(f) == {c \in Conts : Owner[c] = f}

(* The sources of the arguments of a call to g, of the value f returns.    *)
(* An aggregate result is a contiguous range, hence of distinct cells.     *)
Arguments(f, g) == [1 .. Len(Params[g]) -> Locations(f)]

ResultLength(f) ==
    CASE Result[f] = "void"      -> 0
      [] Result[f] = "cell"      -> 1
      [] Result[f] = "aggregate" -> ResultCells[f]

Results(f) ==
    CASE Result[f] = "void" -> {<<>>}
      [] Result[f] = "cell" -> [{1} -> Locations(f)]
      [] Result[f] = "aggregate" ->
            {s \in [1 .. ResultCells[f] -> Storage[f] \cup Globals] :
                \A i, j \in 1 .. ResultCells[f] : s[i] = s[j] => i = j}

(* Terminator::Call of g is valid in f: never to main, and an aggregate    *)
(* result must fit the caller's outbox (CallerOutboxTooSmall).             *)
MayCall(f, g) ==
    /\ g # Main
    /\ Result[g] = "aggregate" => ResultCells[g] <= OutboxCells[f]

ASSUME ProgramAssumption ==
    /\ Main \in Functions
    /\ Conts \subseteq Nat \ {0}
    /\ Owner \in [Conts -> Functions]
    /\ Entry \in [Functions -> Conts]
    /\ \A f \in Functions : Owner[Entry[f]] = f

ASSUME LayoutAssumption ==
    /\ Lanes \subseteq Nat
    /\ AbiFields \subseteq Lanes
    /\ BodyChunks \in [Functions -> Nat]
    /\ \A f \in Functions : Storage[f] \subseteq (1 .. BodyChunks[f]) \X Lanes
    /\ \A f \in Functions : Params[f] \in Seq(Storage[f])
    /\ Globals \cap (Int \X Lanes) = {}
    /\ CellBase \in Nat \ {0, 1}

ASSUME ResultAssumption ==
    /\ Result \in [Functions -> {"void", "cell", "aggregate"}]
    /\ Result[Main] = "void"
    /\ Params[Main] = <<>>
    /\ ResultCells \in [Functions -> Nat]
    /\ OutboxCells \in [Functions -> 0 .. Len(Outbox)]
    /\ \A f \in Functions : \A i \in 1 .. OutboxCells[f] : Outbox[i] \in Storage[f]
    /\ \A i, j \in 1 .. Len(Outbox) : Outbox[i] = Outbox[j] => i = j
=============================================================================
