-------------------------- MODULE AggregateAccess --------------------------
(***************************************************************************)
(* What a dynamic access to an aggregate promises, as the continuation VM  *)
(* executes it (execute_terminator: ArrayLoad, ArrayStore, AggregateLoad,  *)
(* AggregateStore): all cells of the object are read, all are written, and *)
(* then the logical offset has advanced by the cells but one, in a single  *)
(* step.  Between two accesses the program writes its cells as it likes.   *)
(*                                                                         *)
(* A site is the terminator of a continuation: its kind, the region whose  *)
(* payload it selects from, the cells that hold the offset (an array       *)
(* access has an index byte and no high half), the operand cells, and the  *)
(* cells that are dead in the continuation it returns to.                  *)
(***************************************************************************)
EXTENDS Integers, Sequences

CONSTANTS
    Cells,      \* the cells the program can address, AbiValue among them
    CellBase,   \* 256 in the code
    Payload,    \* Payload[region] is the sequence of its cells
    Sites,      \* the portal terminators of the program
    None

VARIABLES
    cell,       \* the value of every cell
    last        \* the site of the access just made, None once the program went on

vars == <<cell, last>>

Leaves(s) == Len(s.operand)
IsWord(s) == s.high # None

(* read_logical_offset and the index byte of the array terminators. *)
Offset(mem, s) == mem[s.low] + IF IsWord(s) THEN CellBase * mem[s.high] ELSE 0

Written(mem, dst, values) ==
    [c \in Cells |-> IF \E i \in DOMAIN dst : dst[i] = c
                     THEN values[CHOOSE i \in DOMAIN dst : dst[i] = c] ELSE mem[c]]

(* advance_logical_offset: 16 bits, two cells. *)
Advanced(mem, s) ==
    LET sum == (Offset(mem, s) + Leaves(s) - 1) % (CellBase * CellBase)
    IN  IF IsWord(s)
        THEN [mem EXCEPT ![s.low] = sum % CellBase, ![s.high] = sum \div CellBase]
        ELSE mem

Selected(mem, s) == SubSeq(Payload[s.region], Offset(mem, s) + 1, Offset(mem, s) + Leaves(s))
Values(mem, cs) == [i \in DOMAIN cs |-> mem[cs[i]]]

Accessed(mem, s) ==
    Advanced(IF s.kind = "load" THEN Written(mem, s.operand, Values(mem, Selected(mem, s)))
             ELSE Written(mem, Selected(mem, s), Values(mem, s.operand)), s)

(* An access beyond the region ends the VM with an error; the language     *)
(* leaves it undefined (IR.md, dynamic projection).                        *)
InRange(mem, s) == Offset(mem, s) + Leaves(s) <= Len(Payload[s.region])

Init == cell = [c \in Cells |-> 0] /\ last = None

(* User code. *)
Write ==
    /\ \E c \in Cells, v \in 0 .. CellBase - 1 : cell' = [cell EXCEPT ![c] = v]
    /\ last' = None

(* Dead cells are overwritten before they are read: their value is free. *)
Access ==
    \E s \in Sites :
        /\ InRange(cell, s)
        /\ \E garbage \in [s.dead -> 0 .. CellBase - 1] :
              cell' = [c \in Cells |-> IF c \in s.dead THEN garbage[c] ELSE Accessed(cell, s)[c]]
        /\ last' = s

Next == Write \/ Access

Spec == Init /\ [][Next]_vars
=============================================================================
