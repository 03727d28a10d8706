----------------------------- MODULE Dispatcher -----------------------------
(***************************************************************************)
(* The code emit_dispatcher generates, executed instruction by             *)
(* instruction (backend/codegen/dispatch.rs).  Selection is destructive:   *)
(* PcHigh and PcLow are compared or counted down in place, Branch is the   *)
(* one-shot gate of the matching case, and the tests that follow a body    *)
(* still look at these fields - but of the context the body ended in,      *)
(* which after a call or a return is another one.                          *)
(*                                                                         *)
(* The instructions are those of the emitter's ABI-field helpers; the      *)
(* pointer always rests on a context, the last of contexts.                *)
(***************************************************************************)
EXTENDS Integers, Sequences, FiniteSetsExt

CONSTANTS
    Base,         \* 256 in the code: values of a cell
    Codes,        \* the PCs an encoding may use, <<PcHigh, PcLow>>
    MaxContexts   \* bound on the depth of calls

ASSUME DispatchAssumption ==
    /\ Base \in Nat \ {0, 1}
    /\ Codes \subseteq (0 .. Base - 1) \X (0 .. Base - 1)
    /\ MaxContexts \in Nat \ {0}

NoPc == <<0, 0>>

Fields == {"Active", "PcHigh", "PcLow", "NextPc", "ReturnPc", "Condition", "Branch"}

VARIABLES
    entries,   \* the encoded PCs that have a body
    contexts,  \* the context chunks, bottom first: field -> value
    work,      \* the instructions still to be executed
    fetched,   \* auxiliary: the PC the current cycle started with, NoPc once a body ran
    ran        \* auxiliary: the entry whose body ran last

vars == <<entries, contexts, work, fetched, ran>>

Here == contexts[Len(contexts)]

-----------------------------------------------------------------------------
(* Instructions. *)
AddField(f, k)     == [op |-> "add", field |-> f, by |-> k]
ClearField(f)      == [op |-> "clear", field |-> f]
CopyField(f, g)    == [op |-> "copy", field |-> f, to |-> g]
EnterBody(e)       == [op |-> "enter", entry |-> e]
Advance            == [op |-> "advance"]
While(f, body)     == [op |-> "while", field |-> f, body |-> body]

SetField(f, k) == <<ClearField(f), AddField(f, k)>>

(* clear_branch_on_nonzero(Condition) *)
ClearBranchOnNonzero ==
    <<While("Condition", <<ClearField("Condition"), ClearField("Branch")>>)>>

(* The bracket of a case: [-body], entered at most once.  (Mutants: closed *)
(* after the body, when the pointer may be elsewhere; never closed.)       *)
Gate_ClosedAfter(body) == <<While("Branch", body \o <<ClearField("Branch")>>)>>
Gate_NeverClosed(body) == <<While("Branch", body)>>
Gate(body) == <<While("Branch", <<AddField("Branch", -1)>> \o body)>>

(* emit_equality_case and emit_dispatch_page_inner: pc = value?  The field *)
(* is cleared before the body.  (Mutant: it is not.)                       *)
Equality_PcKept(pc, value, body) ==
    <<CopyField(pc, "Condition"), AddField("Condition", -value)>>
        \o SetField("Branch", 1) \o ClearBranchOnNonzero \o Gate(body)
Equality(pc, value, body) ==
    <<CopyField(pc, "Condition"), AddField("Condition", -value)>>
        \o SetField("Branch", 1) \o ClearBranchOnNonzero
        \o Gate(<<ClearField(pc)>> \o body)

(* emit_countdown_level and emit_page_countdown_level: a nest of loops     *)
(* that decrement pc; the case of level l follows the loop that finds it   *)
(* zero, and above span nothing matches.                                   *)
Countdown(pc, span, case) ==
    LET level[l \in 0 .. span] ==
            <<While(pc, IF l = span THEN <<ClearField(pc), ClearField("Branch")>>
                        ELSE <<AddField(pc, -1)>> \o level[l + 1])>> \o case[l]
    IN  level[0]

(* The equality tests, the values tried in ascending Order: the entries    *)
(* are sorted.  (Mutant: descending, so that the zero case of a page comes *)
(* last.)                                                                  *)
Order_Descending(S, i) == Max(S) + Min(S) - i
Order(S, i) == i

Equalities(pc, S, body) ==
    LET test[i \in Min(S) .. Max(S) + 1] ==
            IF i > Max(S) THEN <<>>
            ELSE (IF Order(S, i) \in S THEN Equality(pc, Order(S, i), body[Order(S, i)]) ELSE <<>>)
                    \o test[i + 1]
    IN  test[Min(S)]

(* Both levels: a countdown when the values are consecutive, equality      *)
(* tests otherwise.                                                        *)
Consecutive(S) == Max(S) - Min(S) + 1 = Cardinality(S)

Select(pc, S, body) ==
    IF Consecutive(S)
    THEN <<AddField(pc, -Min(S))>> \o SetField("Branch", 1)
            \o Countdown(pc, Max(S) - Min(S), [l \in 0 .. Max(S) - Min(S) |-> Gate(body[Min(S) + l])])
    ELSE Equalities(pc, S, body)

(* emit_dispatcher: pages by PcHigh, entries by PcLow, then NextPc is      *)
(* moved to Pc.                                                            *)
Highs == {e[1] : e \in entries}
Lows(high) == {e[2] : e \in {d \in entries : d[1] = high}}

Cycle ==
    Select("PcHigh", Highs,
        [high \in Highs |->
            Select("PcLow", Lows(high), [low \in Lows(high) |-> <<EnterBody(<<high, low>>)>>])])
    \o <<Advance>>

-----------------------------------------------------------------------------
(* initialize_main for the first context; emit_call_inner for others. *)
FreshContext(next, ret) ==
    [f \in Fields |-> CASE f = "Active"   -> 1
                        [] f = "NextPc"   -> next
                        [] f = "ReturnPc" -> ret
                        [] OTHER          -> 0]

Init ==
    /\ entries \in SUBSET (Codes \ {NoPc}) \ {{}}
    /\ \E e \in entries :
          contexts = <<[FreshContext(NoPc, NoPc) EXCEPT !.PcHigh = e[1], !.PcLow = e[2]]>>
    /\ work = <<While("Active", Cycle)>>
    /\ fetched = NoPc
    /\ ran = NoPc

Instr == Head(work)
Is(op) == work # <<>> /\ Instr.op = op

(* Cells wrap. *)
Sum(a, b) == (a + b) % Base

SetHere(f, v) == contexts' = [contexts EXCEPT ![Len(contexts)][f] = v]

Field ==
    /\ \/ /\ Is("add")
          /\ SetHere(Instr.field, Sum(Here[Instr.field], Instr.by))
       \/ /\ Is("clear")
          /\ SetHere(Instr.field, 0)
       \/ /\ Is("copy")
          /\ SetHere(Instr.to, Here[Instr.field])
    /\ work' = Tail(work)
    /\ UNCHANGED <<entries, fetched, ran>>

(* A loop tests its cell in the context the pointer is on now.  The outer  *)
(* loop starts a cycle.                                                    *)
Loop ==
    /\ Is("while")
    /\ work' = IF Here[Instr.field] # 0 THEN Instr.body \o work ELSE Tail(work)
    /\ fetched' = IF Instr.field = "Active" /\ Here.Active # 0
                  THEN <<Here.PcHigh, Here.PcLow>> ELSE fetched
    /\ UNCHANGED <<entries, contexts, ran>>

(* move_abi_field(NextPcLow, PcLow), move_abi_field(NextPcHigh, PcHigh):   *)
(* a move clears its destination first.                                    *)
EndCycle ==
    /\ Is("advance")
    /\ contexts' = [contexts EXCEPT
            ![Len(contexts)].PcHigh = Here.NextPc[1],
            ![Len(contexts)].PcLow  = Here.NextPc[2],
            ![Len(contexts)].NextPc = NoPc]
    /\ work' = Tail(work)
    /\ fetched' = NoPc
    /\ UNCHANGED <<entries, ran>>

-----------------------------------------------------------------------------
(* The bodies, as the rest of the code generator emits them: they store    *)
(* NextPc in the context they end in, and the selection fields of that     *)
(* context are zero.                                                       *)
Body ==
    /\ Is("enter")
    /\ \/ \E next \in entries : SetHere("NextPc", next)
       \/ \E entry, ret \in entries :
             /\ Len(contexts) < MaxContexts
             /\ contexts' = Append(contexts, FreshContext(entry, ret))
       \/ /\ Len(contexts) > 1
          /\ contexts' = [SubSeq(contexts, 1, Len(contexts) - 1) EXCEPT
                            ![Len(contexts) - 1].NextPc = Here.ReturnPc]
       \/ SetHere("Active", 0)
    /\ ran' = Instr.entry
    /\ fetched' = NoPc
    /\ work' = Tail(work)
    /\ UNCHANGED entries

Finished == work = <<>> /\ UNCHANGED vars

Next == Field \/ Loop \/ EndCycle \/ Body \/ Finished

(* Emitted code runs to its end: a body terminates or the program diverges *)
(* inside it, and outside bodies a step is always taken.                   *)
Spec == Init /\ [][Next]_vars /\ WF_vars(Field \/ Loop \/ EndCycle \/ Body)

-----------------------------------------------------------------------------
InCycle == Len(work) > 1

(* A body starts with every selection field of its context zero, and so do *)
(* suspended contexts stay: a case still open, or a PC not consumed, would *)
(* let a later test of the same cycle fire, in this context or in a caller *)
(* that resumes.                                                           *)
Selects(context) == \E f \in {"PcHigh", "PcLow", "Condition", "Branch"} : context[f] # 0
SelectionClean ==
    /\ Is("enter") => Here.NextPc = NoPc /\ ~Selects(Here)
    /\ \A i \in 1 .. Len(contexts) - 1 : ~Selects(contexts[i])

(* Every cycle comes to its end, whatever the PC and the geometry of the   *)
(* pages.                                                                  *)
CyclesEnd == InCycle ~> ~InCycle

(* What the bodies see: the PC of the cycle until its body ran, then the   *)
(* one that body stored.                                                   *)
Pc == IF fetched # NoPc THEN fetched
      ELSE IF InCycle THEN Here.NextPc ELSE <<Here.PcHigh, Here.PcLow>>

Stack == [i \in 1 .. Len(contexts) |->
            [pc  |-> IF i < Len(contexts) THEN NoPc ELSE Pc,
             ret |-> contexts[i].ReturnPc]]

Atomic == INSTANCE AtomicDispatch WITH running <- Here.Active = 1, stack <- Stack

(* Each cycle runs the body of the PC it started with, once, and no other. *)
ImplementsAtomicDispatch == Atomic!Spec
=============================================================================
