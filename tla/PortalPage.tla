----------------------------- MODULE PortalPage -----------------------------
(***************************************************************************)
(* The accessor of an aggregate portal, instruction by instruction         *)
(* (backend/codegen/portal.rs, emit_aggregate_accessor, and                *)
(* portal_page.rs).  The payload is laid out in pages, each behind a       *)
(* portal of its own with a full set of protocol fields.  An offset whose  *)
(* high byte is zero is resolved where the request arrived.  Any other one *)
(* is split into two digits; the request jumps to the portal of its page,  *)
(* one digit at a time, is resolved there by the same countdown, and       *)
(* jumps back.  A jump moves the pointer to another portal in the middle   *)
(* of a nest of loops, whose remaining tests then look at the fields of    *)
(* that portal.                                                            *)
(***************************************************************************)
EXTENDS Integers, Sequences

CONSTANTS
    Digit,       \* 16 in the code: pages per jump of the high digit
    PageCells,   \* 256 in the code: payload cells per page
    LargestPages, \* last pages of the largest regions of the programs looked at
    Bytes,       \* the values a program stores
    MaxAccesses, \* bound on the accesses of a behaviour
    None

Base  == Digit * Digit     \* 256 in the code: values of a cell, and pages
Pages == 0 .. Base - 1

Offsets  == 0 .. Base * PageCells - 1
Requests == [op : {"load", "store"}, offset : Offsets]
Payloads == [Pages -> [0 .. PageCells - 1 -> 0 .. Base - 1]]

ASSUME PortalPageAssumption ==
    /\ Digit \in Nat \ {0, 1}
    /\ PageCells \in 1 .. Base
    /\ LargestPages \subseteq Pages
    /\ Bytes \subseteq 0 .. Base - 1
    /\ None \notin Requests
    /\ None \notin [request : Requests, payload : Payloads, value : Bytes]

Fields == {"Index", "Value", "Condition", "Restore", "Branch",
           "Scratch0", "Scratch1", "Scratch2", "Scratch3"}

VARIABLES
    maxPage,   \* the last page of the largest region of the program
    portal,    \* portal[page][field]
    payload,   \* payload[page][index]
    at,        \* the page whose portal the pointer is on
    work,      \* the instructions still to be executed
    begun,     \* history: the request being served and what it found, or None
    accesses   \* bound only

vars == <<maxPage, portal, payload, at, work, begun, accesses>>

Here == portal[at]

-----------------------------------------------------------------------------
(* Instructions. *)
Add(f, k)           == [op |-> "add", field |-> f, by |-> k]
Clear(f)            == [op |-> "clear", field |-> f]
ZeroTest            == [op |-> "test"]
Carry(fields, d)    == [op |-> "carry", fields |-> fields, by |-> d]
Payload(kind, i)    == [op |-> kind, index |-> i]
While(f, body)      == [op |-> "while", field |-> f, body |-> body]

Set(f, k) == <<Clear(f), Add(f, k)>>
ClearAll(fs) == [i \in DOMAIN fs |-> Clear(fs[i])]

(* Bracket of a selected case.  (Mutant: it is not closed.) *)
Gate_Kept(body) == <<While("Branch", body)>>
Gate(body) == <<While("Branch", <<Add("Branch", -1)>> \o body)>>

(* A countdown enters the case that f counts to, with f zero; "beyond"     *)
(* takes care of greater values at the innermost level.                    *)
Countdown(f, last, beyond, case) ==
    LET level[l \in 0 .. last] ==
            (IF l = last THEN beyond ELSE <<While(f, <<Add(f, -1)>> \o level[l + 1])>>)
            \o Gate(case[l])
    IN  Set("Branch", 1) \o level[0]

(* emit_direct_payload_countdown *)
DirectCountdown(kind) ==
    Countdown("Index", PageCells - 1, <<While("Index", <<Clear("Index"), Clear("Branch")>>)>>,
              [l \in 0 .. PageCells - 1 |-> <<Payload(kind, l)>>])

(* split_page_selectors: the high byte becomes two digits, twice, for the  *)
(* way out and the way back.                                               *)
Digits(l) ==
    <<Add("Scratch1", l % Digit), Add("Restore", l % Digit),
      Add("Scratch2", l \div Digit), Add("Scratch3", l \div Digit)>>

SplitPageSelectors ==
    ClearAll(<<"Scratch1", "Scratch2", "Restore", "Scratch3">>)
    \o Countdown("Scratch0", Base - 1, <<>>, [l \in 0 .. Base - 1 |-> Digits(l)])

(* page_digit_limit: the jump table goes as far as the program's largest   *)
(* region needs.                                                           *)
AtMost(a, b) == IF a < b THEN a ELSE b
PageDigitLimit(d) == AtMost(IF d \in {1, -1} THEN maxPage ELSE maxPage \div Digit, Digit - 1)

(* What a walk of one page takes along: the request, the rest of the digit *)
(* and the open case.  (Mutant: not the case.)                             *)
Walking_BranchLeft(carried, counter) == carried \cup {counter}
Walking(carried, counter) == carried \cup {counter, "Branch"}

(* emit_page_portal_digit and emit_page_portal_jump_level: a countdown     *)
(* selects one jump; what is left of a digit beyond the table is walked    *)
(* page by page first.  (Mutant: the rest of the digit is dropped.)        *)
Walk_Truncated(counter, d, carried) == <<Clear(counter)>>
Walk(counter, d, carried) ==
    <<While(counter, <<Add(counter, -1), Carry(Walking(carried, counter), d)>>)>>

PageDigit(counter, d, carried) ==
    LET last == PageDigitLimit(d) IN
    Countdown(counter, last, IF last < Digit - 1 THEN Walk(counter, d, carried) ELSE <<>>,
              [l \in 0 .. last |-> IF l = 0 THEN <<>> ELSE <<Carry(carried \ {counter}, d * l)>>])

(* emit_page_portal_accessor. *)
Back(d) == - d

Sent(kind) == IF kind = "store" THEN {"Index", "Value"} ELSE {"Index"}
Brought(kind) == IF kind = "load" THEN {"Value"} ELSE {}

(* The first jump back takes the digit of the second along.  (Mutant: it   *)
(* does not.)                                                              *)
FirstBack_DigitLeft(kind) == Brought(kind)
FirstBack(kind) == Brought(kind) \cup {"Scratch3"}

PagePortalAccessor(kind) ==
    SplitPageSelectors
    \o PageDigit("Scratch2", Digit, Sent(kind) \cup {"Restore", "Scratch1", "Scratch2", "Scratch3"})
    \o PageDigit("Scratch1", 1, Sent(kind) \cup {"Restore", "Scratch1", "Scratch3"})
    \o DirectCountdown(kind)
    \o PageDigit("Restore", Back(1), FirstBack(kind))
    \o PageDigit("Scratch3", Back(Digit), Brought(kind))

(* emit_portal_direct_test: Condition and Branch tell whether the high     *)
(* byte is zero, and Condition still does after the direct path.           *)
DirectTest ==
    ClearAll(<<"Condition", "Restore", "Branch">>)
    \o <<ZeroTest, While("Scratch1", <<Add("Scratch1", -1), Add("Branch", 1), Add("Condition", 1)>>)>>

AggregateAccessor(kind) ==
    DirectTest
    \o Gate(DirectCountdown(kind))
    \o Set("Branch", 1) \o <<While("Condition", <<Clear("Condition"), Clear("Branch")>>)>>
    \o Gate(PagePortalAccessor(kind))
    \o ClearAll(<<"Index", "Condition", "Restore", "Branch",
                  "Scratch0", "Scratch1", "Scratch2", "Scratch3">>)

-----------------------------------------------------------------------------
ZeroPortal == [f \in Fields |-> 0]

Init ==
    /\ maxPage \in LargestPages
    /\ portal = [p \in Pages |-> ZeroPortal]
    /\ payload = [p \in Pages |-> [i \in 0 .. PageCells - 1 |-> 0]]
    /\ at = 0
    /\ work = <<>>
    /\ begun = None
    /\ accesses = 0

(* A request has arrived at the first portal, and Value is zero for a load *)
(* (emit_portal_call_inner and the routers).  Any offset may be asked for: *)
(* that it lies in the region is up to the program.                        *)
Request ==
    /\ work = <<>> /\ begun = None
    /\ accesses < MaxAccesses
    /\ accesses' = accesses + 1
    /\ \E kind \in {"load", "store"}, high \in Pages, index \in 0 .. PageCells - 1,
          v \in Bytes :
          /\ kind = "load" => v = 0
          /\ portal' = [portal EXCEPT ![0] =
                            [ZeroPortal EXCEPT !.Index = index, !.Scratch0 = high, !.Value = v]]
          /\ begun' = [request |-> [op |-> kind, offset |-> PageCells * high + index],
                       payload |-> payload, value |-> v]
          /\ work' = AggregateAccessor(kind)
    /\ UNCHANGED <<maxPage, payload, at>>

Instr == Head(work)
Is(op) == work # <<>> /\ Instr.op = op
Sum(a, b) == (a + b) % Base

SetHere(f, v) == portal' = [portal EXCEPT ![at][f] = v]

Field ==
    /\ \/ Is("add") /\ SetHere(Instr.field, Sum(Here[Instr.field], Instr.by))
       \/ Is("clear") /\ SetHere(Instr.field, 0)
       \/ /\ Is("test")   \* emit_preserving_zero_test(Scratch0, Scratch1, Scratch2)
          /\ portal' = [portal EXCEPT ![at].Scratch1 = IF Here.Scratch0 = 0 THEN 1 ELSE 0,
                                      ![at].Scratch2 = 0]
    /\ work' = Tail(work)
    /\ UNCHANGED <<maxPage, payload, at, begun, accesses>>

(* emit_direct_payload_countdown_case: copy (by way of Scratch2) or move. *)
PayloadCase ==
    /\ \/ /\ Is("load")
          /\ portal' = [portal EXCEPT ![at].Value = payload[at][Instr.index], ![at].Scratch2 = 0]
          /\ UNCHANGED payload
       \/ /\ Is("store")
          /\ payload' = [payload EXCEPT ![at][Instr.index] = Here.Value]
          /\ SetHere("Value", 0)
    /\ work' = Tail(work)
    /\ UNCHANGED <<maxPage, at, begun, accesses>>

(* move_page_portal_field for every field, then migrate_context. *)
Jump ==
    /\ Is("carry")
    /\ at' = at + Instr.by
    /\ portal' = [portal EXCEPT
            ![at']  = [f \in Fields |-> IF f \in Instr.fields THEN Here[f] ELSE @[f]],
            ![at]   = [f \in Fields |-> IF f \in Instr.fields THEN 0 ELSE @[f]]]
    /\ work' = Tail(work)
    /\ UNCHANGED <<maxPage, payload, begun, accesses>>

(* A loop tests its cell at the portal the pointer is on now. *)
Loop ==
    /\ Is("while")
    /\ work' = IF Here[Instr.field] # 0 THEN Instr.body \o work ELSE Tail(work)
    /\ UNCHANGED <<maxPage, portal, payload, at, begun, accesses>>

(* The accessor's body is over; the return takes Value. *)
Return ==
    /\ work = <<>> /\ begun # None
    /\ begun' = None
    /\ UNCHANGED <<maxPage, portal, payload, at, work, accesses>>

Step == Field \/ PayloadCase \/ Jump \/ Loop \/ Return
Next == Request \/ Step

(* Emitted code runs on. *)
Spec == Init /\ [][Next]_vars /\ WF_vars(Step)

-----------------------------------------------------------------------------
Busy == begun # None

(* No protocol field stays behind at a portal the request has left: "No    *)
(* protocol fields remain dirty in skipped pages", and "Branch and the     *)
(* consumed selector are zero at the destination portal, so all outer      *)
(* countdown levels exit there" (emit_page_portal_jump_level).  Home       *)
(* again, only a loaded Value is left: emit_global_portal_return and the   *)
(* resume bodies clear no more than the fields they know of.               *)
PortalsClean ==
    /\ \A p \in Pages \ {at} : portal[p] = ZeroPortal
    /\ work = <<>> => at = 0 /\ \A f \in Fields \ {"Value"} : Here[f] = 0

(* Every request is served, with a digit of any size. *)
RequestsEnd == Busy ~> ~Busy

Flat(pages) == [o \in Offsets |-> pages[o \div PageCells][o % PageCells]]

ResolverPayload == Flat(IF Busy THEN begun.payload ELSE payload)
ResolverValue   == IF Busy THEN begun.value ELSE portal[0].Value
ResolverAsked   == IF Busy THEN begun.request ELSE None

Resolver == INSTANCE PayloadResolver WITH
    payload <- ResolverPayload, value <- ResolverValue, asked <- ResolverAsked

(* Jumps included, the accessor reads or writes the cell at the offset and *)
(* nothing else, also when the offset lies beyond the jump table: "the     *)
(* walk fallback still accepts a digit beyond that limit without           *)
(* truncation" (page_digit_limit).                                         *)
ImplementsResolver == Resolver!Spec
=============================================================================
