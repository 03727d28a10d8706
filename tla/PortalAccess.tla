---------------------------- MODULE PortalAccess ----------------------------
(***************************************************************************)
(* The portal protocol of the ABI code generator (codegen/portal.rs and    *)
(* portal_plan.rs).  A dynamic access does not address the region from the *)
(* frame: it migrates the dispatch context to the region's own portal, a   *)
(* small set of protocol cells before the payload, runs a shared accessor  *)
(* there and migrates back.  An object of several cells takes one round    *)
(* trip per leaf, the offset being incremented in between; a private       *)
(* buffer of the frame holds the object meanwhile.  A global region is     *)
(* reached through route cells of the frame and a router.                  *)
(*                                                                         *)
(* Every action is the body of one dispatched continuation; which one is   *)
(* decided by the PC in the current context, as in the program, and never  *)
(* by what the model remembers.  (Dispatcher models the selection itself,  *)
(* AbiStack the navigation.)                                               *)
(***************************************************************************)
EXTENDS Integers, Sequences

CONSTANTS
    Cells, CellBase, Payload, Sites, None,
    Globals,        \* the regions in static storage
    Scalars,        \* Address::Frame cells
    Abi,            \* the Value cell of the caller's context, Address::AbiValue
    Plans,          \* the values of frame_returns
    BufferCells     \* portal_temporary_cells: the cells of the widest access

Operations == {"load", "store"}

(* What the validator and the layout guarantee of every site               *)
(* (validate_terminator, validate_logical_offset, layout_plan.rs).         *)
ASSUME PortalAssumption ==
    /\ CellBase \in Nat \ {0, 1} /\ BufferCells \in Nat /\ Plans \subseteq BOOLEAN
    /\ Abi \in Cells /\ None \notin Cells
    /\ "frame" \notin DOMAIN Payload
    /\ \A r \in DOMAIN Payload : Payload[r] \in Seq(Cells)
    /\ \A s \in Sites :
          /\ DOMAIN s = {"kind", "region", "low", "high", "operand", "dead"}
          /\ s.kind \in Operations /\ s.region \in DOMAIN Payload
          /\ s.low \in Cells /\ s.high \in (Cells \ {s.low}) \cup {None}
          /\ s.operand \in Seq(Cells) \ {<<>>} /\ s.dead \subseteq Cells
          /\ Len(s.operand) > 1 => Len(s.operand) <= BufferCells
    /\ None \notin [site : Sites, cell : [Cells -> 0 .. CellBase - 1]]

VARIABLES
    cell,           \* program cells
    buffer,         \* portal_temporary cells of the frame
    field,          \* field[r]: protocol cells of the portal of region r
    route,          \* route cells of the frame
    ctx,            \* the current context: a region, or Frame
    pc,             \* NextPc of the frame's context
    begun,          \* history: the access under way and the cells it found, or None
    last,           \* history: the access just made, as in AggregateAccess
    frameReturns    \* PortalPlan::frame_returns: the site PC stays in the caller

vars == <<cell, buffer, field, route, ctx, pc, begun, last, frameReturns>>

VM == INSTANCE AggregateAccess

Leaves(s) == VM!Leaves(s)
Regions == DOMAIN Payload
Frame   == "frame"

(* Continuations, user and hidden (PortalPlan::with_fixed_contexts). *)
Code            == [kind |-> "code"]
Resume(s, leaf) == [kind |-> "resume", site |-> s, leaf |-> leaf]
Router(r, op)   == [kind |-> "router", region |-> r, op |-> op]
Accessor(op, selects) == [kind |-> "accessor", op |-> op, selects |-> selects]

IsGlobal(s)    == s.region \in Globals
FrameReturn(s) == frameReturns /\ IsGlobal(s)

ZeroFields == [index |-> 0, high |-> 0, value |-> 0, active |-> 0, next |-> None, ret |-> None]
ZeroRoute  == [low |-> 0, high |-> 0, value |-> 0, accessor |-> None, resume |-> None]

Init ==
    /\ cell = [c \in Cells |-> 0]
    /\ buffer = [i \in 1 .. BufferCells |-> 0]
    /\ field = [r \in Regions |-> ZeroFields]
    /\ route = ZeroRoute
    /\ ctx = Frame /\ pc = Code
    /\ begun = None /\ last = None
    /\ frameReturns \in Plans

-----------------------------------------------------------------------------
(* portal_source_dead and portal_offset_dead: the offset cells a request   *)
(* may consume instead of copying.  They are read again for every leaf;    *)
(* low must not be consumed before high is read, nor the offset before the *)
(* value of the same cell; an index field of a frame region may be payload *)
(* of that region.  (Mutant: at any leaf.)                                 *)
SourceDead(s, c) == c \in s.dead \cap Scalars
OffsetDead_AnyLeaf(s, leaf, c, low) ==
    /\ SourceDead(s, c)
    /\ ~(low /\ c = s.high)
    /\ ~(Leaves(s) = 1 /\ s.kind = "store" /\ s.operand[1] = c)
OffsetDead(s, leaf, c, low) ==
    /\ SourceDead(s, c) \/ (IsGlobal(s) /\ Leaves(s) = 1 /\ c \in s.dead)
    /\ leaf = Leaves(s)
    /\ ~(low /\ c = s.high)
    /\ ~(Leaves(s) = 1 /\ s.kind = "store" /\ s.operand[1] = c)

(* consume_portal_payload: the leaves of the buffer always are.  (Mutant:  *)
(* only a dead source.)                                                    *)
PayloadConsumed_Single(s) == s.kind = "store" /\ SourceDead(s, s.operand[1])
PayloadConsumed(s) == s.kind = "store" /\ (Leaves(s) > 1 \/ SourceDead(s, s.operand[1]))

(* The continuation that takes the leaf: one per leaf.  (Mutant: the first *)
(* leaf's for all of them.)                                                *)
ResumePc_First(s, leaf) == Resume(s, 1)
ResumePc(s, leaf) == Resume(s, leaf)

Without(mem, c, consumed) == IF consumed /\ c # None THEN [mem EXCEPT ![c] = 0] ELSE mem

(* emit_portal_call_inner and stage_global_portal: low half, high half and *)
(* value, in this order, into the portal, which becomes active, or for a   *)
(* global region into the route cells.                                     *)
Request(s, leaf, mem, buf, fields, rt) ==
    LET high   == IF VM!IsWord(s) THEN s.high ELSE None
        mem1   == Without(mem, s.low, OffsetDead(s, leaf, s.low, TRUE))
        mem2   == Without(mem1, high, OffsetDead(s, leaf, high, FALSE))
        whole  == Leaves(s) > 1
        value  == CASE s.kind = "load" -> 0
                    [] whole           -> buf[leaf]
                    [] OTHER           -> mem2[s.operand[1]]
        digits == [low |-> mem[s.low], high |-> IF high = None THEN 0 ELSE mem1[high]]
    IN  /\ cell' = Without(mem2, IF whole THEN None ELSE s.operand[1], PayloadConsumed(s))
        /\ buffer' = IF whole /\ PayloadConsumed(s) THEN [buf EXCEPT ![leaf] = 0] ELSE buf
        /\ IF IsGlobal(s)
           THEN /\ route' = [low |-> digits.low, high |-> digits.high, value |-> value,
                             accessor |-> IF FrameReturn(s) THEN rt.accessor
                                          ELSE Accessor(s.kind, FALSE),
                             resume |-> ResumePc(s, leaf)]
                /\ pc' = Router(s.region, IF FrameReturn(s) THEN s.kind ELSE None)
                /\ field' = fields /\ ctx' = Frame
           ELSE /\ field' = [fields EXCEPT ![s.region] =
                        [index |-> digits.low, high |-> digits.high, value |-> value, active |-> 1,
                         next |-> Accessor(s.kind, FALSE), ret |-> ResumePc(s, leaf)]]
                /\ ctx' = s.region
                /\ pc' = None /\ route' = rt

(* emit_portal_start_inner: a store of several cells reads its whole       *)
(* source before any leaf is sent.                                         *)
Staged(s) ==
    IF s.kind = "store" /\ Leaves(s) > 1
    THEN [i \in DOMAIN buffer |-> IF i <= Leaves(s) THEN cell[s.operand[i]] ELSE buffer[i]]
    ELSE buffer

(* The terminator of a continuation. *)
Begin(s) ==
    /\ ctx = Frame /\ pc = Code /\ last = None
    /\ VM!InRange(cell, s)
    /\ Request(s, 1, cell, Staged(s), field, route)
    /\ begun' = [site |-> s, cell |-> cell]
    /\ UNCHANGED last

(* A continuation that does not access a region. *)
UserCode ==
    /\ ctx = Frame /\ pc = Code
    /\ \E c \in Cells, v \in 0 .. CellBase - 1 : cell' = [cell EXCEPT ![c] = v]
    /\ last' = None
    /\ UNCHANGED <<buffer, field, route, ctx, pc, begun>>

-----------------------------------------------------------------------------
Sum(a, b) == (a + b) % CellBase

(* Unary transport into a cell that is taken to be zero: numbers add up,   *)
(* and PC bytes added to another PC are no PC.                             *)
Lost == [kind |-> "lost"]
Joined(old, new) == IF old = None THEN new ELSE Lost

(* emit_global_portal_router_inner: the request moves from the route cells *)
(* into the portal, which is taken to be zero.  With frameReturns the PCs  *)
(* are set at the portal, and a selector of the region stands for the      *)
(* return PC.                                                              *)
RouterBody ==
    /\ ctx = Frame /\ pc # None /\ pc.kind = "router"
    /\ LET old == field[pc.region]
           moved == [old EXCEPT !.index = Sum(@, route.low), !.high = Sum(@, route.high),
                                !.value = Sum(@, route.value), !.active = 1]
       IN  IF frameReturns
           THEN /\ field' = [field EXCEPT ![pc.region] =
                        [moved EXCEPT !.next = Accessor(pc.op, TRUE), !.ret = pc.region]]
                /\ route' = [ZeroRoute EXCEPT !.resume = route.resume]
           ELSE /\ field' = [field EXCEPT ![pc.region] =
                        [moved EXCEPT !.next = Joined(@, route.accessor),
                                      !.ret = Joined(@, route.resume)]]
                /\ route' = ZeroRoute
    /\ ctx' = pc.region
    /\ pc' = None
    /\ UNCHANGED <<cell, buffer, begun, last>>

(* emit_aggregate_accessor_inner: the payload cell the offset selects is   *)
(* copied to Value (a load) or receives Value (a store).  An offset beyond *)
(* the payload reaches some other cell.                                    *)
Here   == field[ctx]
Chosen == Here.index + CellBase * Here.high + 1
Reached == IF Chosen <= Len(Payload[ctx]) THEN {Payload[ctx][Chosen]} ELSE Cells

AccessedCells(op, at) == IF op = "load" THEN cell ELSE [cell EXCEPT ![at] = Here.value]
AccessedFields(op, at) ==
    [Here EXCEPT !.index = 0, !.high = 0, !.value = IF op = "load" THEN cell[at] ELSE 0]

(* The accessor of a frame region and the generic one: on to ReturnPc. *)
AccessorBody(op) ==
    /\ ctx # Frame /\ Here.next = Accessor(op, FALSE)
    /\ \E at \in Reached :
          /\ cell' = AccessedCells(op, at)
          /\ field' = [field EXCEPT
                ![ctx] = [AccessedFields(op, at) EXCEPT !.next = Here.ret, !.ret = None]]
    /\ UNCHANGED <<buffer, route, ctx, pc, begun, last>>

(* emit_global_portal_return: every protocol field is cleared but the      *)
(* loaded Value, which is moved into the caller's.  (Mutant: Active stays.)*)
Cleared_ActiveKept(fields) == [ZeroFields EXCEPT !.active = fields.active]
Cleared(fields) == ZeroFields

(* emit_global_return_selector: the accessor of the globals returns by the *)
(* selector, and the caller's route cells hold the PC to resume at.        *)
SelectingAccessorBody(op) ==
    /\ ctx # Frame /\ Here.next = Accessor(op, TRUE)
    /\ \E at \in Reached :
          LET after == AccessedFields(op, at)
              mem   == AccessedCells(op, at)
          IN  /\ cell' = IF op = "load" THEN [mem EXCEPT ![Abi] = after.value] ELSE mem
              /\ field' = [field EXCEPT ![Here.ret] = Cleared(after)]
    /\ ctx' = Frame
    /\ pc' = route.resume
    /\ route' = [route EXCEPT !.resume = None]
    /\ UNCHANGED <<buffer, begun, last>>

-----------------------------------------------------------------------------
(* increment_portal_offset: the high half counts when low becomes zero.    *)
(* (Mutant: when it was zero.)                                             *)
Incremented_CarryEarly(mem, s) ==
    LET low == Sum(mem[s.low], 1)
    IN  [mem EXCEPT ![s.low] = low, ![s.high] = IF mem[s.low] = 0 THEN Sum(@, 1) ELSE @]
Incremented(mem, s) ==
    LET low == Sum(mem[s.low], 1)
    IN  [mem EXCEPT ![s.low] = low, ![s.high] = IF low = 0 THEN Sum(@, 1) ELSE @]

(* move_location, which does nothing between a cell and itself. *)
Delivered(mem, dst) == IF dst = Abi THEN mem ELSE [mem EXCEPT ![dst] = mem[Abi], ![Abi] = 0]

(* The leaves of a loaded object, from the buffer to the operand. *)
Unstaged(mem, buf, s) == VM!Written(mem, s.operand, buf)

(* emit_portal_resume_inner *)
ResumeBody(s, leaf) ==
    LET there  == ctx # Frame
        whole  == Leaves(s) > 1
        loads  == s.kind = "load"
        final  == leaf = Leaves(s)
        fields == IF there THEN [field EXCEPT ![ctx] = Cleared(Here)] ELSE field
        mem1   == IF there /\ loads THEN [cell EXCEPT ![Abi] = Here.value] ELSE cell
        mem2   == IF ~loads THEN mem1
                  ELSE IF whole THEN [mem1 EXCEPT ![Abi] = 0]
                  ELSE Delivered(mem1, s.operand[1])
        buf    == IF loads /\ whole THEN [buffer EXCEPT ![leaf] = mem1[Abi]] ELSE buffer
    IN  /\ (IF there THEN Here.next ELSE pc) = Resume(s, leaf)
        /\ IF final
           THEN /\ cell' = IF loads /\ whole THEN Unstaged(mem2, buf, s) ELSE mem2
                /\ buffer' = IF loads /\ whole THEN [i \in DOMAIN buf |-> 0] ELSE buf
                /\ field' = fields
                /\ ctx' = Frame /\ pc' = Code
                /\ last' = begun.site /\ begun' = None
                /\ UNCHANGED route
           ELSE /\ Request(s, leaf + 1, Incremented(mem2, s), buf, fields, route)
                /\ UNCHANGED <<begun, last>>

Protocol ==
    /\ \/ RouterBody
       \/ \E op \in {"load", "store"} : AccessorBody(op) \/ SelectingAccessorBody(op)
       \/ \E s \in Sites : \E leaf \in 1 .. Leaves(s) : ResumeBody(s, leaf)
    /\ UNCHANGED frameReturns

Program ==
    /\ (\E s \in Sites : Begin(s)) \/ UserCode
    /\ UNCHANGED frameReturns

Next == Program \/ Protocol

(* Brainfuck code runs on: the protocol is never suspended. *)
Spec == Init /\ [][Next]_vars /\ WF_vars(Protocol)

-----------------------------------------------------------------------------
Busy == begun # None

(* A portal that is not the current context has all its protocol cells     *)
(* zero: the router adds to them without clearing them first               *)
(* (move_global_portal_request_fields).  Between two accesses the private  *)
(* buffer is zero too: the last leaf of every request has consumed its     *)
(* cell (emit_portal_resume_inner).                                        *)
PortalsClean ==
    /\ \A r \in Regions \ {ctx} : field[r] = ZeroFields
    /\ ~Busy => \A i \in DOMAIN buffer : buffer[i] = 0

(* Every access comes back to the program. *)
AccessEnds == Busy ~> ~Busy

(* Leaf by leaf, with its offset moving in between, an access does to the  *)
(* cells of the program what the VM does in one step: "consecutive payload *)
(* cells are copied atomically" (ir.rs, AggregateLoad).                    *)
Atomic == INSTANCE AggregateAccess WITH cell <- IF Busy THEN begun.cell ELSE cell

ImplementsAtomicAccess == Atomic!Spec

-----------------------------------------------------------------------------
(* Cells the protocol may use up or overwrite: the program is through with *)
(* them (portal_source_dead, portal_offset_dead).  And the cells that the  *)
(* increments of an offset move.                                           *)
Loose(s) ==
    (s.dead \cap Scalars)
        \cup (IF IsGlobal(s) THEN s.dead \cap {s.low, s.high} ELSE {})
        \cup (IF s.kind = "load" THEN {Abi} ELSE {})
Moving(s) == IF Leaves(s) > 1 THEN {s.low, s.high} ELSE {}

(* What the front ends emit: a payload of different cells that a 16-bit    *)
(* offset spans, and no cell of it or of a loaded object among those the   *)
(* protocol uses up or moves.  Offsets of objects are private scalars      *)
(* (lowering/mod.rs 1330-1375, portal_offset.rs), and the caller's Value   *)
(* is overwritten before it is read.  The validator does not ask for it.   *)
Emitted(s) ==
    /\ \A i, j \in DOMAIN Payload[s.region] : Payload[s.region][i] = Payload[s.region][j] => i = j
    /\ \A i \in DOMAIN Payload[s.region] : Payload[s.region][i] \notin Loose(s) \cup Moving(s)
    /\ VM!IsWord(s) => Len(Payload[s.region]) <= CellBase * CellBase
    /\ Leaves(s) > 1 => VM!IsWord(s)
    /\ s.kind = "load" => /\ Abi \in s.dead \ Moving(s)
                          /\ \A i \in 1 .. Leaves(s) : s.operand[i] \notin Moving(s)
SitesEmitted == \A s \in Sites : Emitted(s)
=============================================================================
