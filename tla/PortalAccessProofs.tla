------------------------- MODULE PortalAccessProofs -------------------------
(***************************************************************************)
(* The portal protocol leaves no portal and no buffer dirty, and an access *)
(* made of several requests is one step of the program, for every set of   *)
(* regions and of sites.                                                   *)
(*                                                                         *)
(* Control says where the request under way is and that its resume PC is   *)
(* there with it; Data what it carries and what the cells hold meanwhile,  *)
(* both in terms of the site and the memory the access found.              *)
(***************************************************************************)
EXTENDS PortalAccess, CommonLemmas, SequenceTheorems

Byte == 0 .. CellBase - 1

(* Every protocol cell has a value that a cell can hold. *)
PortalTyped(f) ==
    DOMAIN f = DOMAIN ZeroFields /\ f.index \in Byte /\ f.high \in Byte /\ f.value \in Byte
RouteTyped(f) ==
    DOMAIN f = DOMAIN ZeroRoute /\ f.low \in Byte /\ f.high \in Byte /\ f.value \in Byte

Types ==
    /\ cell \in [Cells -> Byte] /\ buffer \in [1 .. BufferCells -> Byte]
    /\ DOMAIN field = Regions
    /\ \A r \in Regions : PortalTyped(field[r])
    /\ RouteTyped(route)
    /\ frameReturns \in BOOLEAN

(* Leaf L of site s is at the router, at the portal, or back from it. *)
Routed(s, L) ==
    /\ ctx = Frame /\ IsGlobal(s)
    /\ pc = Router(s.region, IF frameReturns THEN s.kind ELSE None)
    /\ route.resume = Resume(s, L)
    /\ ~frameReturns => route.accessor = Accessor(s.kind, FALSE)

Asked(s, L) ==
    /\ ctx = s.region
    /\ \/ Here.next = Accessor(s.kind, FALSE) /\ Here.ret = Resume(s, L)
       \/ Here.next = Accessor(s.kind, TRUE) /\ Here.ret = ctx /\ route.resume = Resume(s, L)

Answered(s, L) ==
    \/ ctx = s.region /\ Here.next = Resume(s, L)
    \/ ctx = Frame /\ pc = Resume(s, L)

Idle == begun = None /\ ctx = Frame /\ pc = Code

(* The leaves of a store that were sent, and those there are not. *)
BufferSent(s, L) ==
    \A i \in 1 .. BufferCells :
        /\ s.kind = "store" /\ (i <= L \/ i > Leaves(s)) => buffer[i] = 0
        /\ Leaves(s) = 1 => buffer[i] = 0

Underway(s, L) ==
    /\ begun \in [site : {s}, cell : [Cells -> Byte]]
    /\ Routed(s, L) \/ Asked(s, L) \/ Answered(s, L)
    /\ BufferSent(s, L)

Clean == \A r \in Regions \ {ctx} : field[r] = ZeroFields

Control ==
    \/ Idle /\ buffer = [i \in 1 .. BufferCells |-> 0]
    \/ \E s \in Sites : \E L \in 1 .. Leaves(s) : Underway(s, L)

IInv == Types /\ Clean /\ Control

-----------------------------------------------------------------------------
LEMMA SiteFacts ==
    ASSUME NEW s \in Sites
    PROVE  /\ s.kind \in {"load", "store"} /\ s.region \in Regions
           /\ s.low \in Cells /\ (s.high = None \/ s.high \in Cells) /\ s.high # s.low
           /\ s.operand \in Seq(Cells) /\ Leaves(s) \in Nat \ {0}
           /\ DOMAIN s.operand = 1 .. Leaves(s)
           /\ \A i \in 1 .. Leaves(s) : s.operand[i] \in Cells
           /\ Leaves(s) > 1 => Leaves(s) <= BufferCells
           /\ Payload[s.region] \in Seq(Cells)
<1>1. /\ s.kind \in {"load", "store"} /\ s.region \in Regions
      /\ s.low \in Cells /\ (s.high = None \/ s.high \in Cells) /\ s.high # s.low
      /\ s.operand \in Seq(Cells) /\ s.operand # <<>>
      /\ Len(s.operand) > 1 => Len(s.operand) <= BufferCells
      /\ Payload[s.region] \in Seq(Cells)
  BY PortalAssumption DEF Operations, Regions
<1>2. Leaves(s) = Len(s.operand)
  BY DEF Leaves, VM!Leaves
<1>3. Leaves(s) \in Nat \ {0} /\ DOMAIN s.operand = 1 .. Leaves(s)
  BY <1>1, <1>2
<1> QED
  BY <1>1, <1>2, <1>3

LEMMA Constants ==
    /\ CellBase \in Nat /\ CellBase >= 2 /\ BufferCells \in Nat
    /\ 0 \in Byte /\ \A a, b \in Byte : Sum(a, b) \in Byte /\ Sum(0, a) = a
    /\ Abi \in Cells /\ None \notin Cells /\ Frame \notin Regions
    /\ \A r \in Regions : Payload[r] \in Seq(Cells)
BY PortalAssumption DEF Byte, Sum, Frame, Regions

(* PCs of different kinds differ, and those of one kind in their parts. *)
LEMMA PcsDiffer ==
    ASSUME NEW s, NEW L
    PROVE  /\ Code # Resume(s, L)
           /\ \A r, o : Router(r, o) # Code /\ Router(r, o) # Resume(s, L)
           /\ \A o, b : Accessor(o, b) # Resume(s, L)
           /\ \A t, M : Resume(t, M) = Resume(s, L) => t = s /\ M = L
           /\ \A o, p : Accessor(o, TRUE) # Accessor(p, FALSE)
           /\ \A o, p, b : Accessor(o, b) = Accessor(p, b) => o = p
           /\ Code.kind # "router" /\ Resume(s, L).kind # "router"
BY DEF Code, Resume, Router, Accessor

(* A request: its operands are in the route cells or at the portal. *)
RequestMade(s, leaf, low, high, value, fields, rt) ==
    IF IsGlobal(s)
    THEN /\ route' = [low |-> low, high |-> high, value |-> value,
                      accessor |-> IF FrameReturn(s) THEN rt.accessor ELSE Accessor(s.kind, FALSE),
                      resume |-> Resume(s, leaf)]
         /\ pc' = Router(s.region, IF FrameReturn(s) THEN s.kind ELSE None)
         /\ field' = fields /\ ctx' = Frame
    ELSE /\ field' = [fields EXCEPT ![s.region] =
                [index |-> low, high |-> high, value |-> value, active |-> 1,
                 next |-> Accessor(s.kind, FALSE), ret |-> Resume(s, leaf)]]
         /\ ctx' = s.region /\ pc' = None /\ route' = rt

(* What a request reads, it reads before it uses it up. *)
LEMMA RequestEffect ==
    ASSUME NEW s \in Sites, NEW leaf \in 1 .. Leaves(s),
           NEW mem \in [Cells -> Byte], NEW buf \in [1 .. BufferCells -> Byte],
           NEW fields, NEW rt, Request(s, leaf, mem, buf, fields, rt)
    PROVE  /\ cell' \in [Cells -> Byte]
           /\ \A c \in Cells \ Loose(s) : cell'[c] = mem[c]
           /\ leaf < Leaves(s) => cell' = mem
           /\ buffer' = IF Leaves(s) > 1 /\ s.kind = "store" THEN [buf EXCEPT ![leaf] = 0] ELSE buf
           /\ \E value \in Byte :
                 /\ RequestMade(s, leaf, mem[s.low], IF s.high = None THEN 0 ELSE mem[s.high],
                                value, fields, rt)
                 /\ s.kind = "store" =>
                        value = IF Leaves(s) > 1 THEN buf[leaf] ELSE mem[s.operand[1]]
<1> DEFINE high   == IF VM!IsWord(s) THEN s.high ELSE None
           mem1   == Without(mem, s.low, OffsetDead(s, leaf, s.low, TRUE))
           mem2   == Without(mem1, high, OffsetDead(s, leaf, high, FALSE))
           whole  == Leaves(s) > 1
           value  == CASE s.kind = "load" -> 0
                       [] whole           -> buf[leaf]
                       [] OTHER           -> mem2[s.operand[1]]
           digits == [low |-> mem[s.low], high |-> IF high = None THEN 0 ELSE mem1[high]]
           mem3   == Without(mem2, IF whole THEN None ELSE s.operand[1], PayloadConsumed(s))
<1>1. /\ cell' = mem3
      /\ buffer' = IF whole /\ PayloadConsumed(s) THEN [buf EXCEPT ![leaf] = 0] ELSE buf
      /\ IF IsGlobal(s)
         THEN /\ route' = [low |-> digits.low, high |-> digits.high, value |-> value,
                           accessor |-> IF FrameReturn(s) THEN rt.accessor
                                        ELSE Accessor(s.kind, FALSE),
                           resume |-> ResumePc(s, leaf)]
              /\ pc' = Router(s.region, IF FrameReturn(s) THEN s.kind ELSE None)
              /\ field' = fields /\ ctx' = Frame
         ELSE /\ field' = [fields EXCEPT ![s.region] =
                      [index |-> digits.low, high |-> digits.high, value |-> value, active |-> 1,
                       next |-> Accessor(s.kind, FALSE), ret |-> ResumePc(s, leaf)]]
              /\ ctx' = s.region
              /\ pc' = None /\ route' = rt
  BY Zenon DEF Request
<1>2. /\ s.kind \in {"load", "store"} /\ s.low \in Cells
      /\ (s.high = None \/ s.high \in Cells) /\ s.high # s.low
      /\ None \notin Cells /\ 0 \in Byte /\ Leaves(s) \in Nat \ {0}
      /\ s.operand[1] \in Cells /\ (Leaves(s) > 1 => Leaves(s) <= BufferCells)
      /\ BufferCells \in Nat
  BY SiteFacts, Constants
<1>3. high = s.high
  BY DEF VM!IsWord
<1>4. /\ OffsetDead(s, leaf, s.low, TRUE) => s.low \in Loose(s) /\ leaf = Leaves(s)
      /\ OffsetDead(s, leaf, high, FALSE) /\ high # None => high \in Loose(s) /\ leaf = Leaves(s)
  BY <1>3 DEF OffsetDead, SourceDead, Loose
<1>5. /\ mem1 \in [Cells -> Byte]
      /\ \A c \in Cells : c # s.low => mem1[c] = mem[c]
      /\ \A c \in Cells : ~OffsetDead(s, leaf, s.low, TRUE) => mem1[c] = mem[c]
  BY <1>2 DEF Without
<1> HIDE DEF mem1
<1>6. /\ mem2 \in [Cells -> Byte]
      /\ \A c \in Cells : c # high => mem2[c] = mem1[c]
      /\ \A c \in Cells : ~OffsetDead(s, leaf, high, FALSE) => mem2[c] = mem1[c]
  BY <1>2, <1>3, <1>5 DEF Without
<1> HIDE DEF mem2, high
<1>7. /\ mem3 \in [Cells -> Byte]
      /\ \A c \in Cells : c # s.operand[1] \/ whole \/ ~PayloadConsumed(s) => mem3[c] = mem2[c]
  BY <1>2, <1>6 DEF Without
<1>8. ~whole /\ PayloadConsumed(s) => s.operand[1] \in Loose(s)
  BY DEF PayloadConsumed, SourceDead, Loose
<1> HIDE DEF mem3
<1>9. \A c \in Cells \ Loose(s) : mem3[c] = mem[c]
  <2> SUFFICES ASSUME NEW c \in Cells, c \notin Loose(s) PROVE mem3[c] = mem[c]
    BY Zenon
  <2>1. mem3[c] = mem2[c]
    BY <1>7, <1>8
  <2>2. mem2[c] = mem1[c]
    BY <1>2, <1>4, <1>6
  <2>3. mem1[c] = mem[c]
    BY <1>4, <1>5
  <2> QED
    BY <2>1, <2>2, <2>3
<1>10. leaf < Leaves(s) => mem3 = mem
  <2> SUFFICES ASSUME leaf < Leaves(s), NEW c \in Cells PROVE mem3[c] = mem[c]
    BY <1>7
  <2>1. whole /\ ~(leaf = Leaves(s))
    BY <1>2
  <2>2. ~OffsetDead(s, leaf, s.low, TRUE) /\ ~OffsetDead(s, leaf, high, FALSE)
    BY <2>1 DEF OffsetDead
  <2>3. mem3[c] = mem2[c]
    BY <1>7, <2>1
  <2> QED
    BY <1>5, <1>6, <2>2, <2>3
<1>11. PayloadConsumed(s) \/ ~(whole /\ s.kind = "store")
  BY DEF PayloadConsumed
<1>12. PayloadConsumed(s) => s.kind = "store"
  BY DEF PayloadConsumed
<1>13. /\ digits.low = mem[s.low]
       /\ digits.high = IF s.high = None THEN 0 ELSE mem[s.high]
  BY <1>2, <1>3, <1>5
<1>14. /\ value \in Byte
       /\ s.kind = "store" => value = IF whole THEN buf[leaf] ELSE mem[s.operand[1]]
  <2>1. CASE s.kind = "load"
    BY <1>2, <2>1
  <2>2. CASE s.kind = "store" /\ whole
    <3>1. leaf \in 1 .. BufferCells /\ value = buf[leaf]
      BY <1>2, <2>2
    <3> QED
      BY <2>2, <3>1
  <2>3. CASE s.kind = "store" /\ ~whole
    <3>1. value = mem2[s.operand[1]] /\ Leaves(s) = 1
      BY <1>2, <2>3
    <3>2. /\ s.operand[1] = s.low => ~OffsetDead(s, leaf, s.low, TRUE)
          /\ s.operand[1] = high => ~OffsetDead(s, leaf, high, FALSE)
      BY <2>3, <3>1 DEF OffsetDead
    <3>3. mem2[s.operand[1]] = mem[s.operand[1]]
      BY <1>2, <1>5, <1>6, <3>2
    <3> QED
      BY <1>2, <2>3, <3>1, <3>3
  <2> QED
    BY <1>2, <2>1, <2>2, <2>3
<1> HIDE DEF digits, value
<1>15. RequestMade(s, leaf, mem[s.low], IF s.high = None THEN 0 ELSE mem[s.high], value, fields, rt)
  BY <1>1, <1>13 DEF RequestMade, ResumePc
<1> QED
  BY <1>1, <1>7, <1>9, <1>10, <1>11, <1>12, <1>14, <1>15

(* Where a request leaves the protocol, the portals being clean before. *)
RequestGiven(s, L, mem, buf) ==
    \E low, high, value \in Byte :
        /\ low = mem[s.low] /\ high = IF s.high = None THEN 0 ELSE mem[s.high]
        /\ s.kind = "store" => value = IF Leaves(s) > 1 THEN buf[L] ELSE mem[s.operand[1]]
        /\ \/ /\ Routed(s, L)'
              /\ route'.low = low /\ route'.high = high /\ route'.value = value
           \/ /\ Asked(s, L)'
              /\ Here'.index = low /\ Here'.high = high /\ Here'.value = value

LEMMA RequestAsked ==
    ASSUME NEW s \in Sites, NEW L \in 1 .. Leaves(s),
           NEW mem \in [Cells -> Byte], NEW buf \in [1 .. BufferCells -> Byte],
           NEW fields, NEW rt, Request(s, L, mem, buf, fields, rt),
           DOMAIN fields = Regions, \A r \in Regions : fields[r] = ZeroFields,
           RouteTyped(rt), frameReturns \in BOOLEAN, UNCHANGED frameReturns
    PROVE  /\ Types' /\ Clean'
           /\ RequestGiven(s, L, mem, buf)
<1>1. /\ s.low \in Cells /\ (s.high = None \/ s.high \in Cells) /\ s.region \in Regions
      /\ Frame \notin Regions /\ 0 \in Byte /\ BufferCells \in Nat
  BY SiteFacts, Constants
<1>2. /\ cell' \in [Cells -> Byte]
      /\ buffer' = IF Leaves(s) > 1 /\ s.kind = "store" THEN [buf EXCEPT ![L] = 0] ELSE buf
  BY RequestEffect
<1>3. PICK value \in Byte :
         /\ RequestMade(s, L, mem[s.low], IF s.high = None THEN 0 ELSE mem[s.high], value, fields, rt)
         /\ s.kind = "store" => value = IF Leaves(s) > 1 THEN buf[L] ELSE mem[s.operand[1]]
  BY RequestEffect, Zenon
<1>4. PICK low \in Byte, high \in Byte :
         /\ low = mem[s.low] /\ high = IF s.high = None THEN 0 ELSE mem[s.high]
         /\ RequestMade(s, L, low, high, value, fields, rt)
  BY <1>1, <1>3
<1>5. buffer' \in [1 .. BufferCells -> Byte]
  BY <1>1, <1>2
<1>6. PortalTyped(ZeroFields)
  BY <1>1 DEF PortalTyped, ZeroFields
<1>7. CASE IsGlobal(s)
  <2>1. /\ route' = [low |-> low, high |-> high, value |-> value,
                     accessor |-> IF FrameReturn(s) THEN rt.accessor ELSE Accessor(s.kind, FALSE),
                     resume |-> Resume(s, L)]
        /\ pc' = Router(s.region, IF FrameReturn(s) THEN s.kind ELSE None)
        /\ field' = fields /\ ctx' = Frame
    BY <1>4, <1>7 DEF RequestMade
  <2>2. RouteTyped(route')
    BY <2>1 DEF RouteTyped, ZeroRoute
  <2>3. FrameReturn(s) <=> frameReturns
    BY <1>7 DEF FrameReturn
  <2>4. Types'
    BY <1>2, <1>5, <1>6, <2>1, <2>2 DEF Types
  <2>5. Clean'
    BY <1>1, <2>1 DEF Clean
  <2>6. Routed(s, L)'
    BY <1>7, <2>1, <2>3 DEF Routed, IsGlobal
  <2>7. route'.low = low /\ route'.high = high /\ route'.value = value
    BY <2>1
  <2> QED
    BY <1>3, <1>4, <2>4, <2>5, <2>6, <2>7 DEF RequestGiven
<1>8. CASE ~IsGlobal(s)
  <2> DEFINE sent == [index |-> low, high |-> high, value |-> value, active |-> 1,
                      next |-> Accessor(s.kind, FALSE), ret |-> Resume(s, L)]
  <2>1. /\ field' = [fields EXCEPT ![s.region] = sent]
        /\ ctx' = s.region /\ pc' = None /\ route' = rt
    BY <1>4, <1>8 DEF RequestMade
  <2>2. /\ PortalTyped(sent) /\ sent.next = Accessor(s.kind, FALSE) /\ sent.ret = Resume(s, L)
        /\ sent.index = low /\ sent.high = high /\ sent.value = value
    BY DEF PortalTyped, ZeroFields
  <2> HIDE DEF sent
  <2>3. Types'
    BY <1>1, <1>2, <1>5, <1>6, <2>1, <2>2 DEF Types
  <2>4. Clean'
    BY <1>1, <2>1 DEF Clean
  <2>5. Asked(s, L)'
    BY <1>1, <2>1, <2>2 DEF Asked, Here
  <2>6. Here'.index = low /\ Here'.high = high /\ Here'.value = value
    BY <1>1, <2>1, <2>2 DEF Here
  <2> QED
    BY <1>3, <1>4, <2>3, <2>4, <2>5, <2>6 DEF RequestGiven
<1> QED
  BY <1>7, <1>8

LEMMA BeginKeeps ==
    ASSUME Types, Clean, Idle, \A i \in 1 .. BufferCells : buffer[i] = 0,
           NEW s \in Sites, Begin(s), UNCHANGED frameReturns
    PROVE  Types' /\ Clean' /\ Underway(s, 1)'
<1>1. /\ Leaves(s) \in Nat \ {0} /\ 0 \in Byte /\ BufferCells \in Nat /\ Frame \notin Regions
      /\ \A i \in 1 .. Leaves(s) : s.operand[i] \in Cells
      /\ s.kind \in {"load", "store"} /\ (Leaves(s) > 1 => Leaves(s) <= BufferCells)
  BY SiteFacts, Constants
<1>2. Staged(s) \in [1 .. BufferCells -> Byte]
  BY <1>1 DEF Staged, Types
<1>3. \A i \in 1 .. BufferCells :
         s.kind # "store" \/ Leaves(s) = 1 \/ i > Leaves(s) => Staged(s)[i] = 0
  BY <1>1 DEF Staged, Types
<1>4. Request(s, 1, cell, Staged(s), field, route) /\ begun' = [site |-> s, cell |-> cell]
  BY DEF Begin
<1>5. 1 \in 1 .. Leaves(s)
  BY <1>1
<1>6. \A r \in Regions : field[r] = ZeroFields
  BY <1>1 DEF Clean, Idle
<1>7. Types' /\ Clean' /\ (Routed(s, 1)' \/ Asked(s, 1)')
  <2>1. Types' /\ Clean' /\ RequestGiven(s, 1, cell, Staged(s))
    BY <1>2, <1>4, <1>5, <1>6, RequestAsked DEF Types
  <2> QED
    BY <2>1 DEF RequestGiven
<1>8. buffer' = IF Leaves(s) > 1 /\ s.kind = "store" THEN [Staged(s) EXCEPT ![1] = 0] ELSE Staged(s)
  BY <1>2, <1>4, <1>5, RequestEffect DEF Types
<1>9. BufferSent(s, 1)'
  <2> SUFFICES ASSUME NEW i \in 1 .. BufferCells
               PROVE  /\ s.kind = "store" /\ (i <= 1 \/ i > Leaves(s)) => buffer'[i] = 0
                      /\ Leaves(s) = 1 => buffer'[i] = 0
    BY DEF BufferSent
  <2> QED
    BY <1>1, <1>2, <1>3, <1>8
<1>10. begun' \in [site : {s}, cell : [Cells -> Byte]]
  BY <1>4 DEF Types
<1>11. Underway(s, 1)'
  BY <1>7, <1>9, <1>10 DEF Underway
<1> QED
  BY <1>7, <1>11

LEMMA UserCodeKeeps ==
    ASSUME Types, Clean, Idle, UserCode, UNCHANGED frameReturns
    PROVE  Types' /\ Clean' /\ Idle' /\ UNCHANGED buffer
<1>1. PICK c \in Cells, v \in Byte : cell' = [cell EXCEPT ![c] = v]
  BY DEF UserCode, Byte
<1>2. UNCHANGED <<buffer, field, route, ctx, pc, begun>>
  BY DEF UserCode
<1>3. cell' \in [Cells -> Byte]
  BY <1>1 DEF Types
<1> QED
  BY <1>2, <1>3 DEF Types, Clean, Idle

LEMMA RouterKeeps ==
    ASSUME Types, Clean, NEW s \in Sites, NEW L \in 1 .. Leaves(s), Routed(s, L),
           RouterBody, UNCHANGED frameReturns
    PROVE  /\ Types' /\ Clean' /\ Asked(s, L)' /\ UNCHANGED <<cell, buffer, begun>>
           /\ Here'.index = route.low /\ Here'.high = route.high /\ Here'.value = route.value
<1> DEFINE moved == [field[s.region] EXCEPT !.index = Sum(@, route.low), !.high = Sum(@, route.high),
                                            !.value = Sum(@, route.value), !.active = 1]
<1>1. /\ pc = Router(s.region, IF frameReturns THEN s.kind ELSE None) /\ ctx = Frame
      /\ route.resume = Resume(s, L) /\ (~frameReturns => route.accessor = Accessor(s.kind, FALSE))
      /\ s.region \in Regions /\ Frame \notin Regions /\ 0 \in Byte
  BY SiteFacts, Constants DEF Routed
<1>2. pc.region = s.region /\ (frameReturns => pc.op = s.kind)
  BY <1>1 DEF Router
<1>3. /\ field[s.region] = ZeroFields
      /\ \A r \in Regions : field[r] = ZeroFields
  BY <1>1 DEF Clean
<1>4. /\ route.low \in Byte /\ route.high \in Byte /\ route.value \in Byte
      /\ DOMAIN field = Regions
  BY DEF Types, RouteTyped
<1>5. moved = [index |-> route.low, high |-> route.high, value |-> route.value, active |-> 1,
               next |-> None, ret |-> None]
  <2>1. /\ Sum(0, route.low) = route.low /\ Sum(0, route.high) = route.high
        /\ Sum(0, route.value) = route.value
    BY <1>1, <1>4, Constants
  <2>2. moved = [ZeroFields EXCEPT !.index = Sum(0, route.low), !.high = Sum(0, route.high),
                                   !.value = Sum(0, route.value), !.active = 1]
    BY <1>3 DEF ZeroFields
  <2> HIDE DEF moved
  <2>3. moved = [ZeroFields EXCEPT !.index = route.low, !.high = route.high,
                                   !.value = route.value, !.active = 1]
    BY <2>1, <2>2
  <2> QED
    BY <2>3 DEF ZeroFields
<1>6. /\ ctx' = s.region /\ UNCHANGED <<cell, buffer, begun>>
      /\ IF frameReturns
         THEN /\ field' = [field EXCEPT ![s.region] =
                      [moved EXCEPT !.next = Accessor(pc.op, TRUE), !.ret = s.region]]
              /\ route' = [ZeroRoute EXCEPT !.resume = route.resume]
         ELSE /\ field' = [field EXCEPT ![s.region] =
                      [moved EXCEPT !.next = Joined(@, route.accessor),
                                    !.ret = Joined(@, route.resume)]]
              /\ route' = ZeroRoute
  BY <1>2, Zenon DEF RouterBody
<1> HIDE DEF moved
<1>7. PICK next, ret : /\ field' = [field EXCEPT ![s.region] =
                               [index |-> route.low, high |-> route.high, value |-> route.value,
                                active |-> 1, next |-> next, ret |-> ret]]
                       /\ \/ next = Accessor(s.kind, FALSE) /\ ret = Resume(s, L)
                          \/ /\ next = Accessor(s.kind, TRUE) /\ ret = s.region
                             /\ route'.resume = Resume(s, L)
  <2>1. CASE frameReturns
    <3>1. field' = [field EXCEPT ![s.region] =
                        [index |-> route.low, high |-> route.high, value |-> route.value,
                         active |-> 1, next |-> Accessor(s.kind, TRUE), ret |-> s.region]]
      BY <1>2, <1>5, <1>6, <2>1
    <3>2. route'.resume = Resume(s, L)
      BY <1>1, <1>6, <2>1 DEF ZeroRoute
    <3> QED
      BY <3>1, <3>2
  <2>2. CASE ~frameReturns
    <3>1. field' = [field EXCEPT ![s.region] =
                        [index |-> route.low, high |-> route.high, value |-> route.value,
                         active |-> 1, next |-> Accessor(s.kind, FALSE), ret |-> Resume(s, L)]]
      BY <1>1, <1>5, <1>6, <2>2 DEF Joined
    <3> QED
      BY <3>1
  <2> QED
    BY <2>1, <2>2
<1>8. RouteTyped(route')
  BY <1>1, <1>6 DEF RouteTyped, ZeroRoute
<1> DEFINE sent == [index |-> route.low, high |-> route.high, value |-> route.value,
                    active |-> 1, next |-> next, ret |-> ret]
<1>9. /\ PortalTyped(sent) /\ sent.next = next /\ sent.ret = ret
      /\ sent.index = route.low /\ sent.high = route.high /\ sent.value = route.value
  BY <1>4 DEF PortalTyped, ZeroFields
<1>10. field' = [field EXCEPT ![s.region] = sent]
  BY <1>7
<1> HIDE DEF sent
<1>11. Types'
  BY <1>4, <1>6, <1>8, <1>9, <1>10 DEF Types
<1>12. Clean'
  BY <1>1, <1>3, <1>4, <1>6, <1>10 DEF Clean
<1>13. Asked(s, L)'
  BY <1>1, <1>4, <1>6, <1>7, <1>9, <1>10 DEF Asked, Here
<1>14. Here'.index = route.low /\ Here'.high = route.high /\ Here'.value = route.value
  BY <1>1, <1>4, <1>6, <1>9, <1>10 DEF Here
<1> QED
  BY <1>6, <1>11, <1>12, <1>13, <1>14

LEMMA ReachedCells ==
    ASSUME Types, ctx \in Regions
    PROVE  Reached \subseteq Cells
<1>1. Here.index \in Nat /\ Here.high \in Nat /\ CellBase \in Nat /\ Payload[ctx] \in Seq(Cells)
  BY Constants DEF Types, PortalTyped, Here, Byte
<1>2. Chosen \in Nat \ {0}
  <2>1. \A a, b, c \in Nat : a + b * c + 1 \in Nat \ {0}
    OBVIOUS
  <2> QED
    BY <1>1, <2>1 DEF Chosen
<1>3. Chosen <= Len(Payload[ctx]) => Payload[ctx][Chosen] \in Cells
  BY <1>1, <1>2
<1> QED
  BY <1>3 DEF Reached

(* What an accessor leaves of the cells and of the portal it runs at. *)
LEMMA AccessorTyped ==
    ASSUME Types, ctx \in Regions, NEW at \in Reached, NEW op
    PROVE  /\ AccessedCells(op, at) \in [Cells -> Byte]
           /\ PortalTyped(AccessedFields(op, at))
           /\ AccessedFields(op, at).value = IF op = "load" THEN cell[at] ELSE 0
<1>1. at \in Cells /\ 0 \in Byte
  BY ReachedCells, Constants
<1>2. PortalTyped(Here)
  BY DEF Types, Here
<1>3. AccessedCells(op, at) \in [Cells -> Byte]
  BY <1>1, <1>2 DEF AccessedCells, Types, PortalTyped
<1> DEFINE value == IF op = "load" THEN cell[at] ELSE 0
<1>4. value \in Byte
  BY <1>1 DEF Types
<1>5. AccessedFields(op, at) = [Here EXCEPT !.index = 0, !.high = 0, !.value = value]
  BY DEF AccessedFields
<1> HIDE DEF value
<1>6. /\ PortalTyped(AccessedFields(op, at))
      /\ AccessedFields(op, at).value = value
  BY <1>1, <1>2, <1>4, <1>5 DEF PortalTyped, ZeroFields
<1> QED
  BY <1>3, <1>6 DEF value

LEMMA AccessorKeeps ==
    ASSUME Types, Clean, NEW s \in Sites, NEW L \in 1 .. Leaves(s), Asked(s, L),
           NEW op, AccessorBody(op), UNCHANGED frameReturns
    PROVE  /\ Types' /\ Clean' /\ Answered(s, L)' /\ UNCHANGED <<buffer, begun>>
           /\ \E at \in Reached :
                 IF s.kind = "load"
                 THEN /\ \A c \in Cells \ {Abi} : cell'[c] = cell[c]
                      /\ (IF ctx' = Frame THEN cell'[Abi] ELSE Here'.value) = cell[at]
                 ELSE cell' = [cell EXCEPT ![at] = Here.value]
<1>1. /\ ctx = s.region /\ ctx \in Regions /\ Here.next = Accessor(op, FALSE)
      /\ Frame \notin Regions /\ DOMAIN field = Regions
  BY SiteFacts, Constants DEF Asked, AccessorBody, Types
<1>2. Here.ret = Resume(s, L) /\ op = s.kind
  <2>1. Here.ret = Resume(s, L) /\ Accessor(op, FALSE) = Accessor(s.kind, FALSE)
    BY <1>1, PcsDiffer DEF Asked
  <2> QED
    BY <2>1 DEF Accessor
<1>3. PICK at \in Reached :
         /\ cell' = AccessedCells(op, at)
         /\ field' = [field EXCEPT
               ![ctx] = [AccessedFields(op, at) EXCEPT !.next = Here.ret, !.ret = None]]
  BY Zenon DEF AccessorBody
<1>4. UNCHANGED <<buffer, route, ctx, pc, begun>>
  BY DEF AccessorBody
<1>5. /\ AccessedCells(op, at) \in [Cells -> Byte] /\ PortalTyped(AccessedFields(op, at))
      /\ AccessedFields(op, at).value = IF op = "load" THEN cell[at] ELSE 0
  BY <1>1, AccessorTyped
<1> DEFINE left == [AccessedFields(op, at) EXCEPT !.next = Here.ret, !.ret = None]
<1>6. /\ PortalTyped(left) /\ left.next = Here.ret
      /\ left.value = IF op = "load" THEN cell[at] ELSE 0
  BY <1>5 DEF PortalTyped, ZeroFields
<1>7. field' = [field EXCEPT ![ctx] = left]
  BY <1>3
<1> HIDE DEF left
<1>8. Types'
  BY <1>1, <1>3, <1>4, <1>5, <1>6, <1>7 DEF Types
<1>9. Clean'
  BY <1>1, <1>4, <1>7 DEF Clean
<1>10. Answered(s, L)'
  BY <1>1, <1>2, <1>4, <1>6, <1>7 DEF Answered, Here
<1>11. ctx' # Frame /\ Here' = left
  BY <1>1, <1>4, <1>7 DEF Here
<1>12. IF s.kind = "load"
       THEN /\ \A c \in Cells \ {Abi} : cell'[c] = cell[c]
            /\ (IF ctx' = Frame THEN cell'[Abi] ELSE Here'.value) = cell[at]
       ELSE cell' = [cell EXCEPT ![at] = Here.value]
  BY <1>2, <1>3, <1>6, <1>11 DEF AccessedCells
<1> QED
  BY <1>4, <1>8, <1>9, <1>10, <1>12

LEMMA SelectingKeeps ==
    ASSUME Types, Clean, NEW s \in Sites, NEW L \in 1 .. Leaves(s), Asked(s, L),
           NEW op, SelectingAccessorBody(op), UNCHANGED frameReturns
    PROVE  /\ Types' /\ Clean' /\ Answered(s, L)' /\ UNCHANGED <<buffer, begun>>
           /\ \E at \in Reached :
                 IF s.kind = "load"
                 THEN /\ \A c \in Cells \ {Abi} : cell'[c] = cell[c]
                      /\ (IF ctx' = Frame THEN cell'[Abi] ELSE Here'.value) = cell[at]
                 ELSE cell' = [cell EXCEPT ![at] = Here.value]
<1>1. /\ ctx = s.region /\ ctx \in Regions /\ Here.next = Accessor(op, TRUE)
      /\ Frame \notin Regions /\ DOMAIN field = Regions /\ 0 \in Byte /\ Abi \in Cells
  BY SiteFacts, Constants DEF Asked, SelectingAccessorBody, Types
<1>2. Here.ret = ctx /\ route.resume = Resume(s, L) /\ op = s.kind
  <2>1. Here.ret = ctx /\ route.resume = Resume(s, L) /\ Accessor(op, TRUE) = Accessor(s.kind, TRUE)
    BY <1>1, PcsDiffer DEF Asked
  <2> QED
    BY <2>1 DEF Accessor
<1>3. PICK at \in Reached :
         /\ cell' = IF op = "load"
                    THEN [AccessedCells(op, at) EXCEPT ![Abi] = AccessedFields(op, at).value]
                    ELSE AccessedCells(op, at)
         /\ field' = [field EXCEPT ![Here.ret] = Cleared(AccessedFields(op, at))]
  BY Zenon DEF SelectingAccessorBody
<1>4. /\ ctx' = Frame /\ pc' = route.resume /\ route' = [route EXCEPT !.resume = None]
      /\ UNCHANGED <<buffer, begun>>
  BY DEF SelectingAccessorBody
<1>5. /\ AccessedCells(op, at) \in [Cells -> Byte] /\ AccessedFields(op, at).value \in Byte
      /\ AccessedFields(op, at).value = IF op = "load" THEN cell[at] ELSE 0
  BY <1>1, AccessorTyped DEF PortalTyped
<1>6. cell' \in [Cells -> Byte]
  BY <1>1, <1>3, <1>5
<1>7. field' = [field EXCEPT ![ctx] = ZeroFields] /\ PortalTyped(ZeroFields)
  BY <1>1, <1>2, <1>3 DEF Cleared, PortalTyped, ZeroFields
<1>8. RouteTyped(route')
  BY <1>4 DEF Types, RouteTyped, ZeroRoute
<1>9. Types'
  BY <1>1, <1>4, <1>6, <1>7, <1>8 DEF Types
<1>10. Clean'
  BY <1>1, <1>4, <1>7 DEF Clean
<1>11. Answered(s, L)'
  BY <1>2, <1>4 DEF Answered
<1>12. IF s.kind = "load"
       THEN /\ \A c \in Cells \ {Abi} : cell'[c] = cell[c]
            /\ (IF ctx' = Frame THEN cell'[Abi] ELSE Here'.value) = cell[at]
       ELSE cell' = [cell EXCEPT ![at] = Here.value]
  <2>1. CASE op = "load"
    <3>1. cell' = [cell EXCEPT ![Abi] = cell[at]]
      BY <1>3, <1>5, <2>1 DEF AccessedCells
    <3> QED
      BY <1>1, <1>2, <1>4, <2>1, <3>1 DEF Types
  <2>2. CASE op # "load"
    BY <1>2, <1>3, <2>2 DEF AccessedCells
  <2> QED
    BY <2>1, <2>2
<1> QED
  BY <1>4, <1>9, <1>10, <1>11, <1>12

LEMMA IncrementedTyped ==
    ASSUME NEW s \in Sites, NEW mem \in [Cells -> Byte]
    PROVE  Incremented(mem, s) \in [Cells -> Byte]
<1>1. /\ s.low \in Cells /\ (s.high = None \/ s.high \in Cells) /\ 0 \in Byte /\ 1 \in Byte
      /\ None \notin Cells
  BY SiteFacts, Constants DEF Byte
<1>2. PICK low \in Byte : low = Sum(mem[s.low], 1)
  BY <1>1, Constants
<1>3. Incremented(mem, s) =
          [mem EXCEPT ![s.low] = low, ![s.high] = IF low = 0 THEN Sum(@, 1) ELSE @]
  BY <1>2 DEF Incremented
<1>4. s.high \in Cells => Sum(mem[s.high], 1) \in Byte /\ s.high # s.low
  BY <1>1, SiteFacts, Constants
<1> QED
  BY <1>1, <1>3, <1>4

LEMMA UnstagedTyped ==
    ASSUME NEW s \in Sites, NEW mem \in [Cells -> Byte], NEW buf \in [1 .. BufferCells -> Byte],
           Leaves(s) > 1
    PROVE  Unstaged(mem, buf, s) \in [Cells -> Byte]
<1>1. DOMAIN s.operand = 1 .. Leaves(s) /\ Leaves(s) <= BufferCells
      /\ Leaves(s) \in Nat /\ BufferCells \in Nat
  BY SiteFacts, Constants
<1>2. ASSUME NEW c \in Cells, \E i \in DOMAIN s.operand : s.operand[i] = c
      PROVE  buf[CHOOSE i \in DOMAIN s.operand : s.operand[i] = c] \in Byte
  <2>1. (CHOOSE i \in DOMAIN s.operand : s.operand[i] = c) \in 1 .. Leaves(s)
    BY <1>1, <1>2
  <2> QED
    BY <1>1, <2>1
<1> QED
  BY <1>2 DEF Unstaged, VM!Written

(* What a resume leaves of the cells and of the buffer, the loaded value    *)
(* being where the leaf came back to, and what it goes on with.            *)
Loaded == IF ctx = Frame THEN cell[Abi] ELSE Here.value

Taken(s, L, mem, buf) ==
    IF s.kind = "load"
    THEN IF Leaves(s) > 1
         THEN buf = [buffer EXCEPT ![L] = Loaded] /\ \A c \in Cells \ {Abi} : mem[c] = cell[c]
         ELSE /\ buf = buffer /\ mem[s.operand[1]] = Loaded
              /\ \A c \in Cells \ {Abi, s.operand[1]} : mem[c] = cell[c]
    ELSE mem = cell /\ buf = buffer

WentOn(s, L, mem, buf, fields) ==
    IF L = Leaves(s)
    THEN IF s.kind = "load" /\ Leaves(s) > 1
         THEN cell' = Unstaged(mem, buf, s) /\ buffer' = [i \in DOMAIN buf |-> 0]
         ELSE cell' = mem /\ buffer' = buf
    ELSE Request(s, L + 1, Incremented(mem, s), buf, fields, route)

Ended(s, L, fields) ==
    IF L = Leaves(s)
    THEN /\ field' = fields /\ ctx' = Frame /\ pc' = Code /\ begun' = None
         /\ last' = begun.site /\ UNCHANGED route
    ELSE UNCHANGED <<begun, last>>

LEMMA ResumeEffect ==
    ASSUME Types, Clean, NEW s \in Sites, NEW L \in 1 .. Leaves(s),
           Answered(s, L), ResumeBody(s, L)
    PROVE  \E fields : \E mem \in [Cells -> Byte], buf \in [1 .. BufferCells -> Byte] :
               /\ DOMAIN fields = Regions /\ \A r \in Regions : fields[r] = ZeroFields
               /\ Taken(s, L, mem, buf) /\ WentOn(s, L, mem, buf, fields) /\ Ended(s, L, fields)
<1> DEFINE there  == ctx # Frame
           whole  == Leaves(s) > 1
           loads  == s.kind = "load"
           final  == L = Leaves(s)
           fields == IF there THEN [field EXCEPT ![ctx] = Cleared(Here)] ELSE field
           mem1   == IF there /\ loads THEN [cell EXCEPT ![Abi] = Here.value] ELSE cell
           mem2   == IF ~loads THEN mem1
                     ELSE IF whole THEN [mem1 EXCEPT ![Abi] = 0]
                     ELSE Delivered(mem1, s.operand[1])
           buf    == IF loads /\ whole THEN [buffer EXCEPT ![L] = mem1[Abi]] ELSE buffer
<1>1. IF final
      THEN /\ cell' = IF loads /\ whole THEN Unstaged(mem2, buf, s) ELSE mem2
           /\ buffer' = IF loads /\ whole THEN [i \in DOMAIN buf |-> 0] ELSE buf
           /\ field' = fields
           /\ ctx' = Frame /\ pc' = Code
           /\ last' = begun.site /\ begun' = None
           /\ UNCHANGED route
      ELSE /\ Request(s, L + 1, Incremented(mem2, s), buf, fields, route)
           /\ UNCHANGED <<begun, last>>
  BY Zenon DEF ResumeBody
<1>2. /\ Leaves(s) \in Nat \ {0} /\ 0 \in Byte /\ BufferCells \in Nat /\ Frame \notin Regions
      /\ s.operand[1] \in Cells /\ s.region \in Regions /\ Abi \in Cells
  BY SiteFacts, Constants
<1>3. ctx = Frame \/ ctx \in Regions
  BY <1>2 DEF Answered
<1>4. there => Here.value \in Byte
  BY <1>3 DEF Types, PortalTyped, Here
<1>5. /\ DOMAIN fields = Regions
      /\ \A r \in Regions : fields[r] = ZeroFields
  BY <1>2, <1>3 DEF Types, Clean, Cleared
<1>6. /\ mem1 \in [Cells -> Byte]
      /\ loads => mem1[Abi] = Loaded
      /\ ~loads => mem1 = cell
      /\ \A c \in Cells \ {Abi} : mem1[c] = cell[c]
  BY <1>2, <1>4 DEF Types, Loaded
<1> HIDE DEF fields, mem1
<1>7. /\ mem2 \in [Cells -> Byte]
      /\ ~loads => mem2 = cell
      /\ loads /\ whole => \A c \in Cells \ {Abi} : mem2[c] = cell[c]
      /\ loads /\ ~whole => /\ mem2[s.operand[1]] = Loaded
                            /\ \A c \in Cells \ {Abi, s.operand[1]} : mem2[c] = cell[c]
  <2>1. /\ Delivered(mem1, s.operand[1]) \in [Cells -> Byte]
        /\ Delivered(mem1, s.operand[1])[s.operand[1]] = mem1[Abi]
        /\ \A c \in Cells \ {Abi, s.operand[1]} : Delivered(mem1, s.operand[1])[c] = mem1[c]
    BY <1>2, <1>6 DEF Delivered
  <2>2. [mem1 EXCEPT ![Abi] = 0] \in [Cells -> Byte]
    BY <1>2, <1>6
  <2>3. CASE ~loads
    BY <1>6, <2>3
  <2>4. CASE loads /\ whole
    BY <1>6, <2>2, <2>4
  <2>5. CASE loads /\ ~whole
    BY <1>6, <2>1, <2>5
  <2> QED
    BY <2>3, <2>4, <2>5
<1>8. /\ buf \in [1 .. BufferCells -> Byte]
      /\ buf = IF loads /\ whole THEN [buffer EXCEPT ![L] = Loaded] ELSE buffer
  BY <1>2, <1>6 DEF Types
<1> HIDE DEF mem2, buf
<1>9. Taken(s, L, mem2, buf)
  BY <1>7, <1>8 DEF Taken
<1>10. WentOn(s, L, mem2, buf, fields)
  BY <1>1, Zenon DEF WentOn
<1>11. Ended(s, L, fields)
  BY <1>1, Zenon DEF Ended
<1> QED
  BY <1>5, <1>7, <1>8, <1>9, <1>10, <1>11

(* The last leaf ends the access; another one is followed by the next. *)
LEMMA ResumeKeeps ==
    ASSUME Types, Clean, NEW s \in Sites, NEW L \in 1 .. Leaves(s), Underway(s, L),
           Answered(s, L), ResumeBody(s, L), UNCHANGED frameReturns
    PROVE  /\ Types' /\ Clean'
           /\ IF L = Leaves(s) THEN Idle' /\ \A i \in 1 .. BufferCells : buffer'[i] = 0
              ELSE Underway(s, L + 1)'
<1>0. PICK fields : \E mem \in [Cells -> Byte], buf \in [1 .. BufferCells -> Byte] :
          /\ DOMAIN fields = Regions /\ \A r \in Regions : fields[r] = ZeroFields
          /\ Taken(s, L, mem, buf) /\ WentOn(s, L, mem, buf, fields) /\ Ended(s, L, fields)
  BY ResumeEffect
<1>1. PICK mem \in [Cells -> Byte], buf \in [1 .. BufferCells -> Byte] :
          /\ DOMAIN fields = Regions /\ \A r \in Regions : fields[r] = ZeroFields
          /\ Taken(s, L, mem, buf) /\ WentOn(s, L, mem, buf, fields) /\ Ended(s, L, fields)
  BY <1>0
<1>2. /\ Leaves(s) \in Nat \ {0} /\ 0 \in Byte /\ BufferCells \in Nat
      /\ s.kind \in {"load", "store"} /\ (Leaves(s) > 1 => Leaves(s) <= BufferCells)
  BY SiteFacts, Constants
<1>3. s.kind = "store" \/ Leaves(s) = 1 => buf = buffer
  BY <1>1, <1>2 DEF Taken
<1>4. \A i \in 1 .. BufferCells : /\ s.kind = "store" /\ (i <= L \/ i > Leaves(s)) => buffer[i] = 0
                                  /\ Leaves(s) = 1 => buffer[i] = 0
  BY DEF Underway, BufferSent
<1>5. CASE L = Leaves(s)
  <2>1. CASE s.kind = "load" /\ Leaves(s) > 1
    <3>1. cell' = Unstaged(mem, buf, s) /\ buffer' = [i \in DOMAIN buf |-> 0]
      BY <1>1, <1>5, <2>1 DEF WentOn
    <3>2. cell' \in [Cells -> Byte]
      BY <2>1, <3>1, UnstagedTyped
    <3>3. buffer' \in [1 .. BufferCells -> Byte] /\ \A i \in 1 .. BufferCells : buffer'[i] = 0
      BY <1>2, <3>1
    <3> QED
      BY <1>1, <1>2, <1>5, <3>2, <3>3
         DEF Ended, Types, Clean, Idle, PortalTyped, ZeroFields
  <2>2. CASE ~(s.kind = "load" /\ Leaves(s) > 1)
    <3>1. cell' = mem /\ buffer' = buffer
      BY <1>1, <1>2, <1>3, <1>5, <2>2 DEF WentOn
    <3>2. \A i \in 1 .. BufferCells : buffer[i] = 0
      BY <1>2, <1>4, <1>5, <2>2
    <3> QED
      BY <1>1, <1>2, <1>5, <3>1, <3>2
         DEF Ended, Types, Clean, Idle, PortalTyped, ZeroFields
  <2> QED
    BY <2>1, <2>2
<1>6. CASE L # Leaves(s)
  <2>1. Request(s, L + 1, Incremented(mem, s), buf, fields, route) /\ UNCHANGED begun
    BY <1>1, <1>6 DEF WentOn, Ended
  <2>2. L + 1 \in 1 .. Leaves(s) /\ Leaves(s) > 1
    BY <1>2, <1>6
  <2>3. Incremented(mem, s) \in [Cells -> Byte]
    BY IncrementedTyped
  <2>4. Types' /\ Clean' /\ (Routed(s, L + 1)' \/ Asked(s, L + 1)')
    <3>1. Types' /\ Clean' /\ RequestGiven(s, L + 1, Incremented(mem, s), buf)
      BY <1>1, <2>1, <2>2, <2>3, RequestAsked DEF Types
    <3> QED
      BY <3>1 DEF RequestGiven
  <2>5. buffer' = IF s.kind = "store" THEN [buf EXCEPT ![L + 1] = 0] ELSE buf
    <3>1. buffer' = IF Leaves(s) > 1 /\ s.kind = "store" THEN [buf EXCEPT ![L + 1] = 0] ELSE buf
      BY <2>1, <2>2, <2>3, RequestEffect
    <3> QED
      BY <2>2, <3>1
  <2>6. BufferSent(s, L + 1)'
    <3> SUFFICES ASSUME NEW i \in 1 .. BufferCells
                 PROVE  /\ s.kind = "store" /\ (i <= L + 1 \/ i > Leaves(s)) => buffer'[i] = 0
                        /\ Leaves(s) = 1 => buffer'[i] = 0
      BY DEF BufferSent
    <3>1. ASSUME s.kind = "store", i <= L + 1 \/ i > Leaves(s)
          PROVE  buffer'[i] = 0
      <4>1. buffer' = [buffer EXCEPT ![L + 1] = 0] /\ i \in DOMAIN buffer
        BY <1>3, <2>5, <3>1 DEF Types
      <4>2. i # L + 1 => buffer[i] = 0
        BY <1>2, <1>4, <3>1
      <4> QED
        BY <4>1, <4>2
    <3> QED
      BY <2>2, <3>1
  <2>7. begun' \in [site : {s}, cell : [Cells -> Byte]]
    BY <2>1 DEF Underway
  <2>8. Underway(s, L + 1)'
    BY <2>4, <2>6, <2>7 DEF Underway
  <2> QED
    BY <1>6, <2>4, <2>8
<1> QED
  BY <1>5, <1>6

-----------------------------------------------------------------------------
(* Only the body whose PC is there can run. *)
LEMMA WhoRuns ==
    ASSUME NEW s \in Sites, NEW L \in 1 .. Leaves(s), Underway(s, L), Protocol
    PROVE  \/ Routed(s, L) /\ RouterBody
           \/ Asked(s, L) /\ \E op \in Operations : AccessorBody(op) \/ SelectingAccessorBody(op)
           \/ Answered(s, L) /\ ResumeBody(s, L)
<1>1. s.region \in Regions /\ Frame \notin Regions
  BY SiteFacts, Constants
<1>2. CASE RouterBody
  BY <1>1, <1>2, PcsDiffer DEF RouterBody, Underway, Routed, Asked, Answered
<1>3. CASE \E op \in {"load", "store"} : AccessorBody(op) \/ SelectingAccessorBody(op)
  <2>1. ctx # Frame /\ \E op, b : Here.next = Accessor(op, b)
    <3>1. PICK op \in {"load", "store"} : AccessorBody(op) \/ SelectingAccessorBody(op)
      BY <1>3
    <3>2. CASE AccessorBody(op)
      BY <3>2, Zenon DEF AccessorBody
    <3>3. CASE SelectingAccessorBody(op)
      BY <3>3, Zenon DEF SelectingAccessorBody
    <3> QED
      BY <3>1, <3>2, <3>3
  <2>2. ~Routed(s, L)
    BY <2>1 DEF Routed
  <2>3. ~Answered(s, L)
    <3>1. PICK op, b : Here.next = Accessor(op, b)
      BY <2>1
    <3>2. Here.next.kind = "accessor" /\ Resume(s, L).kind = "resume"
      BY <3>1 DEF Accessor, Resume
    <3> QED
      BY <2>1, <3>2 DEF Answered
  <2> QED
    BY <1>3, <2>2, <2>3 DEF Underway, Operations
<1>4. CASE \E t \in Sites : \E leaf \in 1 .. Leaves(t) : ResumeBody(t, leaf)
  <2>1. PICK t \in Sites : \E leaf \in 1 .. Leaves(t) : ResumeBody(t, leaf)
    BY <1>4
  <2>2. PICK leaf \in 1 .. Leaves(t) : ResumeBody(t, leaf)
    BY <2>1
  <2>3. (IF ctx # Frame THEN Here.next ELSE pc) = Resume(t, leaf)
    BY <2>2, Zenon DEF ResumeBody
  <2>4. Answered(s, L) /\ Resume(t, leaf) = Resume(s, L)
    <3>1. ~Routed(s, L)
      <4> SUFFICES ASSUME Routed(s, L) PROVE FALSE
        OBVIOUS
      <4>1. Router(s.region, IF frameReturns THEN s.kind ELSE None) = Resume(t, leaf)
        BY <2>3 DEF Routed
      <4>2. /\ Router(s.region, IF frameReturns THEN s.kind ELSE None).kind = "router"
            /\ Resume(t, leaf).kind = "resume"
        BY DEF Router, Resume
      <4> QED
        BY <4>1, <4>2
    <3>2. ~Asked(s, L)
      <4> SUFFICES ASSUME Asked(s, L) PROVE FALSE
        OBVIOUS
      <4>1. Here.next = Resume(t, leaf)
        BY <1>1, <2>3 DEF Asked
      <4> QED
        BY <4>1 DEF Asked, Accessor, Resume
    <3>3. Answered(s, L)
      BY <3>1, <3>2 DEF Underway
    <3> QED
      BY <1>1, <2>3, <3>3 DEF Answered
  <2>5. t = s /\ leaf = L
    BY <2>4, PcsDiffer
  <2> QED
    BY <2>2, <2>4, <2>5
<1> QED
  BY <1>2, <1>3, <1>4 DEF Protocol

LEMMA IdleRuns ==
    ASSUME Idle
    PROVE  ~Protocol
<1>1. ~RouterBody
  BY DEF Idle, RouterBody, Code
<1>2. \A op : ~AccessorBody(op) /\ ~SelectingAccessorBody(op)
  BY DEF Idle, AccessorBody, SelectingAccessorBody
<1>3. ASSUME NEW s, NEW leaf PROVE ~ResumeBody(s, leaf)
  <2> SUFFICES ASSUME ResumeBody(s, leaf) PROVE FALSE
    OBVIOUS
  <2>1. (IF ctx # Frame THEN Here.next ELSE pc) = Resume(s, leaf)
    BY Zenon DEF ResumeBody
  <2> QED
    BY <2>1, PcsDiffer DEF Idle
<1> QED
  BY <1>1, <1>2, <1>3 DEF Protocol

LEMMA UnderwayWaits ==
    ASSUME NEW s \in Sites, NEW L \in 1 .. Leaves(s), Underway(s, L)
    PROVE  ~Program
<1>1. s.region # Frame
  BY SiteFacts, Constants
<1>2. ~(ctx = Frame /\ pc = Code)
  <2>1. Routed(s, L) => pc # Code
    BY DEF Routed, Router, Code
  <2>2. Asked(s, L) => ctx # Frame
    BY <1>1 DEF Asked
  <2>3. Answered(s, L) => ctx # Frame \/ pc # Code
    BY <1>1, PcsDiffer DEF Answered
  <2> QED
    BY <2>1, <2>2, <2>3 DEF Underway
<1> QED
  BY <1>2 DEF Program, Begin, UserCode

LEMMA InitIInv == Init => IInv
<1> SUFFICES ASSUME Init PROVE IInv
  OBVIOUS
<1>1. 0 \in Byte /\ BufferCells \in Nat /\ Plans \subseteq BOOLEAN
  BY Constants, PortalAssumption
<1>2. PortalTyped(ZeroFields) /\ RouteTyped(ZeroRoute)
  BY <1>1 DEF PortalTyped, RouteTyped, ZeroFields, ZeroRoute
<1>3. Types
  BY <1>1, <1>2 DEF Init, Types
<1>4. Clean
  BY DEF Init, Clean
<1>5. Idle /\ buffer = [i \in 1 .. BufferCells |-> 0]
  BY DEF Init, Idle
<1> QED
  BY <1>3, <1>4, <1>5 DEF IInv, Control

(* Every step of the protocol keeps what is underway underway, or ends it. *)
LEMMA ProtocolKeeps ==
    ASSUME Types, Clean, NEW s \in Sites, NEW L \in 1 .. Leaves(s), Underway(s, L), Protocol
    PROVE  /\ Types' /\ Clean'
           /\ \/ Underway(s, L)'
              \/ L < Leaves(s) /\ Underway(s, L + 1)'
              \/ L = Leaves(s) /\ Idle' /\ \A i \in 1 .. BufferCells : buffer'[i] = 0
<1>1. UNCHANGED frameReturns
  BY DEF Protocol
<1>2. Leaves(s) \in Nat
  BY SiteFacts
<1>3. ASSUME Asked(s, L)' \/ Answered(s, L)', UNCHANGED <<buffer, begun>>
      PROVE  Underway(s, L)'
  BY <1>3 DEF Underway, BufferSent
<1>4. CASE Routed(s, L) /\ RouterBody
  BY <1>1, <1>3, <1>4, RouterKeeps
<1>5. CASE Asked(s, L) /\ \E op \in Operations : AccessorBody(op) \/ SelectingAccessorBody(op)
  <2>1. PICK op \in Operations : AccessorBody(op) \/ SelectingAccessorBody(op)
    BY <1>5
  <2>2. CASE AccessorBody(op)
    BY <1>1, <1>3, <1>5, <2>2, AccessorKeeps
  <2>3. CASE SelectingAccessorBody(op)
    BY <1>1, <1>3, <1>5, <2>3, SelectingKeeps
  <2> QED
    BY <2>1, <2>2, <2>3
<1>6. CASE Answered(s, L) /\ ResumeBody(s, L)
  <2>1. /\ Types' /\ Clean'
        /\ IF L = Leaves(s) THEN Idle' /\ \A i \in 1 .. BufferCells : buffer'[i] = 0
           ELSE Underway(s, L + 1)'
    BY <1>1, <1>6, ResumeKeeps
  <2> QED
    BY <1>2, <2>1
<1>7. \/ Routed(s, L) /\ RouterBody
      \/ Asked(s, L) /\ \E op \in Operations : AccessorBody(op) \/ SelectingAccessorBody(op)
      \/ Answered(s, L) /\ ResumeBody(s, L)
  BY WhoRuns
<1> QED
  BY <1>4, <1>5, <1>6, <1>7

LEMMA NextIInv == IInv /\ [Next]_vars => IInv'
<1> SUFFICES ASSUME IInv, [Next]_vars PROVE IInv'
  OBVIOUS
<1>1. Types /\ Clean /\ Control
  BY DEF IInv
<1>2. BufferCells \in Nat
  BY Constants
<1>3. ASSUME Types', \A i \in 1 .. BufferCells : buffer'[i] = 0
      PROVE  buffer' = [i \in 1 .. BufferCells |-> 0]
  BY <1>3 DEF Types
<1>4. CASE Idle /\ buffer = [i \in 1 .. BufferCells |-> 0] /\ Next
  <2>1. ~Protocol /\ Program
    BY <1>4, IdleRuns DEF Next
  <2>2. \A i \in 1 .. BufferCells : buffer[i] = 0
    BY <1>4
  <2>3. UNCHANGED frameReturns
    BY <2>1 DEF Program
  <2>4. CASE UserCode
    BY <1>1, <1>4, <2>3, <2>4, UserCodeKeeps DEF IInv, Control
  <2>5. CASE \E s \in Sites : Begin(s)
    <3>1. PICK s \in Sites : Begin(s)
      BY <2>5
    <3>2. Types' /\ Clean' /\ Underway(s, 1)'
      BY <1>1, <1>4, <2>2, <2>3, <3>1, BeginKeeps
    <3>3. 1 \in 1 .. Leaves(s)
      BY SiteFacts
    <3> QED
      BY <3>2, <3>3 DEF IInv, Control
  <2> QED
    BY <2>1, <2>4, <2>5 DEF Program
<1>5. CASE (\E s \in Sites : \E L \in 1 .. Leaves(s) : Underway(s, L)) /\ Next
  <2>1. PICK s \in Sites : \E L \in 1 .. Leaves(s) : Underway(s, L)
    BY <1>5
  <2>2. PICK L \in 1 .. Leaves(s) : Underway(s, L)
    BY <2>1
  <2>3. Protocol
    BY <1>5, <2>2, UnderwayWaits DEF Next
  <2>4. /\ Types' /\ Clean'
        /\ \/ Underway(s, L)'
           \/ L < Leaves(s) /\ Underway(s, L + 1)'
           \/ L = Leaves(s) /\ Idle' /\ \A i \in 1 .. BufferCells : buffer'[i] = 0
    BY <1>1, <2>2, <2>3, ProtocolKeeps
  <2>5. L < Leaves(s) => L + 1 \in 1 .. Leaves(s)
    BY SiteFacts
  <2>6. Control'
    BY <1>3, <2>4, <2>5 DEF Control
  <2> QED
    BY <2>4, <2>6 DEF IInv
<1>6. CASE UNCHANGED vars
  BY <1>1, <1>6 DEF vars, IInv, Types, Clean, Control, Idle, Underway, BufferSent, Routed, Asked,
                    Answered, Here
<1> QED
  BY <1>1, <1>4, <1>5, <1>6 DEF Control

(* No portal but the one in use holds anything, and between two accesses   *)
(* the private buffer is empty: what a router adds to is zero.             *)
THEOREM PortalsStayClean == Spec => []PortalsClean
<1>1. IInv => PortalsClean
  <2> SUFFICES ASSUME IInv PROVE PortalsClean
    OBVIOUS
  <2>1. Clean /\ Control /\ DOMAIN buffer = 1 .. BufferCells
    BY DEF IInv, Types
  <2>2. (\E s \in Sites : \E L \in 1 .. Leaves(s) : Underway(s, L)) => Busy
    BY PortalAssumption DEF Underway, Busy, Byte
  <2>3. ~Busy => \A i \in DOMAIN buffer : buffer[i] = 0
    BY <2>1, <2>2 DEF Control
  <2> QED
    BY <2>1, <2>3 DEF PortalsClean, Clean
<1> QED
  BY <1>1, InitIInv, NextIInv, PTL DEF Spec

-----------------------------------------------------------------------------
(* The access the VM makes begins at the offset that the memory m0 has.    *)
Origin(m0, s) == VM!Offset(m0, s)
Target(m0, s, i) == Payload[s.region][Origin(m0, s) + i]

(* The cells after k leaves: the loads have changed none, the stores the   *)
(* first k.                                                                *)
Kept(mem, m0, s, k) ==
    \A c \in Cells \ (Loose(s) \cup Moving(s)) :
        /\ \A i \in 1 .. k : s.kind = "store" /\ Target(m0, s, i) = c => mem[c] = m0[s.operand[i]]
        /\ (s.kind = "load" \/ \A i \in 1 .. k : Target(m0, s, i) # c) => mem[c] = m0[c]

(* The offset of leaf L is in its cells, as long as they are needed.       *)
Digits(mem, m0, s, L) ==
    Leaves(s) > 1 => /\ mem[s.low] = (Origin(m0, s) + L - 1) % CellBase
                     /\ mem[s.high] = (Origin(m0, s) + L - 1) \div CellBase
OffsetsAt(mem, m0, s, L) ==
    Leaves(s) > 1 =>
        /\ (s.low \in Loose(s) /\ L = Leaves(s)) \/ mem[s.low] = (Origin(m0, s) + L - 1) % CellBase
        /\ (s.high \in Loose(s) /\ L = Leaves(s)) \/ mem[s.high] = (Origin(m0, s) + L - 1) \div CellBase

(* The buffer has the leaves that were loaded, or are yet to be sent.      *)
BufferHolds(buf, m0, s, loaded, sent) ==
    Leaves(s) > 1 =>
        /\ s.kind = "load" => \A i \in 1 .. loaded : buf[i] = m0[Target(m0, s, i)]
        /\ s.kind = "store" => \A i \in sent + 1 .. Leaves(s) : buf[i] = m0[s.operand[i]]

(* A request for leaf L. *)
Carries(low, high, value, m0, s, L) ==
    /\ low + CellBase * high = Origin(m0, s) + L - 1
    /\ s.kind = "store" => value = m0[s.operand[L]]

Progress(s, L, m0) ==
    /\ VM!InRange(m0, s)
    /\ OffsetsAt(cell, m0, s, L)
    /\ BufferHolds(buffer, m0, s, L - 1, L)
    /\ \/ /\ Routed(s, L) /\ Kept(cell, m0, s, L - 1)
          /\ Carries(route.low, route.high, route.value, m0, s, L)
       \/ /\ Asked(s, L) /\ Kept(cell, m0, s, L - 1)
          /\ Carries(Here.index, Here.high, Here.value, m0, s, L)
       \/ /\ Answered(s, L) /\ Kept(cell, m0, s, L)
          /\ s.kind = "load" =>
                 (IF ctx = Frame THEN cell[Abi] ELSE Here.value) = m0[Target(m0, s, L)]

Data ==
    \/ Idle /\ buffer = [i \in 1 .. BufferCells |-> 0]
    \/ \E s \in Sites : \E L \in 1 .. Leaves(s) : Underway(s, L) /\ Progress(s, L, begun.cell)

DInv == Types /\ Clean /\ Data

-----------------------------------------------------------------------------
(* Counting one up in two digits. *)
LEMMA NextDigits ==
    ASSUME NEW w \in Nat, w >= 2, NEW v \in Nat, v + 1 < w * w
    PROVE  /\ (v + 1) % w = ((v % w) + 1) % w
           /\ (v + 1) \div w = IF ((v % w) + 1) % w = 0 THEN (v \div w + 1) % w ELSE v \div w
<1>1. PICK h \in Nat, l \in 0 .. w - 1 : h = v \div w /\ l = v % w /\ v = w * h + l
  BY Quotient
<1>2. CASE l + 1 < w
  <2>1. v + 1 = w * h + (l + 1) /\ l + 1 \in 0 .. w - 1
    BY <1>1, <1>2
  <2>2. (v + 1) \div w = h /\ (v + 1) % w = l + 1
    BY <2>1, DigitsOf
  <2>3. (l + 1) % w = l + 1 /\ l + 1 # 0
    BY <1>1, <1>2
  <2> QED
    BY <1>1, <2>2, <2>3
<1>3. CASE l + 1 = w
  <2>1. v + 1 = w * (h + 1) + 0
    BY <1>1, <1>3
  <2>2. (v + 1) \div w = h + 1 /\ (v + 1) % w = 0
    <3>1. PICK k \in Nat : k = h + 1
      BY <1>1
    <3>2. 0 \in 0 .. w - 1 /\ w \in Nat \ {0}
      OBVIOUS
    <3>3. (w * k + 0) \div w = k /\ (w * k + 0) % w = 0
      BY <3>2, DigitsOf
    <3> QED
      BY <2>1, <3>1, <3>3
  <2>3. (l + 1) % w = 0
    BY <1>1, <1>3
  <2>4. h + 1 < w
    BY <2>2, SmallQuotient
  <2>5. (h + 1) % w = h + 1
    BY <1>1, <2>4
  <2> QED
    BY <1>1, <2>2, <2>3, <2>5
<1> QED
  BY <1>1, <1>2, <1>3

(* Where the leaves of an access are. *)
LEMMA Targets ==
    ASSUME NEW s \in Sites, Emitted(s), NEW m0 \in [Cells -> Byte], VM!InRange(m0, s)
    PROVE  /\ Origin(m0, s) \in Nat
           /\ Origin(m0, s) = m0[s.low] + CellBase * (IF s.high = None THEN 0 ELSE m0[s.high])
           /\ \A i \in 1 .. Leaves(s) :
                 /\ Origin(m0, s) + i \in 1 .. Len(Payload[s.region])
                 /\ Target(m0, s, i) \in Cells \ (Loose(s) \cup Moving(s))
           /\ \A i, j \in 1 .. Leaves(s) : Target(m0, s, i) = Target(m0, s, j) => i = j
           /\ Leaves(s) > 1 => /\ s.high \in Cells
                               /\ Origin(m0, s) + Leaves(s) <= CellBase * CellBase
<1>1. /\ s.low \in Cells /\ (s.high = None \/ s.high \in Cells) /\ None \notin Cells
      /\ Payload[s.region] \in Seq(Cells) /\ Leaves(s) \in Nat \ {0} /\ CellBase \in Nat
  BY SiteFacts, Constants
<1>2. Origin(m0, s) = m0[s.low] + CellBase * (IF s.high = None THEN 0 ELSE m0[s.high])
  <2>1. CASE s.high = None
    BY <1>1, <2>1 DEF Origin, VM!Offset, VM!IsWord, Byte
  <2>2. CASE s.high # None
    BY <1>1, <2>2 DEF Origin, VM!Offset, VM!IsWord
  <2> QED
    BY <2>1, <2>2
<1>3. Origin(m0, s) \in Nat
  <2>1. PICK l \in Nat, h \in Nat : l = m0[s.low] /\ h = IF s.high = None THEN 0 ELSE m0[s.high]
    BY <1>1 DEF Byte
  <2>2. CellBase * h \in Nat
    BY <1>1
  <2> QED
    BY <1>2, <2>1, <2>2
<1>4. PICK o \in Nat, len \in Nat : o = Origin(m0, s) /\ len = Len(Payload[s.region])
  BY <1>1, <1>3
<1>5. o + Leaves(s) <= len
  BY <1>4 DEF VM!InRange, Origin, Leaves, VM!Leaves
<1>6. ASSUME NEW i \in 1 .. Leaves(s)
      PROVE  /\ o + i \in 1 .. len
             /\ Target(m0, s, i) \in Cells \ (Loose(s) \cup Moving(s))
  <2>1. o + i \in 1 .. len
    BY <1>1, <1>5
  <2>2. o + i \in DOMAIN Payload[s.region] /\ Payload[s.region][o + i] \in Cells
    BY <1>1, <1>4, <2>1
  <2> QED
    BY <1>4, <2>1, <2>2 DEF Target, Emitted
<1>7. ASSUME NEW i \in 1 .. Leaves(s), NEW j \in 1 .. Leaves(s), Target(m0, s, i) = Target(m0, s, j)
      PROVE  i = j
  <2>1. o + i \in DOMAIN Payload[s.region] /\ o + j \in DOMAIN Payload[s.region]
    BY <1>1, <1>4, <1>6
  <2>2. o + i = o + j
    BY <1>4, <1>7, <2>1 DEF Target, Emitted
  <2> QED
    BY <1>1, <2>2
<1>8. Leaves(s) > 1 => s.high \in Cells /\ o + Leaves(s) <= CellBase * CellBase
  <2> SUFFICES ASSUME Leaves(s) > 1 PROVE s.high \in Cells /\ o + Leaves(s) <= CellBase * CellBase
    OBVIOUS
  <2>1. s.high # None /\ len <= CellBase * CellBase
    BY <1>4 DEF Emitted, VM!IsWord
  <2>2. PICK q \in Nat : q = CellBase * CellBase
    BY <1>1
  <2> QED
    BY <1>1, <1>5, <2>1, <2>2
<1> QED
  BY <1>2, <1>3, <1>4, <1>6, <1>7, <1>8

(* Only the cells that count matter to what is kept. *)
LEMMA KeptOutside ==
    ASSUME NEW s \in Sites, NEW m0, NEW mem, NEW mem2, NEW k, Kept(mem, m0, s, k),
           \A c \in Cells \ (Loose(s) \cup Moving(s)) : mem2[c] = mem[c]
    PROVE  Kept(mem2, m0, s, k)
BY Zenon DEF Kept

LEMMA KeptLoads ==
    ASSUME NEW s \in Sites, s.kind = "load", NEW m0, NEW mem, NEW k, NEW l, Kept(mem, m0, s, k)
    PROVE  Kept(mem, m0, s, l)
<1>1. s.kind # "store"
  OBVIOUS
<1> QED
  BY <1>1, Zenon DEF Kept

LEMMA KeptStore ==
    ASSUME NEW s \in Sites, Emitted(s), NEW m0 \in [Cells -> Byte], VM!InRange(m0, s),
           NEW mem \in [Cells -> Byte], NEW L \in 1 .. Leaves(s), s.kind = "store",
           Kept(mem, m0, s, L - 1)
    PROVE  Kept([mem EXCEPT ![Target(m0, s, L)] = m0[s.operand[L]]], m0, s, L)
<1> DEFINE mem2 == [mem EXCEPT ![Target(m0, s, L)] = m0[s.operand[L]]]
<1>1. /\ Leaves(s) \in Nat /\ Target(m0, s, L) \in Cells
      /\ \A i, j \in 1 .. Leaves(s) : Target(m0, s, i) = Target(m0, s, j) => i = j
  BY SiteFacts, Targets
<1> SUFFICES ASSUME NEW c \in Cells \ (Loose(s) \cup Moving(s))
             PROVE  /\ \A i \in 1 .. L : Target(m0, s, i) = c => mem2[c] = m0[s.operand[i]]
                    /\ (\A i \in 1 .. L : Target(m0, s, i) # c) => mem2[c] = m0[c]
  <2>1. s.kind # "load"
    OBVIOUS
  <2> QED
    BY <2>1, Zenon DEF Kept
<1>2. CASE c = Target(m0, s, L)
  <2>1. mem2[c] = m0[s.operand[L]]
    BY <1>1, <1>2
  <2>2. \A i \in 1 .. L : Target(m0, s, i) = c => i = L
    BY <1>1, <1>2
  <2> QED
    BY <1>1, <1>2, <2>1, <2>2
<1>3. CASE c # Target(m0, s, L)
  <2>1. mem2[c] = mem[c]
    BY <1>3
  <2>2. \A i \in 1 .. L : Target(m0, s, i) = c => i \in 1 .. L - 1
    BY <1>1, <1>3
  <2>3. \A i \in 1 .. L - 1 : i \in 1 .. L
    BY <1>1
  <2> QED
    BY <2>1, <2>2, <2>3 DEF Kept
<1> QED
  BY <1>2, <1>3

(* A load finds what was there when the access began. *)
LEMMA KeptFetch ==
    ASSUME NEW s \in Sites, Emitted(s), NEW m0 \in [Cells -> Byte], VM!InRange(m0, s),
           NEW mem, NEW k, NEW L \in 1 .. Leaves(s), s.kind = "load", Kept(mem, m0, s, k)
    PROVE  mem[Target(m0, s, L)] = m0[Target(m0, s, L)]
<1>1. Target(m0, s, L) \in Cells \ (Loose(s) \cup Moving(s))
  BY Targets
<1> QED
  BY <1>1 DEF Kept

(* The offset goes on to the next leaf, and nothing else changes. *)
LEMMA NextOffset ==
    ASSUME NEW s \in Sites, Emitted(s), NEW m0 \in [Cells -> Byte], VM!InRange(m0, s),
           NEW mem \in [Cells -> Byte], NEW L \in 1 .. Leaves(s), L < Leaves(s),
           Digits(mem, m0, s, L)
    PROVE  /\ Digits(Incremented(mem, s), m0, s, L + 1)
           /\ \A c \in Cells \ Moving(s) : Incremented(mem, s)[c] = mem[c]
<1>1. /\ s.low \in Cells /\ s.high # s.low /\ CellBase \in Nat /\ CellBase >= 2
      /\ Leaves(s) \in Nat
  BY SiteFacts, Constants
<1>2. Leaves(s) > 1 /\ s.high \in Cells /\ Origin(m0, s) \in Nat
      /\ Origin(m0, s) + Leaves(s) <= CellBase * CellBase
  BY <1>1, Targets
<1>3. PICK v \in Nat : v = Origin(m0, s) + L - 1
  BY <1>2
<1>4. v + 1 < CellBase * CellBase /\ Origin(m0, s) + (L + 1) - 1 = v + 1
  <2>1. PICK q \in Nat, o \in Nat : q = CellBase * CellBase /\ o = Origin(m0, s)
    BY <1>1, <1>2
  <2> QED
    BY <1>1, <1>2, <1>3, <2>1
<1>5. mem[s.low] = v % CellBase /\ mem[s.high] = v \div CellBase
  BY <1>2, <1>3 DEF Digits
<1>6. PICK low, high :
         /\ low = Sum(mem[s.low], 1)
         /\ high = IF low = 0 THEN Sum(mem[s.high], 1) ELSE mem[s.high]
  OBVIOUS
<1>7. low = (v + 1) % CellBase /\ high = (v + 1) \div CellBase
  BY <1>1, <1>4, <1>5, <1>6, NextDigits DEF Sum
<1>8. Incremented(mem, s) = [mem EXCEPT ![s.low] = low, ![s.high] = high]
  BY <1>1, <1>2, <1>6 DEF Incremented
<1>9. /\ Incremented(mem, s)[s.low] = low /\ Incremented(mem, s)[s.high] = high
      /\ \A c \in Cells \ {s.low, s.high} : Incremented(mem, s)[c] = mem[c]
  BY <1>1, <1>2, <1>8
<1> QED
  BY <1>2, <1>4, <1>7, <1>9 DEF Digits, Moving

-----------------------------------------------------------------------------
(* A request that reads what it should makes progress. *)
LEMMA RequestProgress ==
    ASSUME NEW s \in Sites, Emitted(s), NEW L \in 1 .. Leaves(s),
           NEW m0 \in [Cells -> Byte], VM!InRange(m0, s),
           NEW mem \in [Cells -> Byte], NEW buf \in [1 .. BufferCells -> Byte],
           NEW fields, NEW rt, Request(s, L, mem, buf, fields, rt),
           DOMAIN fields = Regions, \A r \in Regions : fields[r] = ZeroFields,
           RouteTyped(rt), frameReturns \in BOOLEAN, UNCHANGED frameReturns,
           Kept(mem, m0, s, L - 1), Digits(mem, m0, s, L), Leaves(s) = 1 => mem = m0,
           BufferHolds(buf, m0, s, L - 1, L - 1)
    PROVE  Progress(s, L, m0)'
<1>1. /\ cell' \in [Cells -> Byte]
      /\ \A c \in Cells \ Loose(s) : cell'[c] = mem[c]
      /\ L < Leaves(s) => cell' = mem
      /\ buffer' = IF Leaves(s) > 1 /\ s.kind = "store" THEN [buf EXCEPT ![L] = 0] ELSE buf
  BY RequestEffect
<1>2. /\ s.low \in Cells /\ Leaves(s) \in Nat \ {0} /\ (Leaves(s) > 1 => Leaves(s) <= BufferCells)
      /\ s.kind \in {"load", "store"} /\ CellBase \in Nat /\ CellBase >= 2 /\ None \notin Cells
      /\ BufferCells \in Nat
  BY SiteFacts, Constants
<1>3. /\ Origin(m0, s) \in Nat
      /\ Origin(m0, s) = m0[s.low] + CellBase * (IF s.high = None THEN 0 ELSE m0[s.high])
      /\ Leaves(s) > 1 => s.high \in Cells
  BY Targets
<1>4. Kept(cell', m0, s, L - 1)
  BY <1>1, KeptOutside
<1>5. OffsetsAt(cell', m0, s, L)
  <2> SUFFICES ASSUME Leaves(s) > 1, NEW c \in {s.low, s.high}
               PROVE  (c \in Loose(s) /\ L = Leaves(s)) \/ cell'[c] = mem[c]
    BY DEF OffsetsAt, Digits
  <2> QED
    BY <1>1, <1>2, <1>3
<1>6. BufferHolds(buffer', m0, s, L - 1, L)
  <2>1. CASE s.kind = "load"
    BY <1>1, <2>1 DEF BufferHolds
  <2>2. CASE s.kind = "store" /\ Leaves(s) > 1
    <3>1. \A i \in L + 1 .. Leaves(s) : buffer'[i] = buf[i] /\ i \in (L - 1) + 1 .. Leaves(s)
      BY <1>1, <1>2, <2>2
    <3> QED
      BY <2>2, <3>1 DEF BufferHolds
  <2>3. CASE ~(Leaves(s) > 1)
    BY <2>3 DEF BufferHolds
  <2> QED
    BY <1>2, <2>1, <2>2, <2>3
<1>7. PICK low \in Byte, high \in Byte, value \in Byte :
         /\ low = mem[s.low] /\ high = IF s.high = None THEN 0 ELSE mem[s.high]
         /\ s.kind = "store" => value = IF Leaves(s) > 1 THEN buf[L] ELSE mem[s.operand[1]]
         /\ \/ /\ Routed(s, L)'
               /\ route'.low = low /\ route'.high = high /\ route'.value = value
            \/ /\ Asked(s, L)'
               /\ Here'.index = low /\ Here'.high = high /\ Here'.value = value
  <2>1. RequestGiven(s, L, mem, buf)
    BY RequestAsked
  <2> QED
    BY <2>1 DEF RequestGiven
<1>8. low + CellBase * high = Origin(m0, s) + L - 1
  <2>1. CASE Leaves(s) = 1
    <3>1. L = 1 /\ low + CellBase * high = Origin(m0, s)
      BY <1>3, <1>7, <2>1
    <3> QED
      BY <1>3, <3>1
  <2>2. CASE Leaves(s) > 1
    <3>1. PICK v \in Nat : v = Origin(m0, s) + L - 1
      BY <1>3
    <3>2. low = v % CellBase /\ high = v \div CellBase
      BY <1>2, <1>3, <1>7, <2>2, <3>1 DEF Digits
    <3>3. v = CellBase * high + low
      <4>1. CellBase \in Nat \ {0}
        BY <1>2
      <4>2. v = CellBase * (v \div CellBase) + (v % CellBase)
        BY <4>1, Quotient
      <4> QED
        BY <3>2, <4>2
    <3>4. CellBase * high \in Nat /\ low \in Nat
      BY <1>2 DEF Byte
    <3> QED
      BY <3>1, <3>3, <3>4
  <2> QED
    BY <1>2, <2>1, <2>2
<1>9. s.kind = "store" => value = m0[s.operand[L]]
  <2>1. CASE Leaves(s) = 1
    BY <1>7, <2>1
  <2>2. CASE Leaves(s) > 1
    <3>1. L \in (L - 1) + 1 .. Leaves(s)
      BY <1>2
    <3> QED
      BY <1>7, <2>2, <3>1 DEF BufferHolds
  <2> QED
    BY <1>2, <2>1, <2>2
<1>10. Carries(low, high, value, m0, s, L)
  BY <1>8, <1>9 DEF Carries
<1>11. \/ Routed(s, L)' /\ Carries(route'.low, route'.high, route'.value, m0, s, L)
       \/ Asked(s, L)' /\ Carries(Here'.index, Here'.high, Here'.value, m0, s, L)
  BY <1>7, <1>10
<1> QED
  BY <1>4, <1>5, <1>6, <1>11 DEF Progress

LEMMA BeginProgress ==
    ASSUME Types, Clean, Idle, \A i \in 1 .. BufferCells : buffer[i] = 0,
           NEW s \in Sites, Emitted(s), Begin(s), UNCHANGED frameReturns
    PROVE  Progress(s, 1, begun.cell)'
<1>1. PICK m0 \in [Cells -> Byte] : m0 = cell
  BY DEF Types
<1>2. /\ VM!InRange(m0, s) /\ Request(s, 1, m0, Staged(s), field, route)
      /\ begun' = [site |-> s, cell |-> m0]
  BY <1>1 DEF Begin
<1>3. /\ Leaves(s) \in Nat \ {0} /\ s.low \in Cells /\ CellBase \in Nat \ {0} /\ None \notin Cells
      /\ \A i \in 1 .. Leaves(s) : s.operand[i] \in Cells
      /\ Leaves(s) > 1 => Leaves(s) <= BufferCells
      /\ BufferCells \in Nat /\ 0 \in Byte /\ Frame \notin Regions
  BY SiteFacts, Constants
<1>4. /\ Staged(s) \in [1 .. BufferCells -> Byte]
      /\ Leaves(s) > 1 /\ s.kind = "store" =>
             \A i \in 1 .. Leaves(s) : Staged(s)[i] = m0[s.operand[i]]
  BY <1>1, <1>3 DEF Staged, Types
<1>5. Kept(m0, m0, s, 1 - 1)
  <2>1. 1 - 1 = 0 /\ \A i \in 1 .. 0 : FALSE
    OBVIOUS
  <2>2. Kept(m0, m0, s, 0)
    BY <2>1, Zenon DEF Kept
  <2> QED
    BY <2>1, <2>2
<1>6. Digits(m0, m0, s, 1)
  <2> SUFFICES ASSUME Leaves(s) > 1
               PROVE  /\ m0[s.low] = (Origin(m0, s) + 1 - 1) % CellBase
                      /\ m0[s.high] = (Origin(m0, s) + 1 - 1) \div CellBase
    BY DEF Digits
  <2>1. s.high \in Cells
    BY <1>2, Targets
  <2>2. PICK l \in 0 .. CellBase - 1, h \in Nat : l = m0[s.low] /\ h = m0[s.high]
    BY <1>3, <2>1 DEF Byte
  <2>3. Origin(m0, s) = l + CellBase * h
    BY <1>2, <1>3, <2>1, <2>2, Targets
  <2>4. CellBase * h \in Nat
    BY <1>3
  <2>5. Origin(m0, s) + 1 - 1 = CellBase * h + l
    BY <2>2, <2>3, <2>4
  <2> QED
    BY <1>3, <2>2, <2>5, DigitsOf
<1>7. BufferHolds(Staged(s), m0, s, 1 - 1, 1 - 1)
  BY <1>4 DEF BufferHolds
<1>8. 1 \in 1 .. Leaves(s)
  BY <1>3
<1>9. \A r \in Regions : field[r] = ZeroFields
  BY <1>3 DEF Clean, Idle
<1>10. PICK st, fields, rt : st = Staged(s) /\ fields = field /\ rt = route
  OBVIOUS
<1>11. Progress(s, 1, m0)'
  <2>1. Request(s, 1, m0, st, fields, rt) /\ RouteTyped(rt) /\ DOMAIN fields = Regions
        /\ frameReturns \in BOOLEAN /\ \A r \in Regions : fields[r] = ZeroFields
    BY <1>2, <1>9, <1>10 DEF Types
  <2>2. st \in [1 .. BufferCells -> Byte] /\ BufferHolds(st, m0, s, 1 - 1, 1 - 1)
    BY <1>4, <1>7, <1>10
  <2> QED
    BY <1>2, <1>5, <1>6, <1>8, <2>1, <2>2, RequestProgress
<1>12. begun'.cell = m0
  BY <1>2
<1> QED
  BY <1>11, <1>12 DEF Progress

(* The router and the accessors. *)
LEMMA RouterProgress ==
    ASSUME Types, Clean, NEW s \in Sites, NEW L \in 1 .. Leaves(s), NEW m0,
           Routed(s, L), Progress(s, L, m0), RouterBody, UNCHANGED frameReturns
    PROVE  Progress(s, L, m0)'
<1>1. /\ Asked(s, L)' /\ UNCHANGED <<cell, buffer>>
      /\ Here'.index = route.low /\ Here'.high = route.high /\ Here'.value = route.value
  BY RouterKeeps
<1>2. ~Asked(s, L) /\ ~Answered(s, L)
  <2>1. ctx = Frame /\ s.region # Frame
    BY SiteFacts, Constants DEF Routed
  <2>2. pc # Resume(s, L)
    <3>1. pc.kind = "router" /\ Resume(s, L).kind = "resume"
      BY DEF Routed, Router, Resume
    <3> QED
      BY <3>1
  <2> QED
    BY <2>1, <2>2 DEF Asked, Answered
<1>3. /\ VM!InRange(m0, s) /\ OffsetsAt(cell, m0, s, L) /\ BufferHolds(buffer, m0, s, L - 1, L)
      /\ Kept(cell, m0, s, L - 1) /\ Carries(route.low, route.high, route.value, m0, s, L)
  BY <1>2 DEF Progress
<1>4. /\ OffsetsAt(cell', m0, s, L) /\ BufferHolds(buffer', m0, s, L - 1, L)
      /\ Kept(cell', m0, s, L - 1)
      /\ Carries(Here'.index, Here'.high, Here'.value, m0, s, L)
  BY <1>1, <1>3
<1> QED
  BY <1>1, <1>3, <1>4 DEF Progress

LEMMA AccessorProgress ==
    ASSUME Types, Clean, NEW s \in Sites, Emitted(s), NEW L \in 1 .. Leaves(s),
           NEW m0 \in [Cells -> Byte], Asked(s, L), Progress(s, L, m0), NEW op,
           AccessorBody(op) \/ SelectingAccessorBody(op), UNCHANGED frameReturns
    PROVE  Progress(s, L, m0)'
<1> DEFINE value == IF ctx' = Frame THEN cell'[Abi] ELSE Here'.value
<1>1. /\ Answered(s, L)' /\ UNCHANGED buffer
      /\ \E at \in Reached :
            IF s.kind = "load"
            THEN (\A c \in Cells \ {Abi} : cell'[c] = cell[c]) /\ value = cell[at]
            ELSE cell' = [cell EXCEPT ![at] = Here.value]
  <2>1. CASE AccessorBody(op)
    BY <2>1, AccessorKeeps
  <2>2. CASE SelectingAccessorBody(op)
    BY <2>2, SelectingKeeps
  <2> QED
    BY <2>1, <2>2
<1> HIDE DEF value
<1>2. ~Routed(s, L) /\ ~Answered(s, L)
  <2>1. ctx = s.region /\ s.region # Frame
    BY SiteFacts, Constants DEF Asked
  <2>2. Here.next # Resume(s, L)
    <3>1. Here.next.kind = "accessor" /\ Resume(s, L).kind = "resume"
      BY DEF Asked, Accessor, Resume
    <3> QED
      BY <3>1
  <2> QED
    BY <2>1, <2>2 DEF Routed, Answered
<1>3. /\ VM!InRange(m0, s) /\ OffsetsAt(cell, m0, s, L) /\ BufferHolds(buffer, m0, s, L - 1, L)
      /\ Kept(cell, m0, s, L - 1) /\ Carries(Here.index, Here.high, Here.value, m0, s, L)
  BY <1>2 DEF Progress
<1>4. /\ s.kind \in {"load", "store"} /\ Abi \in Cells /\ s.low \in Cells /\ CellBase \in Nat
      /\ Leaves(s) \in Nat
  BY SiteFacts, Constants
<1>5. /\ Origin(m0, s) \in Nat /\ Origin(m0, s) + L \in 1 .. Len(Payload[s.region])
      /\ Target(m0, s, L) \in Cells \ (Loose(s) \cup Moving(s))
      /\ Leaves(s) > 1 => s.high \in Cells
  BY <1>3, Targets
<1>6. Reached = {Target(m0, s, L)}
  <2>1. PICK index \in Nat, high \in Nat : index = Here.index /\ high = Here.high
    <3>1. ctx \in Regions
      BY SiteFacts DEF Asked
    <3> QED
      BY <3>1 DEF Types, PortalTyped, Here, Byte
  <2>2. index + CellBase * high = Origin(m0, s) + L - 1
    BY <1>3, <2>1 DEF Carries
  <2>3. Chosen = index + CellBase * high + 1
    BY <2>1 DEF Chosen
  <2>4. Chosen = Origin(m0, s) + L
    BY <1>4, <1>5, <2>2, <2>3
  <2>5. ctx = s.region /\ Chosen <= Len(Payload[ctx])
    BY <1>5, <2>4 DEF Asked
  <2> QED
    BY <2>4, <2>5 DEF Reached, Target
<1>7. CASE s.kind = "load"
  <2>1. (\A c \in Cells \ {Abi} : cell'[c] = cell[c]) /\ value = cell[Target(m0, s, L)]
    BY <1>1, <1>6, <1>7
  <2>2. Abi \in Loose(s) /\ Abi \notin Moving(s)
    BY <1>7 DEF Loose, Emitted
  <2>3. Kept(cell', m0, s, L)
    BY <1>3, <1>7, <2>1, <2>2, KeptOutside, KeptLoads
  <2>4. OffsetsAt(cell', m0, s, L)
    <3> SUFFICES ASSUME Leaves(s) > 1, NEW c \in {s.low, s.high} PROVE cell'[c] = cell[c]
      BY <1>3 DEF OffsetsAt
    <3> QED
      BY <1>4, <1>5, <2>1, <2>2 DEF Moving
  <2>5. value = m0[Target(m0, s, L)]
    BY <1>3, <1>7, <2>1, KeptFetch
  <2>6. BufferHolds(buffer', m0, s, L - 1, L)
    BY <1>1, <1>3
  <2> QED
    BY <1>1, <1>3, <2>3, <2>4, <2>5, <2>6 DEF Progress, value
<1>8. CASE s.kind = "store"
  <2>1. cell' = [cell EXCEPT ![Target(m0, s, L)] = m0[s.operand[L]]]
    BY <1>1, <1>3, <1>6, <1>8 DEF Carries
  <2>2. Kept(cell', m0, s, L)
    BY <1>3, <1>8, <2>1, KeptStore DEF Types
  <2>3. OffsetsAt(cell', m0, s, L)
    <3> SUFFICES ASSUME Leaves(s) > 1, NEW c \in {s.low, s.high} PROVE cell'[c] = cell[c]
      BY <1>3 DEF OffsetsAt
    <3> QED
      BY <1>4, <1>5, <2>1 DEF Moving, Types
  <2>4. BufferHolds(buffer', m0, s, L - 1, L)
    BY <1>1, <1>3
  <2> QED
    BY <1>1, <1>3, <1>8, <2>2, <2>3, <2>4 DEF Progress
<1> QED
  BY <1>4, <1>7, <1>8

(* What a resume finds. *)
LEMMA AnsweredProgress ==
    ASSUME Types, NEW s \in Sites, NEW L \in 1 .. Leaves(s), NEW m0, Answered(s, L),
           Progress(s, L, m0)
    PROVE  /\ VM!InRange(m0, s) /\ OffsetsAt(cell, m0, s, L)
           /\ BufferHolds(buffer, m0, s, L - 1, L) /\ Kept(cell, m0, s, L)
           /\ s.kind = "load" => Loaded = m0[Target(m0, s, L)]
<1>1. s.region # Frame
  BY SiteFacts, Constants
<1>2. ~Routed(s, L) /\ ~Asked(s, L)
  <2>1. Routed(s, L) => pc.kind = "router" /\ ctx = Frame
    BY DEF Routed, Router
  <2>2. Asked(s, L) => Here.next.kind = "accessor" /\ ctx = s.region
    BY DEF Asked, Accessor
  <2>3. \/ ctx = s.region /\ Here.next.kind = "resume"
        \/ ctx = Frame /\ pc.kind = "resume"
    BY DEF Answered, Resume
  <2> QED
    BY <1>1, <2>1, <2>2, <2>3
<1> QED
  BY <1>2 DEF Progress, Loaded

(* The cells after a resume, and the buffer, when the leaves are several. *)
LEMMA TakenLeaf ==
    ASSUME Types, NEW s \in Sites, Emitted(s), NEW L \in 1 .. Leaves(s), Leaves(s) > 1,
           NEW m0 \in [Cells -> Byte], Answered(s, L), Progress(s, L, m0),
           NEW mem \in [Cells -> Byte], NEW buf \in [1 .. BufferCells -> Byte],
           Taken(s, L, mem, buf)
    PROVE  /\ Kept(mem, m0, s, L) /\ OffsetsAt(mem, m0, s, L)
           /\ BufferHolds(buf, m0, s, L, L)
<1>1. /\ VM!InRange(m0, s) /\ OffsetsAt(cell, m0, s, L)
      /\ BufferHolds(buffer, m0, s, L - 1, L) /\ Kept(cell, m0, s, L)
      /\ s.kind = "load" => Loaded = m0[Target(m0, s, L)]
  BY AnsweredProgress
<1>2. /\ Leaves(s) \in Nat /\ s.kind \in {"load", "store"} /\ s.low \in Cells /\ BufferCells \in Nat
      /\ Leaves(s) <= BufferCells
  BY SiteFacts, Constants
<1>3. s.high \in Cells
  BY <1>1, Targets
<1>4. CASE s.kind = "load"
  <2>1. buf = [buffer EXCEPT ![L] = Loaded] /\ \A c \in Cells \ {Abi} : mem[c] = cell[c]
    BY <1>4 DEF Taken
  <2>2. Abi \in Loose(s) /\ Abi \notin Moving(s)
    BY <1>4 DEF Loose, Emitted
  <2>3. Kept(mem, m0, s, L)
    BY <1>1, <2>1, <2>2, KeptOutside
  <2>4. OffsetsAt(mem, m0, s, L)
    <3> SUFFICES ASSUME NEW c \in {s.low, s.high} PROVE mem[c] = cell[c]
      BY <1>1 DEF OffsetsAt
    <3> QED
      BY <1>2, <1>3, <2>1, <2>2 DEF Moving
  <2>5. \A i \in 1 .. L : buf[i] = m0[Target(m0, s, i)]
    <3> SUFFICES ASSUME NEW i \in 1 .. L PROVE buf[i] = m0[Target(m0, s, i)]
      OBVIOUS
    <3>1. i \in DOMAIN buffer
      BY <1>2 DEF Types
    <3>2. CASE i = L
      BY <1>1, <1>4, <2>1, <3>1, <3>2
    <3>3. CASE i # L
      <4>1. i \in 1 .. L - 1 /\ buf[i] = buffer[i]
        BY <1>2, <2>1, <3>1, <3>3
      <4> QED
        BY <1>1, <1>4, <4>1 DEF BufferHolds
    <3> QED
      BY <3>2, <3>3
  <2> QED
    BY <1>4, <2>3, <2>4, <2>5 DEF BufferHolds
<1>5. CASE s.kind = "store"
  <2>1. mem = cell /\ buf = buffer
    BY <1>5 DEF Taken
  <2>2. BufferHolds(buf, m0, s, L, L)
    BY <1>1, <1>5, <2>1 DEF BufferHolds
  <2> QED
    BY <1>1, <2>1, <2>2
<1> QED
  BY <1>2, <1>4, <1>5

(* The next leaf. *)
LEMMA ResumeProgress ==
    ASSUME Types, Clean, NEW s \in Sites, Emitted(s), NEW L \in 1 .. Leaves(s), L # Leaves(s),
           NEW m0 \in [Cells -> Byte], Answered(s, L), Progress(s, L, m0), ResumeBody(s, L),
           UNCHANGED frameReturns
    PROVE  Progress(s, L + 1, m0)'
<1>0. PICK fields : \E mem \in [Cells -> Byte], buf \in [1 .. BufferCells -> Byte] :
          /\ DOMAIN fields = Regions /\ \A r \in Regions : fields[r] = ZeroFields
          /\ Taken(s, L, mem, buf) /\ WentOn(s, L, mem, buf, fields) /\ Ended(s, L, fields)
  BY ResumeEffect
<1>1. PICK mem \in [Cells -> Byte], buf \in [1 .. BufferCells -> Byte] :
          /\ DOMAIN fields = Regions /\ \A r \in Regions : fields[r] = ZeroFields
          /\ Taken(s, L, mem, buf) /\ WentOn(s, L, mem, buf, fields) /\ Ended(s, L, fields)
  BY <1>0
<1>2. Leaves(s) \in Nat /\ Leaves(s) > 1 /\ L < Leaves(s) /\ L + 1 \in 1 .. Leaves(s)
      /\ (L + 1) - 1 = L /\ VM!InRange(m0, s)
  BY SiteFacts, AnsweredProgress
<1>3. /\ Kept(mem, m0, s, L) /\ OffsetsAt(mem, m0, s, L) /\ BufferHolds(buf, m0, s, L, L)
  BY <1>1, <1>2, TakenLeaf
<1>4. Digits(mem, m0, s, L)
  BY <1>2, <1>3 DEF OffsetsAt, Digits
<1>5. PICK mem2 \in [Cells -> Byte] : mem2 = Incremented(mem, s)
  BY IncrementedTyped
<1>6. Digits(mem2, m0, s, L + 1) /\ \A c \in Cells \ Moving(s) : mem2[c] = mem[c]
  BY <1>2, <1>4, <1>5, NextOffset
<1>7. Kept(mem2, m0, s, (L + 1) - 1) /\ BufferHolds(buf, m0, s, (L + 1) - 1, (L + 1) - 1)
  BY <1>2, <1>3, <1>6, KeptOutside
<1>8. PICK rt : rt = route
  OBVIOUS
<1>9. Request(s, L + 1, mem2, buf, fields, rt) /\ RouteTyped(rt) /\ frameReturns \in BOOLEAN
  BY <1>1, <1>5, <1>8 DEF WentOn, Types
<1>10. Leaves(s) # 1
  BY <1>2
<1> QED
  BY <1>1, <1>2, <1>6, <1>7, <1>9, <1>10, RequestProgress

-----------------------------------------------------------------------------
(* What the VM's access does to every cell. *)
LEMMA SelectedTargets ==
    ASSUME NEW s \in Sites, Emitted(s), NEW m0 \in [Cells -> Byte], VM!InRange(m0, s)
    PROVE  /\ VM!Selected(m0, s) \in Seq(Cells) /\ Len(VM!Selected(m0, s)) = Leaves(s)
           /\ DOMAIN VM!Selected(m0, s) = 1 .. Leaves(s)
           /\ \A i \in 1 .. Leaves(s) : VM!Selected(m0, s)[i] = Target(m0, s, i)
<1>1. PICK o \in Nat, n \in Nat \ {0}, P \in Seq(Cells) :
         o = Origin(m0, s) /\ n = Leaves(s) /\ P = Payload[s.region]
  BY SiteFacts, Targets
<1>2. \A i \in 1 .. n : o + i \in 1 .. Len(P)
  BY <1>1, Targets
<1>3. VM!Selected(m0, s) = SubSeq(P, o + 1, o + n)
  BY <1>1 DEF VM!Selected, Origin, VM!Leaves, Leaves
<1>4. \A i \in o + 1 .. o + n : P[i] \in Cells
  <2> SUFFICES ASSUME NEW i \in o + 1 .. o + n PROVE P[i] \in Cells
    OBVIOUS
  <2>1. i - o \in 1 .. n /\ o + (i - o) = i
    BY <1>1
  <2>2. i \in 1 .. Len(P)
    BY <1>2, <2>1
  <2> QED
    BY <2>2
<1>5. /\ SubSeq(P, o + 1, o + n) \in Seq(Cells)
      /\ Len(SubSeq(P, o + 1, o + n)) = n
      /\ \A i \in 1 .. n : SubSeq(P, o + 1, o + n)[i] = P[o + i]
  <2>1. PICK a \in Int, b \in Int : a = o + 1 /\ b = o + n
    BY <1>1
  <2>2. /\ SubSeq(P, a, b) \in Seq(Cells)
        /\ Len(SubSeq(P, a, b)) = IF a <= b THEN b - a + 1 ELSE 0
        /\ \A i \in 1 .. b - a + 1 : SubSeq(P, a, b)[i] = P[a + i - 1]
    BY <1>4, <2>1, SubSeqProperties
  <2>3. a <= b /\ b - a + 1 = n
    <3>1. n >= 1
      OBVIOUS
    <3>2. (o + n) - (o + 1) + 1 = n /\ o + 1 <= o + n
      BY <3>1
    <3> QED
      BY <2>1, <3>2
  <2>4. ASSUME NEW i \in 1 .. n PROVE SubSeq(P, a, b)[i] = P[o + i]
    <3>1. a + i - 1 = o + i
      BY <2>1
    <3> QED
      BY <2>2, <2>3, <3>1
  <2> QED
    BY <2>1, <2>2, <2>3, <2>4
<1>6. DOMAIN SubSeq(P, o + 1, o + n) = 1 .. n
  BY <1>5
<1>7. \A i \in 1 .. n : P[o + i] = Target(m0, s, i)
  BY <1>1 DEF Target
<1> QED
  BY <1>1, <1>3, <1>5, <1>6, <1>7

(* The offset the VM leaves: of an object, that of its last leaf. *)
LEMMA AdvancedCells ==
    ASSUME NEW s \in Sites, Emitted(s), NEW m0 \in [Cells -> Byte], VM!InRange(m0, s),
           NEW mem \in [Cells -> Byte],
           Leaves(s) > 1 => mem[s.low] = m0[s.low] /\ mem[s.high] = m0[s.high]
    PROVE  /\ Digits(VM!Advanced(mem, s), m0, s, Leaves(s))
           /\ \A c \in Cells \ Moving(s) : VM!Advanced(mem, s)[c] = mem[c]
<1>1. /\ s.low \in Cells /\ (s.high = None \/ s.high \in Cells) /\ None \notin Cells
      /\ s.high # s.low /\ Leaves(s) \in Nat \ {0} /\ CellBase \in Nat /\ CellBase >= 2
  BY SiteFacts, Constants
<1>2. CASE s.high = None
  <2>1. Leaves(s) = 1
    BY <1>1, <1>2 DEF Emitted, VM!IsWord
  <2>2. VM!Advanced(mem, s) = mem
    BY <1>2 DEF VM!Advanced, VM!IsWord
  <2> QED
    BY <2>1, <2>2 DEF Digits
<1>3. CASE s.high \in Cells
  <2>1. PICK l \in 0 .. CellBase - 1, h \in 0 .. CellBase - 1 : l = mem[s.low] /\ h = mem[s.high]
    BY <1>1, <1>3 DEF Byte
  <2>2. PICK sum : sum = (VM!Offset(mem, s) + VM!Leaves(s) - 1) % (CellBase * CellBase)
    OBVIOUS
  <2>3. VM!Advanced(mem, s) = [mem EXCEPT ![s.low] = sum % CellBase, ![s.high] = sum \div CellBase]
    BY <1>1, <1>3, <2>2 DEF VM!Advanced, VM!IsWord
  <2>4. /\ VM!Advanced(mem, s)[s.low] = sum % CellBase
        /\ VM!Advanced(mem, s)[s.high] = sum \div CellBase
        /\ \A c \in Cells \ {s.low, s.high} : VM!Advanced(mem, s)[c] = mem[c]
    BY <1>1, <1>3, <2>3
  <2>5. PICK q \in Nat, b \in Nat : q = CellBase * CellBase /\ b = CellBase * h
    BY <1>1, <2>1
  <2>6. VM!Offset(mem, s) = b + l /\ VM!Leaves(s) = Leaves(s)
    BY <1>1, <1>3, <2>1, <2>5 DEF VM!Offset, VM!IsWord, Leaves
  <2>7. CASE Leaves(s) = 1
    <3>1. b + l < q
      <4>1. CellBase * h <= CellBase * (CellBase - 1)
        BY <1>1, <2>1
      <4>2. CellBase * (CellBase - 1) = CellBase * CellBase - CellBase
        BY <1>1
      <4> QED
        BY <1>1, <2>1, <2>5, <4>1, <4>2
    <3>2. sum = b + l
      <4>1. sum = (b + l) % q
        <5>1. b + l + 1 - 1 = b + l
          BY <2>1, <2>5
        <5> QED
          BY <2>2, <2>5, <2>6, <2>7, <5>1
      <4> QED
        BY <2>1, <2>5, <3>1, <4>1
    <3>3. sum % CellBase = l /\ sum \div CellBase = h
      <4>1. (CellBase * h + l) \div CellBase = h /\ (CellBase * h + l) % CellBase = l
        <5>1. CellBase \in Nat \ {0} /\ h \in Nat
          BY <1>1
        <5> QED
          BY <5>1, DigitsOf
      <4> QED
        BY <2>5, <3>2, <4>1
    <3>4. \A c \in Cells : VM!Advanced(mem, s)[c] = mem[c]
      <4> SUFFICES ASSUME NEW c \in Cells PROVE VM!Advanced(mem, s)[c] = mem[c]
        BY Zenon
      <4>1. CASE c = s.low
        BY <2>1, <2>4, <3>3, <4>1
      <4>2. CASE c = s.high
        BY <2>1, <2>4, <3>3, <4>2
      <4>3. CASE c \notin {s.low, s.high}
        BY <2>4, <4>3
      <4> QED
        BY <4>1, <4>2, <4>3
    <3> QED
      BY <2>7, <3>4 DEF Digits
  <2>8. CASE Leaves(s) > 1
    <3>1. Origin(m0, s) = VM!Offset(mem, s) /\ Origin(m0, s) + Leaves(s) <= q
      BY <1>1, <2>5, <2>8, Targets DEF Origin, VM!Offset, VM!IsWord
    <3>2. sum = Origin(m0, s) + Leaves(s) - 1
      <4>1. PICK v \in Nat : v = Origin(m0, s) + Leaves(s) - 1
        BY <1>1, Targets
      <4>2. v < q /\ sum = v % q
        BY <1>1, <2>2, <2>5, <2>6, <3>1, <4>1, Targets
      <4> QED
        BY <2>5, <4>1, <4>2
    <3> QED
      BY <2>4, <2>8, <3>2 DEF Digits, Moving
  <2> QED
    BY <1>1, <2>7, <2>8
<1> QED
  BY <1>1, <1>2, <1>3

LEMMA WrittenCells ==
    ASSUME NEW s \in Sites, Emitted(s), NEW m0 \in [Cells -> Byte], VM!InRange(m0, s)
    PROVE  \E mem \in [Cells -> Byte] :
               /\ VM!Accessed(m0, s) = VM!Advanced(mem, s)
               /\ s.kind = "load" => mem = VM!Written(m0, s.operand, VM!Values(m0, VM!Selected(m0, s)))
               /\ s.kind = "store" =>
                      mem = VM!Written(m0, VM!Selected(m0, s), VM!Values(m0, s.operand))
<1>1. /\ s.kind \in {"load", "store"} /\ DOMAIN s.operand = 1 .. Leaves(s)
      /\ \A i \in 1 .. Leaves(s) : s.operand[i] \in Cells
  BY SiteFacts
<1>2. /\ DOMAIN VM!Selected(m0, s) = 1 .. Leaves(s)
      /\ \A i \in 1 .. Leaves(s) : VM!Selected(m0, s)[i] \in Cells
  <2>1. \A i \in 1 .. Leaves(s) : Target(m0, s, i) \in Cells
    BY Targets
  <2> QED
    BY <2>1, SelectedTargets
<1>3. ASSUME NEW dst, NEW src, DOMAIN dst = 1 .. Leaves(s), DOMAIN src = 1 .. Leaves(s),
             \A i \in 1 .. Leaves(s) : src[i] \in Cells
      PROVE  VM!Written(m0, dst, VM!Values(m0, src)) \in [Cells -> Byte]
  <2>1. ASSUME NEW c \in Cells, \E i \in DOMAIN dst : dst[i] = c
        PROVE  VM!Values(m0, src)[CHOOSE i \in DOMAIN dst : dst[i] = c] \in Byte
    <3>1. PICK k \in 1 .. Leaves(s) : k = CHOOSE i \in DOMAIN dst : dst[i] = c
      BY <1>3, <2>1
    <3>2. VM!Values(m0, src)[k] = m0[src[k]]
      BY <1>3 DEF VM!Values
    <3> QED
      BY <1>3, <3>1, <3>2
  <2> QED
    BY <2>1 DEF VM!Written
<1>4. CASE s.kind = "load"
  <2>1. VM!Accessed(m0, s) =
            VM!Advanced(VM!Written(m0, s.operand, VM!Values(m0, VM!Selected(m0, s))), s)
    BY <1>4 DEF VM!Accessed
  <2>2. VM!Written(m0, s.operand, VM!Values(m0, VM!Selected(m0, s))) \in [Cells -> Byte]
    BY <1>1, <1>2, <1>3
  <2> QED
    BY <1>4, <2>1, <2>2
<1>5. CASE s.kind = "store"
  <2>1. VM!Accessed(m0, s) =
            VM!Advanced(VM!Written(m0, VM!Selected(m0, s), VM!Values(m0, s.operand)), s)
    BY <1>5 DEF VM!Accessed
  <2>2. VM!Written(m0, VM!Selected(m0, s), VM!Values(m0, s.operand)) \in [Cells -> Byte]
    BY <1>1, <1>2, <1>3
  <2> QED
    BY <1>5, <2>1, <2>2
<1> QED
  BY <1>1, <1>4, <1>5

LEMMA AccessedLoad ==
    ASSUME NEW s \in Sites, Emitted(s), NEW m0 \in [Cells -> Byte], VM!InRange(m0, s),
           s.kind = "load"
    PROVE  /\ Digits(VM!Accessed(m0, s), m0, s, Leaves(s))
           /\ \A c \in Cells \ Moving(s) :
                 VM!Accessed(m0, s)[c] =
                    IF \E i \in DOMAIN s.operand : s.operand[i] = c
                    THEN m0[Target(m0, s, CHOOSE i \in DOMAIN s.operand : s.operand[i] = c)]
                    ELSE m0[c]
<1>1. PICK mem \in [Cells -> Byte] :
          /\ VM!Accessed(m0, s) = VM!Advanced(mem, s)
          /\ mem = VM!Written(m0, s.operand, VM!Values(m0, VM!Selected(m0, s)))
  BY WrittenCells
<1>2. /\ DOMAIN s.operand = 1 .. Leaves(s) /\ s.low \in Cells
      /\ Leaves(s) > 1 => s.high \in Cells
  BY SiteFacts, Targets
<1>3. ASSUME NEW c \in Cells
      PROVE  mem[c] = IF \E i \in DOMAIN s.operand : s.operand[i] = c
                      THEN m0[Target(m0, s, CHOOSE i \in DOMAIN s.operand : s.operand[i] = c)]
                      ELSE m0[c]
  <2>1. CASE \E i \in DOMAIN s.operand : s.operand[i] = c
    <3>1. PICK k \in 1 .. Leaves(s) : k = CHOOSE i \in DOMAIN s.operand : s.operand[i] = c
      BY <1>2, <2>1
    <3>2. VM!Values(m0, VM!Selected(m0, s))[k] = m0[Target(m0, s, k)]
      BY SelectedTargets DEF VM!Values
    <3>3. mem[c] = VM!Values(m0, VM!Selected(m0, s))[k]
      BY <1>1, <2>1, <3>1 DEF VM!Written
    <3> QED
      BY <2>1, <3>1, <3>2, <3>3
  <2>2. CASE ~\E i \in DOMAIN s.operand : s.operand[i] = c
    BY <1>1, <2>2 DEF VM!Written
  <2> QED
    BY <2>1, <2>2
<1>4. Leaves(s) > 1 => mem[s.low] = m0[s.low] /\ mem[s.high] = m0[s.high]
  <2> SUFFICES ASSUME Leaves(s) > 1, NEW c \in {s.low, s.high} PROVE mem[c] = m0[c]
    BY Zenon
  <2>1. c \in Cells /\ ~\E i \in DOMAIN s.operand : s.operand[i] = c
    BY <1>2 DEF Emitted, Moving
  <2> QED
    BY <1>3, <2>1
<1>5. /\ Digits(VM!Advanced(mem, s), m0, s, Leaves(s))
      /\ \A c \in Cells \ Moving(s) : VM!Advanced(mem, s)[c] = mem[c]
  BY <1>4, AdvancedCells
<1> QED
  BY <1>1, <1>3, <1>5

LEMMA AccessedStore ==
    ASSUME NEW s \in Sites, Emitted(s), NEW m0 \in [Cells -> Byte], VM!InRange(m0, s),
           s.kind = "store", NEW mem2, Kept(mem2, m0, s, Leaves(s))
    PROVE  /\ Digits(VM!Accessed(m0, s), m0, s, Leaves(s))
           /\ \A c \in Cells \ (Loose(s) \cup Moving(s)) : VM!Accessed(m0, s)[c] = mem2[c]
<1>1. PICK mem \in [Cells -> Byte] :
          /\ VM!Accessed(m0, s) = VM!Advanced(mem, s)
          /\ mem = VM!Written(m0, VM!Selected(m0, s), VM!Values(m0, s.operand))
  BY WrittenCells
<1>2. /\ DOMAIN s.operand = 1 .. Leaves(s) /\ s.low \in Cells
      /\ Leaves(s) > 1 => s.high \in Cells
      /\ \A i \in 1 .. Leaves(s) : Target(m0, s, i) \notin Moving(s)
  BY SiteFacts, Targets
<1>3. DOMAIN VM!Selected(m0, s) = 1 .. Leaves(s)
      /\ \A i \in 1 .. Leaves(s) : VM!Selected(m0, s)[i] = Target(m0, s, i)
  BY SelectedTargets
<1>4. ASSUME NEW c \in Cells, \A i \in 1 .. Leaves(s) : Target(m0, s, i) # c
      PROVE  mem[c] = m0[c]
  <2>1. ~\E i \in DOMAIN VM!Selected(m0, s) : VM!Selected(m0, s)[i] = c
    BY <1>3, <1>4
  <2> QED
    BY <1>1, <2>1 DEF VM!Written
<1>5. ASSUME NEW c \in Cells, ~(\A i \in 1 .. Leaves(s) : Target(m0, s, i) # c)
      PROVE  \E k \in 1 .. Leaves(s) : Target(m0, s, k) = c /\ mem[c] = m0[s.operand[k]]
  <2>1. \E i \in DOMAIN VM!Selected(m0, s) : VM!Selected(m0, s)[i] = c
    BY <1>3, <1>5
  <2>2. PICK k \in 1 .. Leaves(s) :
           /\ k = CHOOSE i \in DOMAIN VM!Selected(m0, s) : VM!Selected(m0, s)[i] = c
           /\ VM!Selected(m0, s)[k] = c
    BY <1>3, <2>1
  <2>3. VM!Values(m0, s.operand)[k] = m0[s.operand[k]]
    BY <1>2 DEF VM!Values
  <2>4. mem[c] = VM!Values(m0, s.operand)[k]
    BY <1>1, <2>1, <2>2 DEF VM!Written
  <2> QED
    BY <1>3, <2>2, <2>3, <2>4
<1>6. Leaves(s) > 1 => mem[s.low] = m0[s.low] /\ mem[s.high] = m0[s.high]
  <2> SUFFICES ASSUME Leaves(s) > 1, NEW c \in {s.low, s.high} PROVE mem[c] = m0[c]
    BY Zenon
  <2>1. c \in Cells /\ \A i \in 1 .. Leaves(s) : Target(m0, s, i) # c
    BY <1>2 DEF Moving
  <2> QED
    BY <1>4, <2>1
<1>7. /\ Digits(VM!Advanced(mem, s), m0, s, Leaves(s))
      /\ \A c \in Cells \ Moving(s) : VM!Advanced(mem, s)[c] = mem[c]
  BY <1>6, AdvancedCells
<1>8. ASSUME NEW c \in Cells \ (Loose(s) \cup Moving(s))
      PROVE  mem[c] = mem2[c]
  <2>1. CASE \A i \in 1 .. Leaves(s) : Target(m0, s, i) # c
    <3>1. mem2[c] = m0[c]
      BY <2>1, Zenon DEF Kept
    <3> QED
      BY <1>4, <2>1, <3>1
  <2>2. CASE ~(\A i \in 1 .. Leaves(s) : Target(m0, s, i) # c)
    <3>1. PICK k \in 1 .. Leaves(s) : Target(m0, s, k) = c /\ mem[c] = m0[s.operand[k]]
      BY <1>5, <2>2
    <3>2. mem2[c] = m0[s.operand[k]]
      BY <3>1, Zenon DEF Kept
    <3> QED
      BY <3>1, <3>2
  <2> QED
    BY <2>1, <2>2
<1> QED
  BY <1>1, <1>7, <1>8

(* The last resume: the cells are what one access of the VM makes them,    *)
(* but for those the program is through with.                              *)
LEMMA FinalAccess ==
    ASSUME Types, Clean, NEW s \in Sites, Emitted(s), NEW m0 \in [Cells -> Byte],
           Answered(s, Leaves(s)), Progress(s, Leaves(s), m0), ResumeBody(s, Leaves(s))
    PROVE  \A c \in Cells \ s.dead : cell'[c] = VM!Accessed(m0, s)[c]
<1>1. /\ Leaves(s) \in Nat \ {0} /\ Leaves(s) \in 1 .. Leaves(s)
      /\ s.kind \in {"load", "store"} /\ DOMAIN s.operand = 1 .. Leaves(s) /\ s.low \in Cells
      /\ s.operand[1] \in Cells
  BY SiteFacts
<1>0. PICK fields : \E mem \in [Cells -> Byte], buf \in [1 .. BufferCells -> Byte] :
          /\ Taken(s, Leaves(s), mem, buf) /\ WentOn(s, Leaves(s), mem, buf, fields)
  BY <1>1, ResumeEffect
<1>2. PICK mem \in [Cells -> Byte], buf \in [1 .. BufferCells -> Byte] :
          /\ Taken(s, Leaves(s), mem, buf) /\ WentOn(s, Leaves(s), mem, buf, fields)
  BY <1>0
<1>3. /\ VM!InRange(m0, s) /\ Kept(cell, m0, s, Leaves(s))
      /\ s.kind = "load" => Loaded = m0[Target(m0, s, Leaves(s))]
  BY <1>1, AnsweredProgress
<1>4. /\ Digits(VM!Accessed(m0, s), m0, s, Leaves(s))
      /\ s.kind = "load" =>
            \A c \in Cells \ Moving(s) :
                 VM!Accessed(m0, s)[c] =
                    IF \E i \in DOMAIN s.operand : s.operand[i] = c
                    THEN m0[Target(m0, s, CHOOSE i \in DOMAIN s.operand : s.operand[i] = c)]
                    ELSE m0[c]
      /\ s.kind = "store" =>
            \A c \in Cells \ (Loose(s) \cup Moving(s)) : VM!Accessed(m0, s)[c] = cell[c]
  <2>1. CASE s.kind = "load"
    BY <1>3, <2>1, AccessedLoad
  <2>2. CASE s.kind = "store"
    BY <1>3, <2>2, AccessedStore
  <2> QED
    BY <1>1, <2>1, <2>2
<1>5. Leaves(s) > 1 => /\ Kept(mem, m0, s, Leaves(s)) /\ OffsetsAt(mem, m0, s, Leaves(s))
                       /\ BufferHolds(buf, m0, s, Leaves(s), Leaves(s))
  BY <1>1, <1>2, TakenLeaf
<1> SUFFICES ASSUME NEW c \in Cells, c \notin s.dead PROVE cell'[c] = VM!Accessed(m0, s)[c]
  BY Zenon
<1>6. c \notin Loose(s) /\ (s.kind = "load" => Abi # c)
  BY DEF Loose, Emitted
<1>7. CASE c \in Moving(s)
  <2>1. Leaves(s) > 1 /\ (c = s.low \/ c = s.high)
    BY <1>7 DEF Moving
  <2>2. mem[c] = VM!Accessed(m0, s)[c]
    BY <1>4, <1>5, <1>6, <2>1 DEF Digits, OffsetsAt
  <2>3. CASE s.kind = "load"
    <3>1. ~\E i \in DOMAIN s.operand : s.operand[i] = c
      BY <1>1, <1>7, <2>3 DEF Emitted
    <3>2. cell' = Unstaged(mem, buf, s)
      BY <1>2, <2>1, <2>3 DEF WentOn
    <3> QED
      BY <2>2, <3>1, <3>2 DEF Unstaged, VM!Written
  <2>4. CASE s.kind = "store"
    BY <1>2, <2>2, <2>4 DEF WentOn
  <2> QED
    BY <1>1, <2>3, <2>4
<1>8. CASE c \notin Moving(s) /\ s.kind = "store"
  <2>1. cell' = cell
    BY <1>2, <1>8 DEF WentOn, Taken
  <2> QED
    BY <1>4, <1>6, <1>8, <2>1
<1>9. CASE c \notin Moving(s) /\ s.kind = "load" /\ Leaves(s) > 1
  <2>1. cell' = Unstaged(mem, buf, s)
    BY <1>2, <1>9 DEF WentOn
  <2>2. CASE \E i \in DOMAIN s.operand : s.operand[i] = c
    <3>1. PICK k \in 1 .. Leaves(s) : k = CHOOSE i \in DOMAIN s.operand : s.operand[i] = c
      BY <1>1, <2>2
    <3>2. cell'[c] = buf[k]
      BY <2>1, <2>2, <3>1 DEF Unstaged, VM!Written
    <3>3. buf[k] = m0[Target(m0, s, k)]
      BY <1>5, <1>9 DEF BufferHolds
    <3> QED
      BY <1>4, <1>9, <2>2, <3>1, <3>2, <3>3
  <2>3. CASE ~\E i \in DOMAIN s.operand : s.operand[i] = c
    <3>1. cell'[c] = mem[c]
      BY <2>1, <2>3 DEF Unstaged, VM!Written
    <3>2. mem[c] = m0[c]
      BY <1>5, <1>6, <1>9, Zenon DEF Kept
    <3> QED
      BY <1>4, <1>9, <2>3, <3>1, <3>2
  <2> QED
    BY <2>2, <2>3
<1>10. CASE c \notin Moving(s) /\ s.kind = "load" /\ Leaves(s) = 1
  <2>1. /\ cell' = mem /\ mem[s.operand[1]] = Loaded
        /\ \A d \in Cells \ {Abi, s.operand[1]} : mem[d] = cell[d]
    BY <1>2, <1>10 DEF WentOn, Taken
  <2>2. CASE c = s.operand[1]
    <3>1. PICK k \in 1 .. 1 : k = CHOOSE i \in DOMAIN s.operand : s.operand[i] = c
      BY <1>1, <1>10, <2>2
    <3>2. k = 1 /\ \E i \in DOMAIN s.operand : s.operand[i] = c
      BY <1>1, <2>2
    <3> QED
      BY <1>3, <1>4, <1>10, <2>1, <2>2, <3>1, <3>2
  <2>3. CASE c # s.operand[1]
    <3>1. ~\E i \in DOMAIN s.operand : s.operand[i] = c
      BY <1>1, <1>10, <2>3
    <3>2. cell[c] = m0[c]
      BY <1>3, <1>6, <1>10, Zenon DEF Kept
    <3> QED
      BY <1>4, <1>6, <1>10, <2>1, <2>3, <3>1, <3>2
  <2> QED
    BY <2>2, <2>3
<1> QED
  BY <1>1, <1>7, <1>8, <1>9, <1>10

-----------------------------------------------------------------------------
(* One step of the protocol: progress, or the end of the access. *)
LEMMA ProtocolProgress ==
    ASSUME Types, Clean, NEW s \in Sites, Emitted(s), NEW L \in 1 .. Leaves(s), Underway(s, L),
           Progress(s, L, begun.cell), Protocol
    PROVE  \/ UNCHANGED <<begun, last>> /\ Underway(s, L)' /\ Progress(s, L, begun.cell)'
           \/ /\ UNCHANGED <<begun, last>> /\ L + 1 \in 1 .. Leaves(s)
              /\ Underway(s, L + 1)' /\ Progress(s, L + 1, begun.cell)'
           \/ /\ Idle' /\ (\A i \in 1 .. BufferCells : buffer'[i] = 0) /\ last' = s
              /\ VM!InRange(begun.cell, s)
              /\ \A c \in Cells \ s.dead : cell'[c] = VM!Accessed(begun.cell, s)[c]
<1>1. PICK m0 \in [Cells -> Byte] : m0 = begun.cell /\ begun.site = s
  BY DEF Underway
<1>2. UNCHANGED frameReturns
  BY DEF Protocol
<1>3. ASSUME NEW K \in 1 .. Leaves(s), Progress(s, K, m0)', UNCHANGED begun
      PROVE  Progress(s, K, begun.cell)'
  BY <1>1, <1>3 DEF Progress
<1>4. ASSUME Asked(s, L)' \/ Answered(s, L)', UNCHANGED <<buffer, begun>>
      PROVE  Underway(s, L)'
  BY <1>4 DEF Underway, BufferSent
<1>5. Progress(s, L, m0)
  BY <1>1
<1>6. CASE Routed(s, L) /\ RouterBody
  <2>1. Underway(s, L)' /\ UNCHANGED begun
    BY <1>2, <1>4, <1>6, RouterKeeps
  <2>2. Progress(s, L, m0)'
    BY <1>2, <1>5, <1>6, RouterProgress
  <2>3. UNCHANGED last
    BY <1>6 DEF RouterBody
  <2> QED
    BY <1>3, <2>1, <2>2, <2>3
<1>7. CASE Asked(s, L) /\ \E op \in Operations : AccessorBody(op) \/ SelectingAccessorBody(op)
  <2>1. PICK op \in Operations : AccessorBody(op) \/ SelectingAccessorBody(op)
    BY <1>7
  <2>2. Underway(s, L)' /\ UNCHANGED begun
    <3>1. CASE AccessorBody(op)
      BY <1>2, <1>4, <1>7, <3>1, AccessorKeeps
    <3>2. CASE SelectingAccessorBody(op)
      BY <1>2, <1>4, <1>7, <3>2, SelectingKeeps
    <3> QED
      BY <2>1, <3>1, <3>2
  <2>3. Progress(s, L, m0)'
    BY <1>2, <1>5, <1>7, <2>1, AccessorProgress
  <2>4. UNCHANGED last
    <3>1. CASE AccessorBody(op)
      BY <3>1, Zenon DEF AccessorBody
    <3>2. CASE SelectingAccessorBody(op)
      BY <3>2, Zenon DEF SelectingAccessorBody
    <3> QED
      BY <2>1, <3>1, <3>2
  <2> QED
    BY <1>3, <2>2, <2>3, <2>4
<1>8. CASE Answered(s, L) /\ ResumeBody(s, L)
  <2>1. /\ Types' /\ Clean'
        /\ IF L = Leaves(s) THEN Idle' /\ \A i \in 1 .. BufferCells : buffer'[i] = 0
           ELSE Underway(s, L + 1)'
    BY <1>2, <1>8, ResumeKeeps
  <2>0. PICK fields : \E mem \in [Cells -> Byte], buf \in [1 .. BufferCells -> Byte] : Ended(s, L, fields)
    BY <1>8, ResumeEffect
  <2>2. PICK mem \in [Cells -> Byte], buf \in [1 .. BufferCells -> Byte] : Ended(s, L, fields)
    BY <2>0
  <2>3. CASE L = Leaves(s)
    <3>1. last' = s
      BY <1>1, <2>2, <2>3 DEF Ended
    <3>2. VM!InRange(m0, s)
      BY <1>5 DEF Progress
    <3>3. \A c \in Cells \ s.dead : cell'[c] = VM!Accessed(m0, s)[c]
      BY <1>5, <1>8, <2>3, FinalAccess
    <3> QED
      BY <1>1, <2>1, <2>3, <3>1, <3>2, <3>3
  <2>4. CASE L # Leaves(s)
    <3>1. UNCHANGED <<begun, last>>
      BY <2>2, <2>4 DEF Ended
    <3>2. L + 1 \in 1 .. Leaves(s)
      BY <2>4, SiteFacts
    <3>3. Progress(s, L + 1, m0)'
      BY <1>2, <1>5, <1>8, <2>4, ResumeProgress
    <3> QED
      BY <1>3, <2>1, <2>4, <3>1, <3>2, <3>3
  <2> QED
    BY <2>3, <2>4
<1>9. \/ Routed(s, L) /\ RouterBody
      \/ Asked(s, L) /\ \E op \in Operations : AccessorBody(op) \/ SelectingAccessorBody(op)
      \/ Answered(s, L) /\ ResumeBody(s, L)
  BY WhoRuns
<1> QED
  BY <1>6, <1>7, <1>8, <1>9

-----------------------------------------------------------------------------
(* The abstract variables while an access is under way, and between two.   *)
LEMMA AbstractCells ==
    /\ Idle => Atomic!vars = <<cell, last>>
    /\ Idle' => (Atomic!vars)' = <<cell, last>>'
    /\ \A s \in Sites : \A L : Underway(s, L) => Busy
    /\ Busy => Atomic!vars = <<begun.cell, last>>
    /\ Busy' => (Atomic!vars)' = <<begun.cell, last>>'
<1>1. \A s \in Sites : \A L : Underway(s, L) => Busy
  BY PortalAssumption DEF Underway, Busy, Byte
<1> QED
  BY <1>1 DEF Atomic!vars, Idle, Busy

(* What an access does is independent of where the abstraction keeps its   *)
(* cells.                                                                  *)
LEMMA SameAccess ==
    ASSUME NEW m, NEW s
    PROVE  Atomic!InRange(m, s) = VM!InRange(m, s) /\ Atomic!Accessed(m, s) = VM!Accessed(m, s)
BY Zenon DEF Atomic!InRange, Atomic!Accessed, Atomic!Advanced, Atomic!Written, Atomic!Selected,
   Atomic!Values, Atomic!Offset, Atomic!IsWord, Atomic!Leaves,
   VM!InRange, VM!Accessed, VM!Advanced, VM!Written, VM!Selected, VM!Values, VM!Offset,
   VM!IsWord, VM!Leaves

(* The program starts an access: nothing has happened yet. *)
LEMMA BeginMaps ==
    ASSUME Types, Clean, Idle, \A i \in 1 .. BufferCells : buffer[i] = 0,
           NEW s \in Sites, Emitted(s), Begin(s), UNCHANGED frameReturns
    PROVE  DInv' /\ UNCHANGED Atomic!vars
<1>1. Types' /\ Clean' /\ Underway(s, 1)'
  BY BeginKeeps
<1>2. Progress(s, 1, begun.cell)'
  BY BeginProgress
<1>3. 1 \in 1 .. Leaves(s)
  BY SiteFacts
<1>4. begun' = [site |-> s, cell |-> cell] /\ UNCHANGED last
  BY Zenon DEF Begin
<1>5. Busy'
  BY <1>1, PortalAssumption DEF Underway, Busy, Byte
<1>6. DInv'
  BY <1>1, <1>2, <1>3 DEF DInv, Data
<1> QED
  BY <1>4, <1>5, <1>6, AbstractCells

(* The program writes a cell. *)
LEMMA UserCodeMaps ==
    ASSUME Types, Clean, Idle, buffer = [i \in 1 .. BufferCells |-> 0],
           UserCode, UNCHANGED frameReturns
    PROVE  DInv' /\ Atomic!Next
<1>1. Types' /\ Clean' /\ Idle' /\ UNCHANGED buffer
  BY UserCodeKeeps
<1>2. DInv'
  BY <1>1 DEF DInv, Data
<1>3. ~Busy /\ ~Busy'
  BY <1>1 DEF Idle, Busy
<1>4. Atomic!Write
  BY <1>3 DEF UserCode, Atomic!Write
<1> QED
  BY <1>2, <1>4 DEF Atomic!Next

(* The protocol takes a step: only the last one is seen. *)
LEMMA ProtocolMaps ==
    ASSUME Types, Clean, NEW s \in Sites, Emitted(s), NEW L \in 1 .. Leaves(s), Underway(s, L),
           Progress(s, L, begun.cell), Protocol
    PROVE  DInv' /\ [Atomic!Next]_(Atomic!vars)
<1>1. Types' /\ Clean'
  BY ProtocolKeeps
<1>2. Busy
  BY AbstractCells
<1>3. CASE UNCHANGED <<begun, last>> /\ Underway(s, L)' /\ Progress(s, L, begun.cell)'
  <2>1. DInv'
    BY <1>1, <1>3 DEF DInv, Data
  <2>2. Busy'
    BY <1>2, <1>3 DEF Busy
  <2> QED
    BY <1>2, <1>3, <2>1, <2>2, AbstractCells
<1>4. CASE /\ UNCHANGED <<begun, last>> /\ L + 1 \in 1 .. Leaves(s)
           /\ Underway(s, L + 1)' /\ Progress(s, L + 1, begun.cell)'
  <2>1. PICK K \in 1 .. Leaves(s) : K = L + 1
    BY <1>4
  <2>2. Underway(s, K)' /\ Progress(s, K, begun.cell)'
    BY <1>4, <2>1
  <2>3. DInv'
    BY <1>1, <2>2 DEF DInv, Data
  <2>4. Busy'
    BY <1>2, <1>4 DEF Busy
  <2> QED
    BY <1>2, <1>4, <2>3, <2>4, AbstractCells
<1>5. CASE /\ Idle' /\ (\A i \in 1 .. BufferCells : buffer'[i] = 0) /\ last' = s
           /\ VM!InRange(begun.cell, s)
           /\ \A c \in Cells \ s.dead : cell'[c] = VM!Accessed(begun.cell, s)[c]
  <2>1. buffer' \in [1 .. BufferCells -> Byte] /\ cell' \in [Cells -> Byte]
    BY <1>1 DEF Types
  <2>2. buffer' = [i \in 1 .. BufferCells |-> 0]
    BY <1>5, <2>1
  <2>3. DInv'
    BY <1>1, <1>5, <2>2 DEF DInv, Data
  <2>4. PICK garbage : garbage = [c \in s.dead |-> cell'[c]]
    OBVIOUS
  <2>5. s.dead \subseteq Cells
    BY SiteFacts, PortalAssumption
  <2>6. garbage \in [s.dead -> 0 .. CellBase - 1]
    BY <2>1, <2>4, <2>5 DEF Byte
  <2>7. cell' = [c \in Cells |-> IF c \in s.dead THEN garbage[c] ELSE VM!Accessed(begun.cell, s)[c]]
    BY <1>5, <2>1, <2>4, <2>5
  <2>8. ~Busy'
    BY <1>5 DEF Idle, Busy
  <2>9. Atomic!Access
    <3>1. PICK m0 : m0 = begun.cell
      OBVIOUS
    <3>2. /\ Atomic!InRange(m0, s)
          /\ cell' = [c \in Cells |-> IF c \in s.dead THEN garbage[c] ELSE Atomic!Accessed(m0, s)[c]]
      BY <1>5, <2>7, <3>1, SameAccess
    <3> QED
      BY <1>2, <1>5, <2>6, <2>8, <3>1, <3>2 DEF Atomic!Access
  <2> QED
    BY <2>3, <2>9 DEF Atomic!Next
<1> QED
  BY <1>1, <1>3, <1>4, <1>5, ProtocolProgress

-----------------------------------------------------------------------------
LEMMA NextMaps ==
    ASSUME SitesEmitted, DInv, [Next]_vars
    PROVE  DInv' /\ [Atomic!Next]_(Atomic!vars)
<1>1. Types /\ Clean
  BY DEF DInv
<1>2. CASE Idle /\ buffer = [i \in 1 .. BufferCells |-> 0]
  <2>1. \A i \in 1 .. BufferCells : buffer[i] = 0
    BY <1>2
  <2>2. CASE Program
    <3>1. UNCHANGED frameReturns
      BY <2>2 DEF Program
    <3>2. CASE UserCode
      BY <1>1, <1>2, <3>1, <3>2, UserCodeMaps
    <3>3. CASE \E s \in Sites : Begin(s)
      BY <1>1, <1>2, <2>1, <3>1, <3>3, BeginMaps DEF SitesEmitted
    <3> QED
      BY <2>2, <3>2, <3>3 DEF Program
  <2>3. CASE UNCHANGED vars
    <3>1. DInv'
      BY <1>1, <1>2, <2>3 DEF DInv, Data, Types, Clean, Idle, vars
    <3>2. Idle' /\ UNCHANGED <<cell, last>>
      BY <1>2, <2>3 DEF Idle, vars
    <3> QED
      BY <1>2, <3>1, <3>2, AbstractCells
  <2> QED
    BY <1>2, <2>2, <2>3, IdleRuns DEF Next
<1>3. CASE \E s \in Sites : \E L \in 1 .. Leaves(s) : Underway(s, L) /\ Progress(s, L, begun.cell)
  <2>0. PICK s \in Sites : \E L \in 1 .. Leaves(s) : Underway(s, L) /\ Progress(s, L, begun.cell)
    BY <1>3
  <2>1. PICK L \in 1 .. Leaves(s) : Underway(s, L) /\ Progress(s, L, begun.cell)
    BY <2>0
  <2>2. CASE Protocol
    BY <1>1, <2>1, <2>2, ProtocolMaps DEF SitesEmitted
  <2>3. CASE UNCHANGED vars
    <3>1. Types' /\ Clean' /\ Underway(s, L)'
      BY <1>1, <2>1, <2>3 DEF Types, Clean, Underway, Routed, Asked, Answered, BufferSent, Here, vars
    <3>2. Progress(s, L, begun.cell)'
      BY <2>1, <2>3 DEF Progress, Routed, Asked, Answered, Here, vars
    <3>3. Busy /\ UNCHANGED <<begun, last>>
      BY <2>1, <2>3, AbstractCells DEF vars
    <3>4. Busy'
      BY <3>3 DEF Busy
    <3>5. DInv'
      BY <3>1, <3>2 DEF DInv, Data
    <3> QED
      BY <3>3, <3>4, <3>5, AbstractCells
  <2> QED
    BY <2>1, <2>2, <2>3, UnderwayWaits DEF Next
<1> QED
  BY <1>2, <1>3 DEF DInv, Data

LEMMA InitMaps == Init => DInv /\ Atomic!Init
<1> SUFFICES ASSUME Init PROVE DInv /\ Atomic!Init
  OBVIOUS
<1>1. Types /\ Clean /\ Idle
  BY InitIInv DEF IInv, Init, Idle
<1>2. DInv
  BY <1>1 DEF DInv, Data, Init
<1>3. ~Busy
  BY DEF Init, Busy
<1> QED
  BY <1>2, <1>3 DEF Init, Atomic!Init

(* Whatever the program, its regions and its sites: where the sites are    *)
(* such as the front ends emit, an access that travels leaf by leaf        *)
(* through a portal does to the program's cells what the terminator does   *)
(* in the continuation VM in one step, and nothing is visible in between.  *)
THEOREM PortalsImplementAccess == SitesEmitted => (Spec => ImplementsAtomicAccess)
<1> DEFINE Inv == SitesEmitted /\ DInv
<1>1. SitesEmitted /\ Init => Inv /\ Atomic!Init
  BY InitMaps
<1>2. Inv /\ [Next]_vars => Inv' /\ [Atomic!Next]_(Atomic!vars)
  <2> SUFFICES ASSUME Inv, [Next]_vars PROVE Inv' /\ [Atomic!Next]_(Atomic!vars)
    OBVIOUS
  <2>1. SitesEmitted' = SitesEmitted
    OBVIOUS
  <2> QED
    BY <2>1, NextMaps
<1> HIDE DEF Inv
<1> QED
  BY <1>1, <1>2, PTL DEF Spec, ImplementsAtomicAccess, Atomic!Spec
=============================================================================
