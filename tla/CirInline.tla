------------------------------ MODULE CirInline ------------------------------
(***************************************************************************)
(* Calls replaced by the continuations of their callee, before frames are  *)
(* laid out (cir/inline/mod.rs), the wrappers whose calls may be forwarded *)
(* (cir/inline/forwarding.rs), and the instructions at the entry of a      *)
(* function that move to its callers (cir/inline/prefix.rs).               *)
(*                                                                         *)
(* A graph is [program, results, owners, used]: where each call delivers,  *)
(* where each function keeps what its own calls deliver, and the           *)
(* identifiers that were ever in use.                                      *)
(***************************************************************************)
EXTENDS CirLiveness

Storage(scalar, region) == [scalar |-> scalar, region |-> region]
StorageAt(s, name) ==
    Storage(IF s.scalar = None THEN None ELSE At(s.scalar, name),
            IF s.region = None THEN None ELSE RegionAt(s.region, name))
Returned(p, f) == p.functions[f].returns.cells

(* Ids::fresh: n of them, in order. *)
Fresh(used, n) == SubSeq(Ascending((1 .. Max(used \cup {0}) + n) \ used), 1, n)

(* copy_value. *)
CopyValue(src, dst, n) ==
    IF src.kind = "aggregate" /\ src.offset = 0 /\ n > 0
    THEN <<CopyCells(src.region, dst.region, n)>>
    ELSE [k \in 1 .. n |-> Copy(Address(src, k - 1), Address(dst, k - 1))]

(* normalize: what a function observes of its results gets storage of its  *)
(* own.                                                                    *)
OwnStorage(p, f) ==
    LET d == p.functions[f]
        End(t) == LET e == EndEffects(p, f, t) IN e.reads \cup e.writes \cup e.may
        named == UNION {Touched(p.nodes[c].body) \cup End(p.nodes[c].end) : c \in NodesOf(p, f)}
    IN  Storage(IF Abi \in named THEN Slot(d.slots) ELSE None,
                IF \E a \in named : RegionOf(a) = Outbox THEN FrameRegion(Cardinality(DOMAIN d.cells)) ELSE None)

NormalizedFunction(p, f) ==
    LET d == p.functions[f]
        own == OwnStorage(p, f)
        scalar == IF own.scalar = None THEN Nothing ELSE Abi :> own.scalar
        region == IF own.region = None THEN Nothing
                  ELSE [a \in RegionCells(Outbox, d.outbox) |-> Element(own.region, a[3])]
    IN  Renamed(p, f, [d EXCEPT !.slots = @ + (IF own.scalar = None THEN 0 ELSE 1),
                                !.cells = IF own.region = None THEN @ ELSE @ @@ (own.region[2] :> d.outbox)],
                scalar @@ region)

Normalized(p) ==
    LET owners == [f \in DOMAIN p.functions |-> OwnStorage(p, f)]
        sites == {c \in DOMAIN p.nodes : p.nodes[c].end.op = "call"}
    IN  [program |-> FoldSet(LAMBDA f, q : NormalizedFunction(q, f), p, DOMAIN p.functions),
         results |-> [c \in sites |-> owners[p.nodes[c].function]],
         owners |-> owners,
         used |-> DOMAIN p.nodes]

-----------------------------------------------------------------------------
(* forwards_result: what follows a call does nothing but return its        *)
(* result.  Values are "result", "zero" and "unknown".  (Mutant: what an   *)
(* addition leaves of the result is taken for it.)                         *)
ValueIn(values, a) == IF a \in DOMAIN values THEN values[a] ELSE "unknown"
Bound(values, a, v) == (a :> v) @@ values

AfterAdd_Kept(values, i) == values
AfterAdd(values, i) == IF i.value = 0 THEN values ELSE Bound(values, i.dst, "unknown")

ValuesAfter(values, i) ==
    LET Moved(vs, t) ==
            LET input == ValueIn(values, i.src)  before == ValueIn(vs, t.dst) IN
            Bound(vs, t.dst, CASE t.factor = 0 \/ input = "zero" -> before
                               [] t.factor = 1 /\ input # "zero" /\ before = "zero" -> input
                               [] OTHER -> "unknown")
    IN  CASE values = None \/ i.op \notin {"set", "copy", "add", "transfer"} -> None
          [] ~\A a \in Effects(i).reads \cup Effects(i).writes : Local(a) -> None
          [] i.op = "set"  -> Bound(values, i.dst, IF i.value = 0 THEN "zero" ELSE "unknown")
          [] i.op = "copy" -> Bound(values, i.dst, ValueIn(values, i.src))
          [] i.op = "add"  -> AfterAdd(values, i)
          [] OTHER -> Bound(FoldLeft(Moved, values, i.targets), i.src, "zero")

RECURSIVE Forwards(_, _, _, _, _)
Forwards(p, c, values, visited, kind) ==
    LET after == FoldLeft(ValuesAfter, values, p.nodes[c].body)
        t == p.nodes[c].end
    IN  IF c \in visited \/ after = None THEN FALSE
        ELSE CASE t.op = "goto" -> Forwards(p, t.to, after, visited \cup {c}, kind)
               [] t.op = "return" /\ t.value = None -> kind = "void"
               [] t.op = "return" /\ t.value # None ->
                      kind = "cell" /\ t.value.kind = "cell" /\ ValueIn(after, Address(t.value, 0)) = "result"
               [] OTHER -> FALSE

ForwardsResult(g, c) ==
    LET p == g.program
        kind == p.functions[p.nodes[c].function].returns.kind
        scalar == g.results[c].scalar
    IN  /\ kind \in {"cell", "void"}
        /\ p.functions[p.nodes[c].end.callee].returns.kind = kind
        /\ Forwards(p, p.nodes[c].end.to, IF scalar = None THEN Nothing ELSE scalar :> "result", {}, kind)

ForwardsCalls(g, f) ==
    LET p == g.program IN
    /\ Sites(p, f) # {}
    /\ \A c \in NodesOf(p, f) : Hard(p.nodes[c].end) => p.nodes[c].end.op = "call" /\ ForwardsResult(g, c)

-----------------------------------------------------------------------------
(* Parameters that are never written stand for the caller's slot.          *)
(* (Mutants: any parameter does; a global may stand for it.)               *)
Written(p, f) ==
    UNION {WrittenIn(p.nodes[c].body) \cup EndEffects(p, f, p.nodes[c].end).writes : c \in NodesOf(p, f)}
Shared_Written(d, written, t, k) ==
    /\ d.parameters[k].kind = "cell" /\ d.parameters[k].cell[1] = "slot"
    /\ t.arguments[k].kind = "cell" /\ t.arguments[k].region[1] = "slot"
Shared_Global(d, written, t, k) ==
    /\ d.parameters[k].kind = "cell" /\ d.parameters[k].cell[1] = "slot"
    /\ t.arguments[k].kind = "cell" /\ t.arguments[k].region[1] \in {"slot", "global"}
    /\ d.parameters[k].cell \notin written
Shared(d, written, t, k) ==
    /\ d.parameters[k].kind = "cell" /\ d.parameters[k].cell[1] = "slot"
    /\ t.arguments[k].kind = "cell" /\ t.arguments[k].region[1] = "slot"
    /\ d.parameters[k].cell \notin written

Aliases(p, t) ==
    LET d == p.functions[t.callee]
        written == Written(p, t.callee)
        shared == {k \in DOMAIN t.arguments : Shared(d, written, t, k)}
    IN  [a \in {d.parameters[k].cell : k \in shared} |->
            Address(t.arguments[Max({k \in shared : d.parameters[k].cell = a})], 0)]

(* The callee's storage in the caller's frame. *)
Embedded(d, e, aliases) ==
    LET base == Cardinality(DOMAIN e.cells) IN
    [a \in Frame(d) |->
        CASE a \in DOMAIN aliases -> aliases[a]
          [] a \notin DOMAIN aliases /\ a[1] = "slot" -> Slot(e.slots + a[3])
          [] OTHER -> <<"frame", base + a[2], a[3]>>]
Extended(e, d) ==
    LET base == Cardinality(DOMAIN e.cells) IN
    [e EXCEPT !.slots = @ + d.slots, !.cells = @ @@ [id \in {base + k : k \in DOMAIN d.cells} |-> d.cells[id - base]]]

(* An activation begins with zeros, each time it is entered.  (Mutant: the *)
(* cells of the pass before.)                                              *)
Zeroed_Once(cells) == <<>>
Zeroed(cells) == LET order == CellsInOrder(cells) IN [k \in DOMAIN order |-> Set(order[k], 0)]

ParameterOperand(d, q) == IF q.kind = "cell" THEN CellOperand(q.cell) ELSE Part(FrameRegion(q.id), 0, d.cells[q.id])

Entering(d, t, aliases, name) ==
    LET kept == Frame(d) \ DOMAIN aliases
        Given(k) ==
            LET q == ParameterOperand(d, d.parameters[k]) IN
            IF q.kind = "cell" /\ Address(q, 0) \in DOMAIN aliases THEN <<>>
            ELSE CopyValue(t.arguments[k], OperandAt(q, name), q.cells)
    IN  Zeroed({name[a] : a \in kept}) \o FlattenSeq([k \in DOMAIN t.arguments |-> Given(k)])

(* What a return leaves for the caller. *)
Delivered(value, into, n) ==
    (IF into.scalar = None THEN <<>>
     ELSE IF value # None /\ value.kind = "cell" THEN <<Copy(Address(value, 0), into.scalar)>>
     ELSE <<Set(into.scalar, 0)>>) \o
    (IF value = None \/ into.region = None THEN <<>>
     ELSE IF value.kind = "cell" THEN <<>> ELSE CopyValue(value, Part(into.region, 0, n), n))

(* splice and splice_forwarding: the site enters the callee, its clones    *)
(* return to where the call would.                                         *)
Clone(p, g, c, t, name, to, site, passes) ==
    LET end == Redirected(RenamedEnd(p.nodes[c].end, name), to)
        body == RenamedBody(p.nodes[c].body, name)
        caller == p.nodes[site].function
    IN  CASE end.op = "return" ->
               Node(caller, body \o Delivered(end.value, g.results[site], Returned(p, t.callee)), Goto(t.to))
          [] c \in passes -> Node(caller, body, [end EXCEPT !.to = t.to])
          [] OTHER -> Node(caller, body, end)

SplicedAt(g, site, call, d, aliases, name, to, passes) ==
    LET p == g.program
        t == call.end
        From(n) == CHOOSE c \in DOMAIN to : to[c] = n
        Into(c) == IF c \in passes THEN g.results[site] ELSE StorageAt(g.results[c], name)
    IN  [g EXCEPT
            !.program.functions[call.function] = Extended(@, d),
            !.program.nodes =
                (site :> Node(call.function, call.body \o Entering(d, t, aliases, name), Goto(to[d.entry])))
                @@ [n \in Range(to) |-> Clone(p, g, From(n), t, name, to, site, passes)] @@ @,
            !.results = [n \in {to[c] : c \in Sites(p, t.callee)} |-> Into(From(n))]
                            @@ Restrict(@, DOMAIN @ \ {site}),
            !.used = @ \cup Range(to)]

Cloned(old, fresh) == [c \in Range(old) |-> fresh[IndexFirstSubSeq(<<c>>, old)]]

SplicedAs(g, site, call, d, aliases, forward) ==
    LET old == Ascending(NodesOf(g.program, call.end.callee)) IN
    SplicedAt(g, site, call, d, aliases,
              Embedded(d, g.program.functions[call.function], aliases),
              Cloned(old, Fresh(g.used, Len(old))),
              {c \in Sites(g.program, call.end.callee) : forward /\ ForwardsResult(g, c)})

Spliced(g, site, forward) ==
    LET call == g.program.nodes[site] IN
    SplicedAs(g, site, call, g.program.functions[call.end.callee], Aliases(g.program, call.end), forward)

-----------------------------------------------------------------------------
(* reachable: from main only, through calls. *)
RECURSIVE ReachedNodes(_, _)
ReachedNodes(p, cs) ==
    LET next == cs \cup UNION {Successors(p.nodes[c].end) \cup {p.functions[f].entry : f \in Callee(p.nodes[c].end)} : c \in cs}
    IN  IF next = cs THEN cs ELSE ReachedNodes(p, next)
FromMain(p) == ReachedNodes(p, {p.functions[p.main].entry})

(* materialize_reachable: storage that all calls of a function deliver to  *)
(* is the physical inbox again.  (Mutant: the outbox may be shorter than   *)
(* the storage was.)                                                       *)
InboxScalar(g, f, sites) == sites # {} /\ \A c \in sites : g.results[c].scalar = g.owners[f].scalar
Capacity(g, sites) == Max({0} \cup {Returned(g.program, g.program.nodes[c].end.callee) : c \in sites})
InboxRegion_Shorter(g, f, sites) ==
    \A c \in sites : \/ Returned(g.program, g.program.nodes[c].end.callee) = 0
                     \/ g.results[c].region = g.owners[f].region
InboxRegion(g, f, sites) ==
    /\ Capacity(g, sites) >= g.program.functions[f].cells[g.owners[f].region[2]]
    /\ \A c \in sites : \/ Returned(g.program, g.program.nodes[c].end.callee) = 0
                        \/ g.results[c].region = g.owners[f].region

Boxed(g, f) ==
    LET own == g.owners[f]
        d == g.program.functions[f]
        sites == Sites(g.program, f)
        scalar == IF own.scalar # None /\ InboxScalar(g, f, sites) THEN own.scalar :> Abi ELSE Nothing
        region == IF own.region # None /\ InboxRegion(g, f, sites)
                  THEN [a \in RegionCells(own.region, d.cells[own.region[2]]) |-> Element(Outbox, a[3])]
                  ELSE Nothing
        name == scalar @@ region
    IN  [g EXCEPT !.program = Renamed(@, f, d, name),
                  !.results = [c \in DOMAIN @ |-> IF c \in sites THEN StorageAt(@[c], name) ELSE @[c]]]

(* A bridge takes what a call delivers from the inbox. *)
Bridge(g, c) ==
    LET into == g.results[c]
        n == Returned(g.program, g.program.nodes[c].end.callee)
    IN  (IF into.scalar \in {None, Abi} THEN <<>> ELSE <<Copy(Abi, into.scalar)>>) \o
        (IF into.region \in {None, Outbox} \/ n = 0 THEN <<>>
         ELSE CopyValue(Part(Outbox, 0, n), Part(into.region, 0, n), n))

Bridged(g) ==
    LET p == g.program
        sites == Ascending({c \in DOMAIN p.nodes : p.nodes[c].end.op = "call" /\ Bridge(g, c) # <<>>})
        fresh == Fresh(g.used, Len(sites))
        Of(c) == fresh[IndexFirstSubSeq(<<c>>, sites)]
    IN  [p EXCEPT
            !.nodes = [c \in DOMAIN @ \cup Range(fresh) |->
                IF c \in Range(fresh)
                THEN LET site == sites[IndexFirstSubSeq(<<c>>, fresh)]
                     IN  Node(p.nodes[site].function, Bridge(g, site), Goto(p.nodes[site].end.to))
                ELSE IF c \in Range(sites) THEN [@[c] EXCEPT !.end.to = Of(c)] ELSE @[c]],
            !.functions = [f \in DOMAIN @ |-> [@[f] EXCEPT !.outbox = Capacity(g, Sites(p, f))]]]

MaterializedOn(g, cs) ==
    LET p == g.program
        fs == {p.nodes[c].function : c \in cs}
        kept == [g EXCEPT !.program.nodes = Restrict(@, cs), !.program.functions = Restrict(@, fs),
                          !.results = Restrict(@, DOMAIN @ \cap cs)]
    IN  Bridged(FoldSet(LAMBDA f, h : Boxed(h, f), kept, fs))
Materialized(g) == MaterializedOn(g, FromMain(g.program))

(* After a splice: the caller alone is materialized over stubs of the      *)
(* others (materialize_caller), cleaned and normalized again.              *)
Projection(g, f) ==
    LET p == g.program
        stubs == [c \in {p.functions[h].entry : h \in DOMAIN p.functions \ {f}} |-> Node(p.nodes[c].function, <<>>, Abort)]
        own == Restrict(p.nodes, NodesOf(p, f))
    IN  MaterializedOn([g EXCEPT !.program.nodes = own @@ stubs], DOMAIN own \cup DOMAIN stubs)

Merge(g, fresh, f) ==
    LET Kept(c) == c \in DOMAIN g.program.nodes /\ g.program.nodes[c].function # f
        New(c) == c \in DOMAIN fresh.program.nodes /\ fresh.program.nodes[c].function = f
        Both(old, new) == Restrict(new, {c \in DOMAIN new : New(c)}) @@ Restrict(old, {c \in DOMAIN old : Kept(c)})
    IN  [program |-> [g.program EXCEPT !.nodes = Both(@, fresh.program.nodes), !.functions[f] = fresh.program.functions[f]],
         results |-> Both(g.results, fresh.results),
         owners |-> [g.owners EXCEPT ![f] = fresh.owners[f]],
         used |-> g.used \cup fresh.used]
Refreshed(g, f) == Merge(g, Normalized(Cleanup(Projection(g, f))), f)

-----------------------------------------------------------------------------
(* hoist_prefixes: the pure instructions a function begins with run in its *)
(* callers; what is live after them becomes its parameters.  (Mutants: the *)
(* cells keep what an earlier call of the same site left; only the old     *)
(* parameters are handed over.)                                            *)
PureLocal(i) == ~Observable(i) /\ \A a \in Effects(i).writes \cup Effects(i).may : Local(a)
Prefix(body) ==
    LET n == Min({k \in DOMAIN body : ~PureLocal(body[k])} \cup {Len(body) + 1}) - 1 IN SubSeq(body, 1, n)

Handoff_Parameters(d, prefix, live) == AllParameters(d) \cap live
Handoff(d, prefix, live) == {a \in AllParameters(d) \cup WrittenIn(prefix) : Local(a) /\ a \in live}

Rest(p, d) ==
    LET body == p.nodes[d.entry].body IN SubSeq(body, Len(Prefix(body)) + 1, Len(body))
HandedOver(p, d, prefix, exits) == Handoff(d, prefix, LiveBefore(Rest(p, d), exits[d.entry]))

Hoistable(p, f, prefix, handoff, limit) ==
    LET entry == p.functions[f].entry IN
    /\ \E c \in NodesOf(p, f) : Hard(p.nodes[c].end)
    /\ \A c \in NodesOf(p, f) : entry \notin Successors(p.nodes[c].end)
    /\ Len(prefix) \in 2 .. 128
    /\ Cardinality(handoff) <= limit
    /\ \E c \in DOMAIN p.nodes : f \in Callee(p.nodes[c].end)

(* A call of the function: its activation and the prefix are the caller's. *)
HoistedSite(p, c, d, prefix, name, handoff) ==
    LET call == p.nodes[c]
        Given(k) ==
            LET cells == ParameterCells(d, d.parameters[k]) IN
            [n \in DOMAIN cells |-> Copy(Address(call.end.arguments[k], n - 1), name[cells[n]])]
    IN  [p EXCEPT
            !.functions[call.function] = Extended(@, d),
            !.nodes[c] = Node(call.function,
                call.body \o Zeroed(Range(name)) \o FlattenSeq([k \in DOMAIN d.parameters |-> Given(k)])
                    \o RenamedBody(prefix, name),
                [call.end EXCEPT !.arguments = [k \in DOMAIN handoff |-> CellOperand(name[handoff[k]])]])]

HoistedFunction(p, f, d, prefix, handoff) ==
    LET Site(q, c) == HoistedSite(q, c, d, prefix, Embedded(d, q.functions[q.nodes[c].function], Nothing), handoff)
        sites == Ascending({c \in DOMAIN p.nodes : f \in Callee(p.nodes[c].end)})
    IN  [FoldLeft(Site, p, sites) EXCEPT
            !.nodes[d.entry].body = Rest(p, d),
            !.functions[f].parameters = [k \in DOMAIN handoff |-> [kind |-> "cell", cell |-> handoff[k]]]]

HoistedIf(p, f, prefix, handoff, limit) ==
    IF Hoistable(p, f, prefix, handoff, limit)
    THEN HoistedFunction(p, f, p.functions[f], prefix, CellsInOrder(handoff)) ELSE p

HoistedGraph(g, fs, limit) ==
    LET Visit(p, f) ==
            LET d == p.functions[f]  prefix == Prefix(p.nodes[d.entry].body) IN
            HoistedIf(p, f, prefix, HandedOver(p, d, prefix, Exits(p, f)), limit)
    IN  [g EXCEPT !.program = FoldLeft(Visit, @, Ascending(fs))]
HoistedFrom(p, limit) ==
    Cleanup(Materialized(HoistedGraph(Normalized(p), DOMAIN p.functions \ ({p.main} \cup Recursive(p)), limit)))
Hoisted(p, limit) == HoistedFrom(Cleanup(p), limit)
=============================================================================
