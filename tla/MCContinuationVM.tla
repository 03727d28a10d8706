-------------------------- MODULE MCContinuationVM --------------------------
(***************************************************************************)
(* Main, a function f with every kind of parameter and result, and a       *)
(* function g.  Sizes up to 2; declarations the validator rejects are      *)
(* among the candidates.                                                   *)
(***************************************************************************)
EXTENDS ContinuationVM, TLC

CONSTANTS main, f, g, m1, m2, f1, g1, c, v, a, b

MCFunctionIds == {main, f, g}
MCContinuationIds == {m1, m2, f1, g1, "unknown"}
MCGlobalIds == {c, v}
MCAggregateIds == {a, b}

Function(entry, slots, cells, parameters, outbox, returns) ==
    [entry |-> entry, slots |-> slots, cells |-> cells, parameters |-> parameters,
     outbox |-> outbox, returns |-> returns]

Whole(kind, id)    == [kind |-> kind, id |-> id]
Element(id, index) == [kind |-> "element", id |-> id, index |-> index]
Slot(slot)         == [kind |-> "cell", slot |-> slot]

ParameterLists == {
    <<>>, <<Slot(0)>>, <<Slot(1)>>, <<Whole("array", a)>>, <<Whole("aggregate", b)>>,
    <<Whole("array", a), Element(a, 1)>>, <<Element(a, 2)>>, <<Whole("array", a), Whole("aggregate", a)>> }

Returned == {Void, Cell, [kind |-> "array", cells |-> 2], [kind |-> "aggregate", cells |-> 1]}

MCPrograms ==
    {[main      |-> main,
      functions |-> main :> Function(m1, 1, a :> 2, <<>>, outbox, Void)
                    @@ f :> Function(f1, 1, a :> 2 @@ b :> 1, parameters, 0, returns)
                    @@ g :> Function(entry, 0, a :> 1, <<>>, 1, returns),
      globals   |-> c :> Cell @@ v :> [kind |-> "array", cells |-> 2],
      owner     |-> m1 :> main @@ m2 :> main @@ f1 :> f @@ g1 :> g] :
     outbox \in {1, 2}, parameters \in ParameterLists, returns \in Returned, entry \in {g1, m1}}

MCArgumentLists ==
    {<<>>} \cup {<<o>> : o \in Operands}
    \cup {<<[kind |-> "array", region |-> r], [kind |-> "cell", address |-> [kind |-> "abi"]]>> :
            r \in Regions}
=============================================================================
