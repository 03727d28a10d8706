----------------------------- MODULE MCAbiStack -----------------------------
(***************************************************************************)
(* A main function and two callees: aggFn takes two arguments and returns  *)
(* an aggregate of one cell, cellFn takes a cell and returns a cell; every *)
(* function may call both.  The frame of cellFn is longer, so contexts     *)
(* fall on both phases of the anchor bank.  Both parameters of aggFn are   *)
(* the same cell, as an Array parameter and an AggregateElement inside it  *)
(* are: the later argument wins.                                           *)
(***************************************************************************)
EXTENDS AbiStack

CONSTANTS mainFn, aggFn, cellFn, glob

MCFunctions == {mainFn, aggFn, cellFn}
MCConts     == {1, 2, 3, 4}
MCOwner     == <<mainFn, aggFn, aggFn, cellFn>>
MCEntry     == [h \in MCFunctions |-> CASE h = mainFn -> 1 [] h = aggFn -> 2 [] h = cellFn -> 4]
MCLanes     == 0 .. 5
MCBodyChunks == [h \in MCFunctions |-> IF h = cellFn THEN 2 ELSE 1]
MCStorage   == [h \in MCFunctions |-> IF h = cellFn THEN {<<2, 1>>} ELSE {<<1, 0>>, <<1, 1>>}]
MCParams    == [h \in MCFunctions |->
                  CASE h = mainFn -> <<>> [] h = aggFn -> <<<<1, 1>>, <<1, 1>>>>
                    [] h = cellFn -> <<<<2, 1>>>>]
MCResult    == [h \in MCFunctions |->
                  CASE h = mainFn -> "void" [] h = aggFn -> "aggregate" [] h = cellFn -> "cell"]
MCResultCells == [h \in MCFunctions |-> IF h = aggFn THEN 1 ELSE 0]
MCOutboxCells == [h \in MCFunctions |-> IF h = cellFn THEN 0 ELSE 1]
MCOutbox    == << <<1, 0>> >>
MCGlobals   == {glob}
=============================================================================
