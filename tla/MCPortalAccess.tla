--------------------------- MODULE MCPortalAccess ---------------------------
(***************************************************************************)
(* A frame with two offset cells, two scalars and an array of three cells, *)
(* and two global arrays; CellBase = 2, so an offset carries into its high *)
(* half within the array.  Sites: every kind of access the front ends      *)
(* emit, with offset cells that die, serve as value or lie in the payload. *)
(* OverlapSites is accepted by ContinuationProgram::new but not emitted by  *)
(* the front ends.                                                         *)
(***************************************************************************)
EXTENDS PortalAccess

CONSTANTS lo, hi, x, y, abi, e1, e2, e3, g1, g2, h1, arr, garr, harr

MCCells   == {lo, hi, x, y, abi, e1, e2, e3, g1, g2, h1}
MCPayload == [r \in {arr, garr, harr} |->
                CASE r = arr -> <<e1, e2, e3>> [] r = garr -> <<g1, g2>> [] r = harr -> <<h1>>]

Site(kind, region, low, high, operand, dead) ==
    [kind |-> kind, region |-> region, low |-> low, high |-> high, operand |-> operand, dead |-> dead]

Load(region, low, high, operand, dead)  == Site("load", region, low, high, operand, dead \cup {abi})
Store(region, low, high, operand, dead) == Site("store", region, low, high, operand, dead)

MCSites == {
    Load(arr, x, None, <<y>>, {}),
    Load(arr, x, None, <<x>>, {}),
    Load(arr, e1, None, <<e2>>, {}),
    Store(arr, e1, None, <<x>>, {x}),
    Store(arr, x, None, <<x>>, {x}),
    Load(arr, lo, hi, <<x, y>>, {lo, hi}),
    Store(arr, lo, hi, <<x, y>>, {lo, hi}),
    Store(arr, lo, hi, <<e2, e3>>, {}),
    Load(garr, lo, hi, <<x, y>>, {}),
    Store(garr, lo, hi, <<y, x>>, {lo, hi}),
    Load(garr, e1, None, <<y>>, {e1}),
    Store(harr, lo, hi, <<lo>>, {lo}) ,
    Load(harr, lo, hi, <<e1>>, {lo, hi}) }

(* The payload that is read holds the offset itself. *)
OverlapSites == {Load(arr, e2, e3, <<x, y>>, {})}

ASSUME SitesAsDescribed ==
    /\ \A s \in MCSites : Emitted(s)
    /\ \A s \in OverlapSites : ~Emitted(s)
=============================================================================
