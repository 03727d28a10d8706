-------------------------- MODULE PayloadResolver --------------------------
(***************************************************************************)
(* What the accessor of an aggregate portal promises (one iteration of     *)
(* read_region_cell or write_region_cell of the continuation VM): the      *)
(* payload cell at the requested offset is copied to Value, or receives    *)
(* it, in one step, and no other cell changes.                             *)
(***************************************************************************)
EXTENDS Integers

CONSTANTS Offsets, Bytes, None

VARIABLES
    payload,   \* offset -> byte
    value,     \* the Value cell of the portal
    asked      \* the request being served, or None

vars == <<payload, value, asked>>

Init ==
    /\ payload = [o \in Offsets |-> 0]
    /\ value = 0
    /\ asked = None

Request ==
    /\ asked = None
    /\ \E o \in Offsets :
         \/ asked' = [op |-> "load", offset |-> o] /\ value' = 0
         \/ asked' = [op |-> "store", offset |-> o] /\ value' \in Bytes
    /\ UNCHANGED payload

Resolve ==
    /\ asked # None
    /\ \/ /\ asked.op = "load"
          /\ value' = payload[asked.offset]
          /\ UNCHANGED payload
       \/ /\ asked.op = "store"
          /\ payload' = [payload EXCEPT ![asked.offset] = value]
          /\ value' = 0
    /\ asked' = None

Next == Request \/ Resolve

Spec == Init /\ [][Next]_vars
=============================================================================
