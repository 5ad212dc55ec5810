------------------------------ MODULE AbRegister ------------------------------
(* The abstract A/B slot: a write is one step whose result is one of those   *)
(* AbFormat!WriteResults lists.  Components that keep state in an AbSlot are *)
(* modelled over this view; AbSlot implements it.                            *)
EXTENDS AbFormat

CONSTANT Values

VARIABLES slots, outcome

Init == slots = Blank /\ outcome = "none"

Write(v) == \E r \in WriteResults(slots, v) :
              slots' = r.slots /\ outcome' = r.outcome

Next == \E v \in Values : Write(v)

Spec == Init /\ [][Next]_<<slots, outcome>>
===============================================================================
