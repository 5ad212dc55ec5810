------------------------------- MODULE MCAbSlot -------------------------------
(* Three values and indexes up to 4: enough for a first write, a rewrite that  *)
(* follows every kind of interruption, and the refusal when indexes run out. *)
EXTENDS AbSlot

CONSTANTS v1, v2, v3

MCValues == {v1, v2, v3}
===============================================================================
