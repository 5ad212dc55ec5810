------------------------------ MODULE MCKeygen ------------------------------
(* Instances of Keygen.                                                      *)
EXTENDS Keygen, TLC

CONSTANTS a, b, c, k1, k2

Overlapping == [k \in Keygens |-> IF k = k1 THEN Devices ELSE {a}]
Everyone == [k \in Keygens |-> Devices]
===============================================================================
