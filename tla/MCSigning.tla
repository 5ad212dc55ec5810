------------------------------ MODULE MCSigning ------------------------------
(* Instances of Signing: which devices a session selects and how much of     *)
(* their nonces it needs.                                                    *)
EXTENDS Signing, TLC

CONSTANTS a, b, s1, s2, s3

MCSeeds == Nat
BothSessions == [s \in Sessions |-> Devices]
OneEach == [s \in Sessions |-> 1]
OneAndTwo == s1 :> 1 @@ s2 :> 2
===============================================================================
