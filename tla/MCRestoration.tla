----------------------------- MODULE MCRestoration -----------------------------
(* Instances of Restoration: device a holds the one recorded share of K, b a  *)
(* share of L and the paper backup of another share of K.                    *)
EXTENDS Restoration, TLC

CONSTANTS a, b, K, L, x

Share(k, i) == [key |-> k, index |-> i]
OtherKeyB == a :> Share(K, 1) @@ b :> Share(L, 1)
OnlyK == {K}
Missing == a :> {} @@ b :> {Share(K, 2)}
===============================================================================
