------------------------------ MODULE MCConsent ------------------------------
(* Instances of Consent: the kinds of the ceremonies and their pages.        *)
EXTENDS Consent, TLC

CONSTANTS r1, r2, e1, q1, p1

MCKind == r1 :> "reveal" @@ r2 :> "reveal" @@ e1 :> "entry" @@ q1 :> "quiz" @@ p1 :> "plain"
Kinds == [c \in Ceremonies |-> MCKind[c]]
\* Only the prompt of p1 has a second page.
TwoPages == [c \in Ceremonies |-> IF c = p1 THEN 2 ELSE 1]
===============================================================================
