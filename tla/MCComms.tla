------------------------------ MODULE MCComms ------------------------------
EXTENDS Comms

FramesDef == {"magic", "held", "long", "legacy", "good", "wrong", "odd", "lies", "enter"}
LengthDef == [f \in FramesDef |-> CASE f = "magic" -> 3 [] f = "long" -> 5 [] OTHER -> 2]
PartsDef == [held |-> <<1, 5, 1>>, long |-> <<1>>]
OffersDef == [good |-> [size |-> 6, digest |-> "A", sends |-> "A"],
              wrong |-> [size |-> 6, digest |-> "A", sends |-> "B"],
              odd |-> [size |-> 5, digest |-> "A", sends |-> "A"],
              lies |-> [size |-> 4, digest |-> "A", sends |-> "A"],
              legacy |-> [size |-> 6, digest |-> "A", sends |-> "A"]]
DeclaredDef == [A |-> 6, B |-> 6]
=============================================================================
