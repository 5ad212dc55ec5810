----------------------------- MODULE MCNonceSlots -----------------------------
(* Instances of NonceSlots: what a coordinator may claim of each stream.     *)
EXTENDS NonceSlots

CONSTANTS s1, s2, sA, sB, sC

MCStreams == {sA, sB, sC}
MCSessions == {s1, s2}
\* Every stream is opened from its start, one also from further on; that one is
\* also signed with from further on.
MCOpenStates == [stream : MCStreams, index : {0}, remaining : {0}]
                  \cup [stream : {sA}, index : {2}, remaining : {0}]
MCSignStates == [stream : {sA}, index : 0..2, remaining : {1}]
                  \cup [stream : {sB}, index : {0}, remaining : {1}]
MCItems == [s \in MCSessions |-> IF s = s1 THEN 1 ELSE 2]
===============================================================================
