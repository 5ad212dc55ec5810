------------------------------- MODULE AbFormat -------------------------------
(* What an A/B pair of flash slots holds and how it is read back.            *)
(*                                                                           *)
(* A slot is one erase unit.  It starts with a u32 index, programmed by the  *)
(* first doubleword, followed by the encoded value.  An erased slot reads as *)
(* the all-ones index.  A body that is not completely programmed does not    *)
(* decode (or, for a checksummed record, does not verify): it is None.       *)
EXTENDS Integers

CONSTANTS EmptyIndex,   \* u32::MAX, the erased index; never handed out
          None          \* "nothing readable": Option::None

ASSUME EmptyIndexAssumption == EmptyIndex \in Nat \ {0}

Copies == {0, 1}

Erased == [index |-> EmptyIndex, body |-> None]

Blank == [c \in Copies |-> Erased]

\* Slot contents over a set of values, the shape every client's flash has.
SlotOver(Values) == [index : 0..EmptyIndex, body : Values \cup {None}]

\* Slot::read_index: None ranks below every Some.
ReadIndex(slot) == IF slot.index = EmptyIndex THEN -1 ELSE slot.index

\* Slot::read: None for an erased slot or an undecodable body.
SlotRead(slot) == IF slot.index = EmptyIndex THEN None ELSE slot.body

\* current_slot_and_index: the newest index wins and a tie goes to copy 0.
Current(slots) == IF ReadIndex(slots[1]) > ReadIndex(slots[0]) THEN 1 ELSE 0

CurrentIndex(slots) == ReadIndex(slots[Current(slots)])

\* AbSlot::read looks at the current slot only: there is no fallback.
AbRead(slots) == SlotRead(slots[Current(slots)])

\* Mutant: the newest copy is programmed first.
NewestFirst(slots)   == Current(slots)

\* The copy and index the next try_write programs first.
FirstCopy(slots)  == IF CurrentIndex(slots) = -1 THEN 0 ELSE 1 - Current(slots)
NextIndex(slots)  == CurrentIndex(slots) + 1
Exhausted(slots)  == NextIndex(slots) = EmptyIndex

Whole(i, v) == [index |-> i, body |-> v]
Partial(i)  == [index |-> i, body |-> None]

\* What one copy may hold when programming it stops early.
Stopped(slot, i, v) == {slot, Erased, Partial(i), Whole(i, v)}

\* The pairs left when the first, or the second, copy stops early.
FirstStops(slots, v) ==
  LET first == FirstCopy(slots)
  IN {[slots EXCEPT ![first] = s] : s \in Stopped(slots[first], NextIndex(slots), v)}

SecondStops(slots, v) ==
  LET first == FirstCopy(slots)
      w == Whole(NextIndex(slots), v)
  IN {[slots EXCEPT ![first] = w, ![1 - first] = s] :
          s \in Stopped(slots[1 - first], NextIndex(slots), v)}

(* Every result one try_write(v) may have: the pair it leaves and what the   *)
(* caller learns.  "crash" stands for a power cut anywhere inside the call.  *)
WriteResults(slots, v) ==
  IF Exhausted(slots)
  THEN {[slots |-> slots, outcome |-> "not_committed"]}
  ELSE [slots : FirstStops(slots, v), outcome : {"not_committed", "crash"}]
       \cup [slots : SecondStops(slots, v), outcome : {"single_copy", "crash"}]
       \cup {[slots |-> [c \in Copies |-> Whole(NextIndex(slots), v)],
              outcome |-> "committed"]}
===============================================================================
