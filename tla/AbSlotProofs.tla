----------------------------- MODULE AbSlotProofs -----------------------------
(* The A/B slot's promises, for every set of values and every index width.   *)
EXTENDS AbSlot, TLAPS

(* Any A/B pair of slots, over any set of values: what NonceSlots and Keygen *)
(* use too.                                                                  *)
PairOver(V) == [Copies -> SlotOver(V)]

(* How current_slot_and_index and the choice of the first copy relate the    *)
(* two indexes of any pair of slots.                                         *)
LEMMA PairFacts ==
  ASSUME NEW V, NEW s \in PairOver(V)
  PROVE  /\ \A c \in Copies : ReadIndex(s[c]) \in -1..(EmptyIndex - 1)
         /\ Current(s) \in Copies
         /\ CurrentIndex(s) \in -1..(EmptyIndex - 1)
         /\ \A c \in Copies : ReadIndex(s[c]) <= CurrentIndex(s)
         /\ FirstCopy(s) \in Copies
         /\ ReadIndex(s[1 - FirstCopy(s)]) = CurrentIndex(s)
         /\ SlotRead(s[1 - FirstCopy(s)]) \in {AbRead(s), None}
  <1>1. \A c \in Copies : s[c].index \in 0..EmptyIndex
    BY DEF PairOver, SlotOver, Copies
  <1>2. \A c \in Copies : ReadIndex(s[c]) \in -1..(EmptyIndex - 1)
    BY <1>1, EmptyIndexAssumption DEF ReadIndex
  <1>3. Current(s) \in Copies
    BY DEF Current, Copies
  <1>4. CurrentIndex(s) \in -1..(EmptyIndex - 1)
    BY <1>2, <1>3 DEF CurrentIndex
  <1>5. \A c \in Copies : ReadIndex(s[c]) <= CurrentIndex(s)
    BY <1>2 DEF CurrentIndex, Current, Copies
  <1>6. FirstCopy(s) \in Copies
    BY <1>3 DEF FirstCopy, Copies
  <1>7. CASE CurrentIndex(s) = -1
    <2>1. FirstCopy(s) = 0
      BY <1>7 DEF FirstCopy
    <2>2. ReadIndex(s[1]) = -1
      BY <1>7, <1>5, <1>2 DEF Copies
    <2>3. s[1].index = EmptyIndex
      BY <2>2, <1>1, EmptyIndexAssumption DEF ReadIndex, Copies
    <2> QED BY <1>2, <1>3, <1>4, <1>5, <1>6, <1>7, <2>1, <2>2, <2>3 DEF SlotRead
  <1>8. CASE CurrentIndex(s) # -1
    <2>1. 1 - FirstCopy(s) = Current(s)
      BY <1>8, <1>3 DEF FirstCopy, Copies
    <2> QED BY <1>2, <1>3, <1>4, <1>5, <1>6, <2>1 DEF CurrentIndex, AbRead
  <1> QED BY <1>7, <1>8

\* Reading a pair, seen from either of its copies.
LEMMA PairRead ==
  ASSUME NEW V, NEW s \in PairOver(V), NEW k \in Copies
  PROVE  /\ 1 - k \in Copies /\ 1 - k # k
         /\ AbRead(s) \in {SlotRead(s[k]), SlotRead(s[1 - k])}
         /\ CurrentIndex(s) \in {ReadIndex(s[k]), ReadIndex(s[1 - k])}
         /\ ReadIndex(s[1 - k]) > ReadIndex(s[k]) =>
              AbRead(s) = SlotRead(s[1 - k])
  <1>1. \A c \in Copies : ReadIndex(s[c]) \in Int
    BY PairFacts, EmptyIndexAssumption
  <1> QED BY <1>1 DEF AbRead, CurrentIndex, Current, Copies

\* The contents that programming can leave, and what they read as.
LEMMA ContentsOver ==
  ASSUME NEW i \in 0..(EmptyIndex - 1), NEW V, NEW v \in V
  PROVE  /\ Erased \in SlotOver(V) /\ ReadIndex(Erased) = -1
         /\ Partial(i) \in SlotOver(V) /\ ReadIndex(Partial(i)) = i
         /\ Whole(i, v) \in SlotOver(V) /\ ReadIndex(Whole(i, v)) = i
         /\ SlotRead(Erased) = None
         /\ SlotRead(Partial(i)) = None
         /\ SlotRead(Whole(i, v)) = v
  BY EmptyIndexAssumption DEF Erased, Partial, Whole, SlotOver, ReadIndex, SlotRead

(* What a caller reads after any try_write, whatever became of it: what was  *)
(* read before, the new value, or nothing; and never what was read before if *)
(* a copy was completed.                                                     *)
LEMMA ReadAfterWrite ==
  ASSUME NEW V, None \notin V, NEW s \in PairOver(V), NEW v \in V,
         NEW r \in WriteResults(s, v)
  PROVE  /\ r.slots \in PairOver(V)
         /\ AbRead(r.slots) \in {AbRead(s), None, v}
         /\ r.outcome \in {"committed", "single_copy", "not_committed", "crash"}
         /\ r.outcome \in {"committed", "single_copy"} => AbRead(r.slots) \in {v, None}
  <1> DEFINE i == NextIndex(s)
             a == FirstCopy(s)
             b == 1 - a
  <1>1. CASE Exhausted(s)
    BY <1>1 DEF WriteResults
  <1>2. CASE ~Exhausted(s)
    <2>1. /\ a \in Copies /\ b \in Copies /\ a # b /\ a = 1 - b
          /\ ReadIndex(s[b]) = i - 1 /\ i \in 0..(EmptyIndex - 1)
          /\ SlotRead(s[b]) \in {AbRead(s), None}
      <3>1. /\ a \in Copies /\ CurrentIndex(s) \in -1..(EmptyIndex - 1)
            /\ ReadIndex(s[1 - a]) = CurrentIndex(s)
            /\ SlotRead(s[1 - a]) \in {AbRead(s), None}
        BY PairFacts
      <3> QED BY <3>1, <1>2, EmptyIndexAssumption DEF Copies, NextIndex, Exhausted
    <2>2. \A x \in Stopped(s[a], i, v) :
            /\ x \in SlotOver(V)
            /\ x = s[a] \/ SlotRead(x) \in {None, v}
      BY <2>1, ContentsOver DEF Stopped, PairOver
    <2>3. \A x \in Stopped(s[b], i, v) :
            /\ x \in SlotOver(V)
            /\ x = s[b] \/ SlotRead(x) \in {None, v}
      BY <2>1, ContentsOver DEF Stopped, PairOver
    <2>4. ASSUME NEW t \in FirstStops(s, v)
          PROVE  t \in PairOver(V) /\ AbRead(t) \in {AbRead(s), None, v}
      <3>1. PICK x \in Stopped(s[a], i, v) : t = [s EXCEPT ![a] = x]
        BY <2>4 DEF FirstStops
      <3>2. t \in PairOver(V) /\ t[a] = x /\ t[b] = s[b]
        BY <2>1, <2>2, <3>1 DEF PairOver
      <3>3. CASE x = s[a]
        <4>1. t = s BY <3>1, <3>3 DEF PairOver
        <4> QED BY <3>2, <4>1
      <3>4. CASE SlotRead(x) \in {None, v}
        <4>1. AbRead(t) \in {SlotRead(t[a]), SlotRead(t[1 - a])}
          BY <2>1, <3>2, PairRead
        <4> QED BY <2>1, <3>2, <3>4, <4>1
      <3> QED BY <2>2, <3>3, <3>4
    <2>5. ASSUME NEW t \in SecondStops(s, v)
          PROVE  t \in PairOver(V) /\ AbRead(t) \in {None, v}
      <3>1. PICK x \in Stopped(s[b], i, v) :
                t = [s EXCEPT ![a] = Whole(i, v), ![b] = x]
        BY <2>5 DEF SecondStops
      <3>2. /\ Whole(i, v) \in SlotOver(V) /\ ReadIndex(Whole(i, v)) = i
            /\ SlotRead(Whole(i, v)) = v
        BY <2>1, ContentsOver
      <3>3. t \in PairOver(V) /\ t[a] = Whole(i, v) /\ t[b] = x
        BY <2>1, <2>3, <3>1, <3>2 DEF PairOver
      <3>4. AbRead(t) \in {SlotRead(t[b]), SlotRead(t[1 - b])}
        BY <2>1, <3>3, PairRead
      <3>5. CASE x = s[b]
        <4>1. ReadIndex(t[1 - b]) > ReadIndex(t[b])
          BY <2>1, <3>2, <3>3, <3>5
        <4>2. AbRead(t) = SlotRead(t[1 - b])
          BY <2>1, <3>3, <4>1, PairRead
        <4> QED BY <2>1, <3>2, <3>3, <4>2
      <3>6. CASE SlotRead(x) \in {None, v}
        BY <2>1, <3>2, <3>3, <3>4, <3>6
      <3> QED BY <2>3, <3>3, <3>5, <3>6
    <2>6. ASSUME NEW t, t = [c \in Copies |-> Whole(i, v)]
          PROVE  t \in PairOver(V) /\ AbRead(t) = v
      <3>1. Whole(i, v) \in SlotOver(V) /\ SlotRead(Whole(i, v)) = v
        BY <2>1, ContentsOver
      <3> QED BY <2>6, <3>1 DEF PairOver, AbRead, Current, Copies
    <2>7. \/ r.slots \in FirstStops(s, v) /\ r.outcome \in {"not_committed", "crash"}
          \/ r.slots \in SecondStops(s, v) /\ r.outcome \in {"single_copy", "crash"}
          \/ r.slots = [c \in Copies |-> Whole(i, v)] /\ r.outcome = "committed"
      BY <1>2 DEF WriteResults
    <2> QED BY <2>4, <2>5, <2>6, <2>7
  <1> QED BY <1>1, <1>2

-------------------------------------------------------------------------------
(* try_write, one flash operation at a time.                                 *)

Other == 1 - job.copy

\* Acceptable results of a read: nothing, or not older than the last commit.
Recent(v) == v \in {live, None} \cup tried

(* While the first copy is written, the other copy is untouched, holds the   *)
(* newest index (one less than the new one) and a recent body.               *)
FirstCopyInv ==
  (pc # "idle" /\ ~job.second) =>
    /\ ReadIndex(slots[Other]) = job.index - 1
    /\ ReadIndex(slots[job.copy]) <= job.index
    /\ slots[Other] = before[Other]
    /\ job.index = NextIndex(before) /\ job.copy = FirstCopy(before)
    /\ ~Exhausted(before)
    /\ Recent(SlotRead(slots[Other]))
    /\ pc = "erase" => slots = before

(* While the second copy is written, the first one holds the new value and   *)
(* the second never has a newer index.                                       *)
SecondCopyInv ==
  (pc # "idle" /\ job.second) =>
    /\ slots[Other] = Whole(job.index, job.value)
    /\ job.index = NextIndex(before) /\ Other = FirstCopy(before)
    /\ ~Exhausted(before)
    /\ pc = "erase" => /\ ReadIndex(slots[job.copy]) < job.index
                       /\ slots[job.copy] = before[job.copy]

\* The copy being written holds exactly what the last operation left.
TargetInv ==
  /\ pc = "index" => slots[job.copy] = Erased
  /\ pc = "body" => slots[job.copy] = Partial(job.index)
  /\ pc # "idle" => job.value \in tried

\* After a clean commit both copies are the committed write.
CommitInv ==
  (pc = "idle" /\ outcome = "committed" /\ tried = {}) =>
    /\ slots[0] = slots[1]
    /\ slots[0].index # EmptyIndex
    /\ slots[0].body = live

WriteInv == /\ WriteTypeOK /\ TiedCopiesAgree /\ NeverStale
        /\ FirstCopyInv /\ SecondCopyInv /\ TargetInv /\ CommitInv

-------------------------------------------------------------------------------
LEMMA WriteInitInv == WriteInit => WriteInv
  BY EmptyIndexAssumption, ValuesAssumption
  DEF WriteInit, WriteInv, WriteTypeOK, TiedCopiesAgree, NeverStale, FirstCopyInv,
      SecondCopyInv, TargetInv, CommitInv, Blank, Erased, Copies, SlotOver,
      NoJob, Steps, Outcomes, AbRead, SlotRead, Current, ReadIndex

\* Calling try_write.
LEMMA BeginInv == ASSUME WriteInv, NEW v \in Values, Begin(v) PROVE WriteInv'
  <1>1. CASE Exhausted(slots)
    <2>1. UNCHANGED <<slots, pc, job, live, tried>> /\ before' = slots
          /\ outcome' = "not_committed" /\ pc = "idle"
      BY <1>1 DEF Begin
    <2> QED BY <2>1 DEF WriteInv, WriteTypeOK, TiedCopiesAgree, NeverStale, FirstCopyInv,
      SecondCopyInv, TargetInv, CommitInv, Outcomes, Steps, AbRead, Current
  <1>2. CASE ~Exhausted(slots)
    <2> DEFINE c == FirstCopy(slots)
               i == NextIndex(slots)
    <2>1. /\ pc = "idle" /\ pc' = "erase" /\ before' = slots
          /\ job' = [copy |-> c, index |-> i, value |-> v, second |-> FALSE]
          /\ tried' = tried \cup {v}
          /\ UNCHANGED <<slots, outcome, live>>
      BY <1>2 DEF Begin
    <2>2. slots \in PairOver(Values)
      BY DEF WriteInv, WriteTypeOK, PairOver
    <2>3. /\ c \in Copies /\ i \in 0..(EmptyIndex - 1)
          /\ ReadIndex(slots[1 - c]) = i - 1
          /\ ReadIndex(slots[c]) <= i
          /\ SlotRead(slots[1 - c]) \in {AbRead(slots), None}
      BY <2>2, <1>2, PairFacts, EmptyIndexAssumption
      DEF NextIndex, Exhausted
    <2> HIDE DEF c, i
    <2>4. /\ job'.copy = c /\ job'.index = i /\ job'.value = v
          /\ job'.second = FALSE
      BY <2>1
    <2>5. WriteTypeOK'
      BY <2>1, <2>3 DEF WriteInv, WriteTypeOK, Steps
    <2>6. TiedCopiesAgree' /\ NeverStale'
      BY <2>1 DEF WriteInv, TiedCopiesAgree, NeverStale, AbRead, Current
    <2>7. FirstCopyInv'
      BY <1>2, <2>1, <2>3, <2>4 DEF WriteInv, FirstCopyInv, NeverStale, Other,
        Recent, c, i
    <2>8. SecondCopyInv' /\ TargetInv' /\ CommitInv'
      BY <2>1, <2>4 DEF SecondCopyInv, TargetInv, CommitInv
    <2> QED BY <2>5, <2>6, <2>7, <2>8 DEF WriteInv
  <1> QED BY <1>1, <1>2

LEMMA Contents ==
  ASSUME NEW i \in 0..(EmptyIndex - 1), NEW v \in Values
  PROVE  /\ Erased \in SlotOver(Values) /\ ReadIndex(Erased) = -1
         /\ Partial(i) \in SlotOver(Values) /\ ReadIndex(Partial(i)) = i
         /\ Whole(i, v) \in SlotOver(Values) /\ ReadIndex(Whole(i, v)) = i
         /\ SlotRead(Erased) = None
         /\ SlotRead(Partial(i)) = None
         /\ SlotRead(Whole(i, v)) = v
  BY ContentsOver

\* What every step of a write in progress starts from.
LEMMA InProgress ==
  ASSUME WriteInv, pc # "idle"
  PROVE  /\ slots \in PairOver(Values) /\ job.copy \in Copies /\ Other \in Copies
         /\ Other # job.copy
         /\ job.index \in 0..(EmptyIndex - 1) /\ job.value \in Values
         /\ job.value \in tried /\ job.second \in BOOLEAN
         /\ pc \in Steps
         /\ Done \in SlotOver(Values)
         /\ ReadIndex(Done) \in {-1, job.index}
         /\ SlotRead(Done) \in {None, job.value}
  <1>1. /\ slots \in PairOver(Values) /\ job.copy \in Copies
        /\ job.index \in 0..(EmptyIndex - 1)
        /\ job.value \in tried /\ tried \subseteq Values
        /\ job.second \in BOOLEAN /\ pc \in Steps
    BY DEF WriteInv, WriteTypeOK, TargetInv, PairOver
  <1>2. Done \in {Erased, Partial(job.index), Whole(job.index, job.value)}
    BY <1>1 DEF Done, Steps
  <1> QED BY <1>1, <1>2, Contents DEF Other, Copies

\* Erasing a copy or programming its first doubleword.
LEMMA AdvanceInv == ASSUME WriteInv, Advance PROVE WriteInv'
  <1> DEFINE k == job.copy
  <1>1. /\ pc \in {"erase", "index"} /\ slots' = [slots EXCEPT ![k] = Done]
        /\ pc' = IF pc = "erase" THEN "index" ELSE "body"
        /\ UNCHANGED <<job, outcome, before, live, tried>>
    BY DEF Advance
  <1>2. pc # "idle" BY <1>1
  <1>3. /\ slots \in PairOver(Values) /\ k \in Copies /\ Other = 1 - k
        /\ job.index \in 0..(EmptyIndex - 1) /\ job.value \in Values
        /\ Done \in SlotOver(Values) /\ job.second \in BOOLEAN
    BY <1>2, InProgress DEF Other
  <1>4. slots' \in PairOver(Values) /\ slots'[k] = Done /\ slots'[Other] = slots[Other]
    BY <1>1, <1>3 DEF PairOver, Copies
  <1>5. Done = IF pc = "erase" THEN Erased ELSE Partial(job.index)
    BY <1>1 DEF Done
  <1>6. /\ SlotRead(Done) = None /\ ReadIndex(Done) <= job.index
        /\ ReadIndex(Done) \in Int
    BY <1>3, <1>5, Contents
  <1>7. job' = job /\ Other' = Other
    BY <1>1 DEF Other
  <1>8. WriteTypeOK'
    BY <1>1, <1>4 DEF WriteInv, WriteTypeOK, PairOver, Steps
  <1>9. TargetInv'
    BY <1>1, <1>4, <1>5 DEF WriteInv, TargetInv
  <1>10. FirstCopyInv' /\ SecondCopyInv'
    BY <1>1, <1>2, <1>4, <1>6, <1>7 DEF WriteInv, FirstCopyInv, SecondCopyInv, Recent
  <1>11. CommitInv'
    BY <1>1 DEF CommitInv
  <1>12. TiedCopiesAgree'
    BY <1>3, <1>4, <1>5 DEF TiedCopiesAgree, Erased, Partial, Copies
  <1>13. SlotRead(slots[Other]) \in {live, None} \cup tried
    <2>1. job.value \in tried BY <1>2, InProgress
    <2> QED BY <1>2, <1>3, <2>1, Contents
            DEF WriteInv, FirstCopyInv, SecondCopyInv, Recent
  <1>14. NeverStale'
    <2>1. AbRead(slots') \in {SlotRead(slots'[k]), SlotRead(slots'[1 - k])}
      BY <1>3, <1>4, PairRead
    <2> QED BY <1>1, <1>3, <1>4, <1>6, <1>13, <2>1 DEF NeverStale
  <1> QED BY <1>8, <1>9, <1>10, <1>11, <1>12, <1>14 DEF WriteInv

\* Completing the first copy: from here on the new value is the newest.
LEMMA FirstCopyWrittenInv == ASSUME WriteInv, FirstCopyWritten PROVE WriteInv'
  <1> DEFINE k == job.copy
  <1>1. /\ pc = "body" /\ ~job.second /\ slots' = [slots EXCEPT ![k] = Done]
        /\ pc' = "erase"
        /\ job' = [job EXCEPT !.copy = 1 - @, !.second = TRUE]
        /\ UNCHANGED <<outcome, before, live, tried>>
    BY DEF FirstCopyWritten
  <1>2. /\ slots \in PairOver(Values) /\ k \in Copies /\ Other = 1 - k /\ Other \in Copies
        /\ job.index \in 0..(EmptyIndex - 1) /\ job.value \in Values
        /\ job.value \in tried /\ Done \in SlotOver(Values)
    BY <1>1, InProgress DEF Other
  <1>3. slots' \in PairOver(Values) /\ slots'[k] = Done /\ slots'[Other] = slots[Other]
    BY <1>1, <1>2 DEF PairOver, Copies
  <1>4. Done = Whole(job.index, job.value)
    BY <1>1 DEF Done
  <1>5. SlotRead(Done) = job.value /\ ReadIndex(Done) = job.index
    BY <1>2, <1>4, Contents
  <1>6. /\ job'.copy = Other /\ job'.index = job.index /\ job'.value = job.value
        /\ job'.second = TRUE /\ Other' = k
    BY <1>1, <1>2 DEF WriteInv, WriteTypeOK, Other, Copies
  <1>7. WriteTypeOK'
    BY <1>1, <1>2, <1>3 DEF WriteInv, WriteTypeOK, PairOver, Steps, Other
  <1>8. FirstCopyInv' /\ CommitInv'
    BY <1>1, <1>6 DEF FirstCopyInv, CommitInv
  <1>9. /\ ReadIndex(slots[Other]) = job.index - 1
        /\ slots[Other] = before[Other]
        /\ job.index = NextIndex(before) /\ k = FirstCopy(before)
        /\ ~Exhausted(before)
    BY <1>1 DEF WriteInv, FirstCopyInv
  <1>10. ReadIndex(slots'[Other]) < job.index
    BY <1>2, <1>3, <1>9
  <1>11. SecondCopyInv'
    BY <1>1, <1>3, <1>4, <1>6, <1>9, <1>10 DEF SecondCopyInv
  <1>12. TargetInv'
    BY <1>1, <1>2, <1>6 DEF TargetInv
  <1>13. TiedCopiesAgree'
    <2>1. slots'[Other].index # job.index \/ slots'[Other].index = EmptyIndex
      BY <1>2, <1>10 DEF ReadIndex
    <2>2. slots'[k].index = job.index /\ job.index # EmptyIndex
      BY <1>2, <1>3, <1>4, EmptyIndexAssumption DEF Whole
    <2> QED BY <1>2, <2>1, <2>2 DEF TiedCopiesAgree, Copies
  <1>14. NeverStale'
    <2>1. AbRead(slots') = SlotRead(slots'[k])
      <3>1. ReadIndex(slots'[k]) > ReadIndex(slots'[Other])
        BY <1>2, <1>3, <1>5, <1>10 DEF ReadIndex
      <3>2. k = 1 - Other BY <1>2 DEF Copies
      <3> QED BY <1>2, <1>3, <3>1, <3>2, PairRead
    <2> QED BY <1>1, <1>2, <1>3, <1>5, <2>1 DEF NeverStale
  <1> QED BY <1>7, <1>8, <1>11, <1>12, <1>13, <1>14 DEF WriteInv

\* Completing the second copy.
LEMMA SecondCopyWrittenInv == ASSUME WriteInv, SecondCopyWritten PROVE WriteInv'
  <1> DEFINE k == job.copy
  <1>1. /\ pc = "body" /\ job.second /\ slots' = [slots EXCEPT ![k] = Done]
        /\ pc' = "idle" /\ outcome' = "committed" /\ job' = NoJob
        /\ live' = job.value /\ tried' = {} /\ before' = before
    BY DEF SecondCopyWritten, Finish
  <1>2. /\ slots \in PairOver(Values) /\ k \in Copies /\ Other = 1 - k
        /\ job.index \in 0..(EmptyIndex - 1) /\ job.value \in Values
        /\ Done \in SlotOver(Values)
    BY <1>1, InProgress DEF Other
  <1>3. slots' \in PairOver(Values) /\ slots'[k] = Done /\ slots'[Other] = slots[Other]
    BY <1>1, <1>2 DEF PairOver, Copies
  <1>4. slots'[k] = Whole(job.index, job.value)
        /\ slots'[Other] = Whole(job.index, job.value)
    BY <1>1, <1>3 DEF Done, WriteInv, SecondCopyInv
  <1>5. SlotRead(slots'[k]) = job.value /\ SlotRead(slots'[Other]) = job.value
    BY <1>2, <1>4, Contents
  <1>6. /\ slots'[0] = Whole(job.index, job.value)
        /\ slots'[1] = Whole(job.index, job.value)
    BY <1>2, <1>4 DEF Copies
  <1>7. WriteTypeOK'
    BY <1>1, <1>2, <1>3, EmptyIndexAssumption
    DEF WriteInv, WriteTypeOK, PairOver, NoJob, Outcomes, Copies
  <1>8. TiedCopiesAgree'
    BY <1>6 DEF TiedCopiesAgree
  <1>9. NeverStale'
    <2>1. AbRead(slots') \in {SlotRead(slots'[k]), SlotRead(slots'[1 - k])}
      BY ONLY <1>2, <1>3, PairRead
    <2>2. AbRead(slots') = live'
      BY <1>1, <1>2, <1>5, <2>1
    <2> QED BY ONLY <2>2 DEF NeverStale
  <1>10. CommitInv'
    BY <1>1, <1>2, <1>6 DEF CommitInv, Whole
  <1>11. FirstCopyInv' /\ SecondCopyInv' /\ TargetInv'
    BY <1>1 DEF FirstCopyInv, SecondCopyInv, TargetInv
  <1> QED BY <1>7, <1>8, <1>9, <1>10, <1>11 DEF WriteInv

\* The flash refuses an operation, whether or not it took effect.
LEMMA StepRefusedInv == ASSUME WriteInv, StepRefused PROVE WriteInv'
  <1> DEFINE k == job.copy
  <1> PICK x \in {slots[k], Done} : slots' = [slots EXCEPT ![k] = x]
    BY DEF StepRefused
  <1>1. /\ pc # "idle" /\ pc' = "idle" /\ job' = NoJob /\ before' = before
        /\ outcome' = IF job.second THEN "single_copy" ELSE "not_committed"
        /\ job.second => live' = job.value /\ tried' = {}
        /\ ~job.second => live' = live /\ tried' = tried
    BY DEF StepRefused, Finish
  <1>2. /\ slots \in PairOver(Values) /\ k \in Copies /\ Other = 1 - k
        /\ job.index \in 0..(EmptyIndex - 1) /\ job.value \in Values
        /\ job.value \in tried /\ Done \in SlotOver(Values)
        /\ job.second \in BOOLEAN /\ pc \in Steps
    BY <1>1, InProgress DEF Other
  <1>3. x \in SlotOver(Values)
    BY <1>2 DEF PairOver
  <1>4. slots' \in PairOver(Values) /\ slots'[k] = x /\ slots'[Other] = slots[Other]
    BY <1>2, <1>3 DEF PairOver, Copies
  <1>5. WriteTypeOK'
    BY <1>1, <1>2, <1>4, EmptyIndexAssumption
    DEF WriteInv, WriteTypeOK, PairOver, NoJob, Outcomes, Copies
  <1>6. FirstCopyInv' /\ SecondCopyInv' /\ TargetInv' /\ CommitInv'
    BY <1>1 DEF FirstCopyInv, SecondCopyInv, TargetInv, CommitInv
  <1>7. \/ x = slots[k] /\ pc = "erase"
        \/ x = Erased \/ x = Partial(job.index)
        \/ x = Whole(job.index, job.value)
    BY <1>2 DEF WriteInv, TargetInv, Done, Steps
  <1>8. ReadIndex(slots[Other]) = (IF job.second THEN job.index ELSE job.index - 1)
    BY <1>1, <1>2, Contents DEF WriteInv, FirstCopyInv, SecondCopyInv
  <1>9. CASE x = slots[k] /\ pc = "erase"
    <2>1. slots' = slots
      BY <1>9, <1>2 DEF PairOver
    <2>2. TiedCopiesAgree'
      BY <2>1 DEF WriteInv, TiedCopiesAgree
    <2>3. NeverStale'
      <3>1. CASE ~job.second
        BY <1>1, <2>1, <3>1 DEF WriteInv, NeverStale, AbRead, Current
      <3>2. CASE job.second
        <4>1. ReadIndex(slots[k]) < job.index
              /\ SlotRead(slots[Other]) = job.value
          BY <1>1, <1>2, <1>9, <3>2, Contents DEF WriteInv, SecondCopyInv
        <4>2. ReadIndex(slots[1 - k]) > ReadIndex(slots[k])
          BY <1>2, <1>8, <3>2, <4>1, PairFacts
        <4>3. AbRead(slots') = job.value
          BY <1>2, <2>1, <4>1, <4>2, PairRead
        <4> QED BY <1>1, <3>2, <4>3 DEF NeverStale
      <3> QED BY <1>2, <3>1, <3>2
    <2> QED BY <1>5, <1>6, <2>2, <2>3 DEF WriteInv
  <1>10. CASE x \in {Erased, Partial(job.index), Whole(job.index, job.value)}
    <2>1. TiedCopiesAgree'
      <3>1. CASE ~job.second
        BY <1>2, <1>4, <1>8, <1>10, <3>1, EmptyIndexAssumption
        DEF TiedCopiesAgree, Erased, Partial, Whole, ReadIndex, Copies
      <3>2. CASE job.second
        <4>1. slots'[Other] = Whole(job.index, job.value)
          BY <1>1, <1>4, <3>2 DEF WriteInv, SecondCopyInv
        <4> QED BY <1>2, <1>4, <1>10, <4>1
                DEF TiedCopiesAgree, Erased, Partial, Whole, Copies
      <3> QED BY <1>2, <3>1, <3>2
    <2>2. SlotRead(x) \in {None, job.value}
      BY <1>2, <1>10, Contents
    <2>3. AbRead(slots') \in {SlotRead(x), SlotRead(slots[Other])}
      BY <1>2, <1>4, PairRead
    <2>4. NeverStale'
      <3>1. CASE ~job.second
        BY <1>1, <1>2, <2>2, <2>3, <3>1 DEF WriteInv, FirstCopyInv, Recent, NeverStale
      <3>2. CASE job.second
        <4>1. SlotRead(slots[Other]) = job.value
          BY <1>1, <1>2, <3>2, Contents DEF WriteInv, SecondCopyInv
        <4> QED BY <1>1, <2>2, <2>3, <3>2, <4>1 DEF NeverStale
      <3> QED BY <1>2, <3>1, <3>2
    <2> QED BY <1>5, <1>6, <2>1, <2>4 DEF WriteInv
  <1> QED BY <1>7, <1>9, <1>10

\* Power is cut: flash keeps what it has.
LEMMA PowerCutInv == ASSUME WriteInv, PowerCut PROVE WriteInv'
  <1>1. /\ pc # "idle" /\ pc' = "idle" /\ outcome' = "crash" /\ job' = NoJob
        /\ UNCHANGED <<slots, before, live, tried>>
    BY DEF PowerCut, Finish
  <1> QED BY <1>1, EmptyIndexAssumption
          DEF WriteInv, WriteTypeOK, TiedCopiesAgree, NeverStale, AbRead, Current,
              FirstCopyInv, SecondCopyInv, TargetInv, CommitInv, NoJob,
              Outcomes, Copies

LEMMA WriteNextInv == WriteInv /\ [WriteNext]_writeVars => WriteInv'
  <1> SUFFICES ASSUME WriteInv, [WriteNext]_writeVars PROVE WriteInv'
    OBVIOUS
  <1>1. ASSUME NEW v \in Values, Begin(v) PROVE WriteInv'
    BY <1>1, BeginInv
  <1>2. CASE Advance BY <1>2, AdvanceInv
  <1>3. CASE FirstCopyWritten BY <1>3, FirstCopyWrittenInv
  <1>4. CASE SecondCopyWritten BY <1>4, SecondCopyWrittenInv
  <1>5. CASE StepRefused BY <1>5, StepRefusedInv
  <1>6. CASE PowerCut BY <1>6, PowerCutInv
  <1>7. CASE UNCHANGED writeVars
    BY <1>7 DEF writeVars, WriteInv, WriteTypeOK, TiedCopiesAgree, NeverStale, AbRead,
      Current, FirstCopyInv, SecondCopyInv, TargetInv, CommitInv, Other, Recent
  <1> QED BY <1>1, <1>2, <1>3, <1>4, <1>5, <1>6, <1>7 DEF WriteNext, Step

LEMMA WriteSpecInv == WriteSpec => []WriteInv
  BY WriteInitInv, WriteNextInv, PTL DEF WriteSpec

-------------------------------------------------------------------------------
(* Every reachable state is well typed, for any EmptyIndex and any Values.   *)
THEOREM WritesAreTyped == WriteSpec => []WriteTypeOK
  BY WriteSpecInv, PTL DEF WriteInv

(* AbSlot::read never yields a value older than the last committed write,    *)
(* whatever the flash refused and wherever power was cut.                    *)
THEOREM ReadsAreNeverStale == WriteSpec => []NeverStale
  BY WriteSpecInv, PTL DEF WriteInv

(* Two complete copies with one index always hold one value, so the tie rule *)
(* of current_slot_and_index never chooses between different values.         *)
THEOREM TiesAgree == WriteSpec => []TiedCopiesAgree
  BY WriteSpecInv, PTL DEF WriteInv

(* A write reported Committed is what AbSlot::read returns.                  *)
THEOREM CommitsAreRead == WriteSpec => []CommittedIsRead
  <1>1. WriteInv => CommittedIsRead
    <2> SUFFICES ASSUME WriteInv, pc = "idle", outcome = "committed", tried = {}
                 PROVE AbRead(slots) = live
      BY DEF CommittedIsRead
    <2> QED BY DEF WriteInv, CommitInv, AbRead, Current, SlotRead
  <1> QED BY <1>1, WriteSpecInv, PTL

\* The newest index over one step.
LEMMA StepIndex == WriteInv /\ [WriteNext]_writeVars => CurrentIndex(slots') >= CurrentIndex(slots)
  <1> SUFFICES ASSUME WriteInv, [WriteNext]_writeVars
               PROVE CurrentIndex(slots') >= CurrentIndex(slots)
    OBVIOUS
  <1>1. WriteInv' BY WriteNextInv
  <1>2. slots \in PairOver(Values) /\ slots' \in PairOver(Values)
    BY <1>1 DEF WriteInv, WriteTypeOK, PairOver
  <1>3. CASE slots' = slots
    BY <1>2, <1>3, PairFacts, EmptyIndexAssumption
  <1>4. ASSUME pc # "idle",
               NEW x \in {slots[job.copy], Done},
               slots' = [slots EXCEPT ![job.copy] = x]
        PROVE  CurrentIndex(slots') >= CurrentIndex(slots)
    <2> DEFINE k == job.copy
    <2>1. /\ k \in Copies /\ Other = 1 - k /\ Other \in Copies
          /\ job.index \in 0..(EmptyIndex - 1) /\ job.value \in Values
          /\ pc \in Steps /\ job.second \in BOOLEAN
      BY <1>4, InProgress DEF Other
    <2>2. slots'[k] = x /\ slots'[Other] = slots[Other]
      BY <1>2, <1>4, <2>1 DEF PairOver, Copies
    <2>3. /\ \A c \in Copies : ReadIndex(slots[c]) \in Int
          /\ \A c \in Copies : ReadIndex(slots'[c]) \in Int
          /\ \A c \in Copies : ReadIndex(slots'[c]) <= CurrentIndex(slots')
          /\ CurrentIndex(slots) \in Int /\ CurrentIndex(slots') \in Int
          /\ CurrentIndex(slots) \in {ReadIndex(slots[k]), ReadIndex(slots[Other])}
          /\ \A c \in Copies : ReadIndex(slots[c]) <= CurrentIndex(slots)
      <3>1. /\ \A c \in Copies : ReadIndex(slots[c]) \in -1..(EmptyIndex - 1)
            /\ CurrentIndex(slots) \in -1..(EmptyIndex - 1)
            /\ \A c \in Copies : ReadIndex(slots[c]) <= CurrentIndex(slots)
        BY <1>2, PairFacts
      <3>2. /\ \A c \in Copies : ReadIndex(slots'[c]) \in -1..(EmptyIndex - 1)
            /\ CurrentIndex(slots') \in -1..(EmptyIndex - 1)
            /\ \A c \in Copies : ReadIndex(slots'[c]) <= CurrentIndex(slots')
        BY <1>2, PairFacts
      <3>3. CurrentIndex(slots) \in {ReadIndex(slots[k]), ReadIndex(slots[Other])}
        BY <1>2, <2>1, PairRead
      <3> QED BY <3>1, <3>2, <3>3, EmptyIndexAssumption
    <2>4. CASE ReadIndex(slots[Other]) = CurrentIndex(slots)
      BY <2>1, <2>2, <2>3, <2>4
    <2>5. CASE ReadIndex(slots[Other]) # CurrentIndex(slots)
      <3>1. ~job.second
        BY <1>4, <2>1, <2>3, <2>5, Contents
        DEF WriteInv, SecondCopyInv, TargetInv, Steps
      <3>2. pc # "erase"
        BY <1>4, <2>1, <2>5, <3>1, <1>2, PairFacts DEF WriteInv, FirstCopyInv
      <3>3. pc # "index"
        <4> SUFFICES ASSUME pc = "index" PROVE FALSE
          OBVIOUS
        <4>1. ReadIndex(slots[k]) = -1
          BY <2>1, Contents DEF WriteInv, TargetInv
        <4>2. ReadIndex(slots[Other]) >= -1
          BY <1>2, <2>1, PairFacts
        <4> QED BY <2>1, <2>3, <2>5, <4>1, <4>2
      <3>4. pc = "body" BY <2>1, <3>2, <3>3, <1>4 DEF Steps
      <3>5. slots[k] = Partial(job.index) /\ Done = Whole(job.index, job.value)
        BY <3>4 DEF WriteInv, TargetInv, Done
      <3>6. ReadIndex(x) = ReadIndex(slots[k])
        BY <1>4, <2>1, <3>5, Contents
      <3> QED BY <2>1, <2>2, <2>3, <2>5, <3>6
    <2> QED BY <2>4, <2>5
  <1>5. \/ slots' = slots
        \/ pc # "idle" /\ slots' = [slots EXCEPT ![job.copy] = Done]
        \/ pc # "idle" /\ \E x \in {slots[job.copy], Done} :
                            slots' = [slots EXCEPT ![job.copy] = x]
    BY DEF WriteNext, Step, Begin, Advance, FirstCopyWritten, SecondCopyWritten,
           StepRefused, PowerCut, writeVars
  <1> QED BY <1>3, <1>4, <1>5

(* The index that orders writes never falls back, so an index is never       *)
(* handed out twice.                                                         *)
THEOREM IndexIsMonotone == WriteSpec => IndexNeverFallsBack
  <1>1. WriteInv /\ [WriteNext]_writeVars => [CurrentIndex(slots') >= CurrentIndex(slots)]_writeVars
    BY StepIndex
  <1> QED BY <1>1, WriteSpecInv, PTL DEF WriteSpec, IndexNeverFallsBack

-------------------------------------------------------------------------------
\* The abstract slots: what the caller of the write in progress still sees.
Seen == IF pc = "idle" THEN slots ELSE before

\* The results of a write called on `before`, while it is in progress.
LEMMA StoppedFirst ==
  ASSUME WriteInv, pc # "idle", ~job.second,
         NEW x \in {slots[job.copy], Done}, NEW o \in {"not_committed", "crash"}
  PROVE  [slots |-> [slots EXCEPT ![job.copy] = x], outcome |-> o]
           \in WriteResults(before, job.value)
  <1> DEFINE k == job.copy
             i == NextIndex(before)
             stop == Stopped(before[k], i, job.value)
  <1>1. /\ slots \in PairOver(Values) /\ before \in PairOver(Values) /\ k \in Copies /\ Other = 1 - k
        /\ pc \in Steps
    BY InProgress DEF WriteInv, WriteTypeOK, PairOver, Other
  <1>2. /\ slots[Other] = before[Other] /\ job.index = i
        /\ k = FirstCopy(before) /\ ~Exhausted(before)
        /\ pc = "erase" => slots = before
    BY DEF WriteInv, FirstCopyInv
  <1>3. x \in stop
    BY <1>1, <1>2 DEF WriteInv, TargetInv, Done, Stopped, Steps
  <1>4. [slots EXCEPT ![k] = x] = [before EXCEPT ![k] = x]
    <2>1. \A c \in Copies : c = k \/ c = Other
      BY <1>1 DEF Copies
    <2> QED BY <1>1, <1>2, <2>1 DEF PairOver
  <1>5. [slots EXCEPT ![k] = x] \in FirstStops(before, job.value)
    <2> HIDE DEF i, stop
    <2>1. x \in Stopped(before[FirstCopy(before)], i, job.value)
      BY <1>2, <1>3 DEF stop
    <2>2. [slots EXCEPT ![k] = x] = [before EXCEPT ![FirstCopy(before)] = x]
      BY <1>2, <1>4
    <2> QED BY <2>1, <2>2 DEF FirstStops, i
  <1> QED BY <1>2, <1>5 DEF WriteResults

LEMMA StoppedSecond ==
  ASSUME WriteInv, pc # "idle", job.second,
         NEW x \in {slots[job.copy], Done}, NEW o \in {"single_copy", "crash"}
  PROVE  [slots |-> [slots EXCEPT ![job.copy] = x], outcome |-> o]
           \in WriteResults(before, job.value)
  <1> DEFINE k == job.copy
             a == FirstCopy(before)
             i == NextIndex(before)
             stop == Stopped(before[k], i, job.value)
             whole == Whole(i, job.value)
  <1>1. /\ slots \in PairOver(Values) /\ before \in PairOver(Values) /\ k \in Copies /\ Other = 1 - k
        /\ pc \in Steps
    BY InProgress DEF WriteInv, WriteTypeOK, PairOver, Other
  <1>2. /\ slots[Other] = whole /\ job.index = i
        /\ Other = a /\ ~Exhausted(before)
        /\ pc = "erase" => slots[k] = before[k]
    BY DEF WriteInv, SecondCopyInv
  <1>3. x \in stop
    BY <1>1, <1>2 DEF WriteInv, TargetInv, Done, Stopped, Steps
  <1>4. k = 1 - a /\ k # a /\ a \in Copies
    BY <1>1, <1>2 DEF Copies
  <1> HIDE DEF a, i, whole, stop
  <1>5. [slots EXCEPT ![k] = x] = [before EXCEPT ![a] = whole, ![1 - a] = x]
    BY <1>1, <1>2, <1>4 DEF PairOver, Copies
  <1>6. x \in Stopped(before[1 - a], i, job.value)
    BY <1>3, <1>4 DEF stop
  <1>7. [slots EXCEPT ![k] = x] \in SecondStops(before, job.value)
    BY <1>5, <1>6 DEF SecondStops, a, i, whole
  <1> QED BY <1>2, <1>7 DEF WriteResults

\* One step of the detailed machine, seen by the caller.
LEMMA StepSeen ==
  ASSUME WriteInv, [WriteNext]_writeVars
  PROVE  \/ \E v \in Values : \E r \in WriteResults(Seen, v) :
               Seen' = r.slots /\ outcome' = r.outcome
         \/ UNCHANGED <<Seen, outcome>>
  <1>1. ASSUME NEW v \in Values, Begin(v)
        PROVE  \/ \E r \in WriteResults(Seen, v) :
                    Seen' = r.slots /\ outcome' = r.outcome
               \/ UNCHANGED <<Seen, outcome>>
    BY <1>1 DEF Begin, Seen, WriteResults
  <1>2. CASE Advance
    BY <1>2 DEF Advance, Seen
  <1>3. CASE FirstCopyWritten
    BY <1>3 DEF FirstCopyWritten, Seen
  <1>4. CASE SecondCopyWritten
    <2>1. /\ pc = "body" /\ job.second /\ pc' = "idle"
          /\ slots' = [slots EXCEPT ![job.copy] = Done] /\ outcome' = "committed"
      BY <1>4 DEF SecondCopyWritten, Finish
    <2>2. /\ slots \in PairOver(Values) /\ job.copy \in Copies /\ Other = 1 - job.copy
          /\ job.value \in Values
      BY <2>1, InProgress DEF Other
    <2>3. /\ slots[Other] = Whole(job.index, job.value)
          /\ Done = Whole(job.index, job.value)
          /\ job.index = NextIndex(before) /\ ~Exhausted(before)
      BY <2>1 DEF WriteInv, SecondCopyInv, Done
    <2>4. slots' = [c \in Copies |-> Whole(NextIndex(before), job.value)]
      <3>1. \A c \in Copies : c = job.copy \/ c = Other
        BY <2>2 DEF Copies
      <3>2. slots' \in [Copies -> SlotOver(Values)]
        BY SecondCopyWrittenInv, <1>4 DEF WriteInv, WriteTypeOK
      <3>3. \A c \in Copies : slots'[c] = Whole(job.index, job.value)
        BY <2>1, <2>2, <2>3, <3>1 DEF PairOver
      <3> QED BY <2>3, <3>2, <3>3
    <2>5. [slots |-> slots', outcome |-> "committed"]
             \in WriteResults(before, job.value)
      BY <2>3, <2>4 DEF WriteResults
    <2> QED BY <2>1, <2>2, <2>5 DEF Seen
  <1>5. CASE StepRefused
    <2>1. PICK x \in {slots[job.copy], Done} :
             slots' = [slots EXCEPT ![job.copy] = x]
      BY <1>5 DEF StepRefused
    <2>2. /\ pc # "idle" /\ pc' = "idle"
          /\ outcome' = IF job.second THEN "single_copy" ELSE "not_committed"
      BY <1>5 DEF StepRefused, Finish
    <2>3. job.value \in Values /\ job.second \in BOOLEAN
      BY <2>2, InProgress
    <2>4. [slots |-> slots', outcome |-> outcome'] \in WriteResults(before, job.value)
      BY <2>1, <2>2, <2>3, StoppedFirst, StoppedSecond
    <2> QED BY <2>2, <2>3, <2>4 DEF Seen
  <1>6. CASE PowerCut
    <2>1. /\ pc # "idle" /\ pc' = "idle" /\ outcome' = "crash" /\ slots' = slots
      BY <1>6 DEF PowerCut, Finish
    <2>2. /\ job.value \in Values /\ job.second \in BOOLEAN
          /\ slots \in PairOver(Values) /\ job.copy \in Copies
      BY <2>1, InProgress
    <2>3. slots = [slots EXCEPT ![job.copy] = slots[job.copy]]
      BY <2>2 DEF PairOver
    <2>4. [slots |-> slots, outcome |-> "crash"] \in WriteResults(before, job.value)
      BY <2>1, <2>2, <2>3, StoppedFirst, StoppedSecond
    <2> QED BY <2>1, <2>2, <2>4 DEF Seen
  <1>7. CASE UNCHANGED writeVars
    BY <1>7 DEF writeVars, Seen
  <1> QED BY <1>1, <1>2, <1>3, <1>4, <1>5, <1>6, <1>7 DEF WriteNext, Step

(* A caller may take try_write to be one atomic step with one of the results *)
(* of WriteResults, power cuts and refusals included.                        *)
THEOREM ImplementsRegister == WriteSpec => WritesAreAtomicToTheCaller
  <1> USE DEF Register!Init
  <1>1. WriteInit => Register!Init
    BY DEF WriteInit, Register!Blank, Blank, Register!Erased, Erased,
           Register!Copies, Copies
  <1>2. \A s, v : Register!WriteResults(s, v) = WriteResults(s, v)
    BY DEF WriteResults, Register!WriteResults, Exhausted, Register!Exhausted,
      NextIndex, Register!NextIndex, FirstStops, Register!FirstStops,
      SecondStops, Register!SecondStops, Stopped, Register!Stopped,
      Copies, Register!Copies, Whole, Register!Whole, Partial, Register!Partial,
      Erased, Register!Erased, FirstCopy, Register!FirstCopy,
      Current, Register!Current, CurrentIndex, Register!CurrentIndex,
      ReadIndex, Register!ReadIndex
  <1>3. WriteInv /\ [WriteNext]_writeVars => [Register!Next]_<<Seen, outcome>>
    BY <1>2, StepSeen DEF Register!Next, Register!Write, Seen
  <1> QED BY <1>1, <1>3, WriteSpecInv, PTL
          DEF WriteSpec, WritesAreAtomicToTheCaller, Register!Spec, Seen
===============================================================================
