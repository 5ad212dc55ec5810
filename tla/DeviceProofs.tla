----------------------------- MODULE DeviceProofs -----------------------------
(* Boot: a device keeps its identity, a first write of it that was cut short *)
(* can be repeated, panics that go unheeded lead to DFU, and the flash array *)
(* is given one operation at a time, for every record length, threshold and  *)
(* number of faults and resets.                                              *)
(* Comms: the session is handed what was sent, in the order it was sent, and *)
(* answers are heard without gaps, for every length of frames, packets and   *)
(* buffer, every way to misread bytes and any number of restarts.            *)
EXTENDS Boot, Comms, TLAPS, FiniteSetTheorems, SequenceTheorems, WellFoundedInduction

-------------------------------------------------------------------------------
\* Nothing but Start gives the array something to do, and Settle let it.
StartIsAlone ==
  /\ call = [phase |-> call.phase, todo |-> call.todo]
  /\ call.phase = "start" => op = NoOp

LEMMA StartIsAloneKeeps == StartIsAlone /\ [Next]_vars => StartIsAlone'
<1> SUFFICES ASSUME StartIsAlone, [Next]_vars PROVE StartIsAlone'
  OBVIOUS
<1> USE DEF StartIsAlone
<1>1. CASE UNCHANGED flashVars
  BY <1>1 DEF flashVars
<1>2. CASE FlashStep
  <2>1. CASE Complete \/ FailOp \/ SpinOut
    BY <2>1 DEF Complete, FailOp, SpinOut, Refused, Resting
  <2>2. CASE Prologue \/ Settle \/ Start
    BY <2>2 DEF Prologue, Settle, ArrayIdle, Start, Refused, Resting
  <2>3. CASE WaitDone
    BY <2>3 DEF WaitDone, Refused, Resting
  <2> QED
    BY <1>2, <2>1, <2>2, <2>3 DEF FlashStep, DriverStep
<1>3. ASSUME NEW ops, Begin(ops) PROVE StartIsAlone'
  BY <1>3 DEF Begin, Refused, Resting
<1>4. CASE CutShort
  BY <1>4 DEF CutShort, Resting
<1>5. CASE IdentityStep
  <2>1. CASE Read \/ Verify
    BY <1>1, <2>1 DEF Read, Verify
  <2>2. CASE NoScalar \/ Wrote
    BY <2>2 DEF NoScalar, Wrote
  <2>3. CASE Write
    BY <1>3, <2>3 DEF Write
  <2> QED
    BY <1>5, <2>1, <2>2, <2>3 DEF IdentityStep
<1>6. CASE Boot
  BY <1>1, <1>5, <1>6 DEF Boot, ReadHealth, BringUp, Entropy, Identify, Identified
<1>7. CASE Packet \/ Panic \/ PanicAgain
  BY <1>1, <1>7 DEF Packet, Panic, PanicAgain
<1>8. CASE Store
  BY <1>3, <1>8 DEF Store
<1>9. CASE Handle
  BY <1>1, <1>4, <1>9 DEF Handle, LoadDepth, StoreDepth, BumpPanics, Act
<1>10. CASE PowerCut
  BY <1>4, <1>10 DEF PowerCut
<1> QED
  BY <1>1, <1>2, <1>6, <1>7, <1>8, <1>9, <1>10 DEF Next, Flash, vars

\* The driver never starts an operation on top of one that still runs, not
\* even after it gave up waiting for that one (sr_prologue, flash.rs).
THEOREM ArrayIsNeverOverrun == Spec => OperationsAreAlone
<1>1. Init => StartIsAlone
  BY DEF Init, FlashInit, StartIsAlone, Resting
<1>2. ASSUME StartIsAlone, [Next]_vars
      PROVE  [op' # op => (op = NoOp \/ op' = NoOp)]_vars
  <2>1. CASE UNCHANGED op
    BY <2>1
  <2>2. CASE FlashStep
    BY <1>2, <2>2 DEF StartIsAlone, FlashStep, Complete, FailOp, SpinOut, DriverStep, Prologue,
       Settle, Start, WaitDone
  <2>3. CASE CutShort
    BY <2>3 DEF CutShort
  <2>4. CASE Boot
    BY <2>1, <2>4 DEF Boot, ReadHealth, BringUp, Entropy, Identify, Identified, IdentityStep,
       Read, Verify, NoScalar, Wrote, Write, Begin, flashVars
  <2>5. CASE Packet \/ Panic \/ PanicAgain \/ Store
    BY <2>1, <2>5 DEF Packet, Panic, PanicAgain, Store, Begin, flashVars
  <2>6. CASE Handle \/ PowerCut
    BY <2>1, <2>3, <2>6 DEF Handle, LoadDepth, StoreDepth, BumpPanics, Act, PowerCut, flashVars
  <2> QED
    BY <1>2, <2>2, <2>4, <2>5, <2>6 DEF Next, Flash
<1> QED
  BY <1>1, <1>2, StartIsAloneKeeps, PTL DEF Spec, OperationsAreAlone

-------------------------------------------------------------------------------
\* As long as the backup domain works, the counter covers the streak.
CounterCovers ==
  /\ panics \in 0 .. CounterMax /\ streak \in 0 .. CounterMax
  /\ alive => streak <= panics

LEMMA CounterCoversKeeps == CounterCovers /\ [Next]_vars => CounterCovers'
<1> SUFFICES ASSUME CounterCovers, [Next]_vars PROVE CounterCovers'
  OBVIOUS
<1> USE BootAssumption DEF CounterCovers
<1>1. CASE UNCHANGED <<panics, streak, alive>>
  BY <1>1
<1>2. CASE Boot \/ Store \/ Flash \/ Panic \/ PanicAgain \/ LoadDepth \/ StoreDepth
  BY <1>1, <1>2 DEF Boot, ReadHealth, BringUp, Entropy, Identify, Identified, bootVars, Store,
     Flash, Panic, PanicAgain, LoadDepth, StoreDepth
<1>3. CASE Packet
  BY <1>3 DEF Packet
<1>4. CASE BumpPanics
  BY <1>4 DEF BumpPanics, Bumped
<1>5. CASE Act
  BY <1>1, <1>5 DEF Act, Off
<1>6. CASE PowerCut
  BY <1>6 DEF PowerCut, Off
<1> QED
  BY <1>1, <1>2, <1>3, <1>4, <1>5, <1>6 DEF Next, Handle, vars, bootVars

\* As many panics as the threshold, with no packet handled in between, and the
\* handler tries DFU instead of one more reset (panic_action, panic.rs).
THEOREM PanicsLeadToDfu == Spec => []PanicsAccumulate
<1>1. Init => CounterCovers
  BY BootAssumption DEF Init, CounterCovers
<1>2. CounterCovers => PanicsAccumulate
  BY BootAssumption DEF CounterCovers, PanicsAccumulate, TriesDfu, PastThreshold, Count
<1> QED
  BY <1>1, <1>2, CounterCoversKeeps, PTL DEF Spec

-------------------------------------------------------------------------------
(* The identity.  Once announced it is on flash, but for one doubleword that *)
(* may have decayed; nothing under way touches its page, so a boot finds the *)
(* same key or a damaged record, never a vacant one.                         *)
Full(s) == [i \in 1 .. Words |-> IF i = Words THEN Commit ELSE <<s, i>>]

Whole(s) == \A i \in 1 .. Words : Record[i] = Full(s)[i]

KeptBut(s, record) ==
  \E j \in 1 .. Words :
    /\ \A i \in 1 .. Words \ {j} : record[i] = Full(s)[i]
    /\ record[j] \in {Full(s)[j], Torn, TornOurs}

CellTypes == cells = [p \in Pages |-> [w \in 1 .. Words |-> cells[p][w]]]

OkMeansDone == result = "ok" => call = Resting /\ op = NoOp

Writing == {"erase", "body", "commit"}

\* What the driver may be doing while the identity is not being written.
OtherOps == [page: Pages \ {"identity"}, word: Nat, value: {Erased, Torn}]

Elsewhere ==
  /\ op = NoOp \/ op \in OtherOps
  /\ call = [phase |-> call.phase, todo |-> call.todo]
  /\ call.todo \in Seq(OtherOps)
  /\ call.phase # "rest" => call.todo # <<>>

InItsStage ==
  /\ stage \in {"entry", "usb", "key", "entropy", "flash"} => load = "off"
  /\ stage \in {"session", "loop"} => load = "known"

OneIdentity ==
  \/ announced = {}
  \/ \E s \in Secrets : /\ announced = {s}
                        /\ load \notin Writing \cup {"verify", "fault"}
                        /\ KeptBut(s, Record)
                        /\ rots = 0 => Whole(s)

Calm ==
  /\ CellTypes /\ OkMeansDone /\ InItsStage
  /\ load \notin Writing \cup {"fault"} => Elsewhere
  /\ rots \in 0 .. MaxRots

LEMMA IdInit == Init => Calm /\ OneIdentity
<1> SUFFICES ASSUME Init PROVE Calm /\ OneIdentity
  OBVIOUS
<1> USE IdentityAssumption DEF Init, FlashInit, IdentityInit
<1>1. CellTypes
  BY DEF CellTypes
<1>2. OkMeansDone /\ InItsStage /\ OneIdentity
  BY DEF OkMeansDone, InItsStage, OneIdentity
<1>3. Elsewhere
  BY DEF Elsewhere, Resting
<1> QED
  BY <1>1, <1>2, <1>3 DEF Calm

\* What touches neither the flash nor the identity.
LEMMA AsideKeeps ==
  ASSUME Calm, UNCHANGED <<flashVars, load, announced, rots>>, InItsStage'
  PROVE  Calm' /\ (OneIdentity => OneIdentity')
BY DEF Calm, flashVars, CellTypes, OkMeansDone, OneIdentity, Elsewhere, Whole, Record

\* The array, at work elsewhere, leaves the record as it is.
LEMMA AfterElsewhere ==
  ASSUME CellTypes, NEW v
  PROVE  /\ After(op, v) = [p \in Pages |-> [w \in 1 .. Words |-> After(op, v)[p][w]]]
         /\ op = NoOp \/ op \in OtherOps => After(op, v)["identity"] = cells["identity"]
<1> USE IdentityAssumption, FlashAssumption DEF CellTypes, After
<1>1. After(op, v) = [p \in Pages |-> [w \in 1 .. Words |-> After(op, v)[p][w]]]
  OBVIOUS
<1>2. op = NoOp \/ op \in OtherOps => op.page # "identity"
  BY DEF NoOp, OtherOps
<1> QED
  BY <1>1, <1>2

LEMMA FlashKeepsIdentity ==
  ASSUME Calm, FlashStep, UNCHANGED <<load, announced, rots, stage>>
  PROVE  Calm' /\ (OneIdentity => OneIdentity')
<1> USE DEF Calm
<1>1. CellTypes'
  <2>1. CASE Complete \/ FailOp
    <3>1. cells' = cells \/ \E v : cells' = After(op, v)
      BY <2>1 DEF Complete, FailOp
    <3>2. \A v : After(op, v) = [p \in Pages |-> [w \in 1 .. Words |-> After(op, v)[p][w]]]
      BY AfterElsewhere
    <3>3. CASE cells' = cells
      BY <3>3 DEF CellTypes
    <3>4. ASSUME NEW v, cells' = After(op, v) PROVE CellTypes'
      <4>1. cells' = [p \in Pages |-> [w \in 1 .. Words |-> cells'[p][w]]]
        BY <3>2, <3>4
      <4> QED
        BY <4>1 DEF CellTypes
    <3> QED
      BY <3>1, <3>3, <3>4
  <2>2. CASE DriverStep \/ SpinOut
    BY <2>2 DEF CellTypes, DriverStep, Prologue, Settle, Start, WaitDone, SpinOut
  <2> QED
    BY <2>1, <2>2 DEF FlashStep
<1>2. OkMeansDone'
  BY DEF OkMeansDone, FlashStep, Complete, FailOp, DriverStep, Prologue, Settle, Start, WaitDone,
     SpinOut, Refused, Resting
<1>3. ASSUME Elsewhere
      PROVE  Elsewhere' /\ Record' = Record
  <2> USE <1>3 DEF Elsewhere, Record
  <2>1. CASE Complete \/ FailOp
    <3>1. cells' = cells \/ \E v : cells' = After(op, v)
      BY <2>1 DEF Complete, FailOp
    <3>2. \A v : After(op, v)["identity"] = cells["identity"]
      BY AfterElsewhere
    <3>3. op' = NoOp /\ call' = call
      BY <2>1 DEF Complete, FailOp
    <3> QED
      BY <3>1, <3>2, <3>3
  <2>2. CASE Prologue \/ Settle
    <3>1. UNCHANGED <<cells, op>>
      BY <2>2 DEF Prologue, Settle
    <3>2. CASE call' = Resting
      BY <3>1, <3>2 DEF Resting
    <3>3. CASE \E phase \in {"settle", "start"} : call' = [call EXCEPT !.phase = phase] /\ call.phase # "rest"
      BY <3>1, <3>3
    <3> QED
      BY <2>2, <3>2, <3>3 DEF Prologue, Settle, Refused
  <2>3. CASE Start
    <3>1. Head(call.todo) \in OtherOps
      BY <2>3 DEF Start
    <3> QED
      BY <2>3, <3>1 DEF Start
  <2>4. CASE WaitDone
    <3>1. UNCHANGED <<cells, op>>
      BY <2>4 DEF WaitDone
    <3>2. CASE call' = Resting
      BY <3>1, <3>2 DEF Resting
    <3>3. CASE Len(call.todo) > 1 /\ call' = [phase |-> "prologue", todo |-> Tail(call.todo)]
      <4>1. Tail(call.todo) \in Seq(OtherOps) /\ Len(Tail(call.todo)) = Len(call.todo) - 1
        BY <3>3
      <4>2. Tail(call.todo) # <<>>
        <5> HIDE <1>3 DEF Elsewhere
        <5>1. Len(Tail(call.todo)) # 0
          BY <3>3, <4>1
        <5>2. Len(<<>>) = 0
          OBVIOUS
        <5> QED
          BY <5>1, <5>2
      <4> QED
        BY <3>1, <3>3, <4>1, <4>2
    <3> QED
      BY <2>4, <3>2, <3>3 DEF WaitDone, Refused
  <2>5. CASE SpinOut
    BY <2>5 DEF SpinOut, Refused, Resting
  <2> QED
    BY <2>1, <2>2, <2>3, <2>4, <2>5 DEF FlashStep, DriverStep
<1>4. OneIdentity => OneIdentity'
  BY <1>3 DEF OneIdentity, Whole, Writing
<1>5. InItsStage'
  BY DEF InItsStage
<1> QED
  BY <1>1, <1>2, <1>3, <1>4, <1>5

\* A call that only starts.
LEMMA BeginKeepsIdentity ==
  ASSUME Calm, NEW ops, Begin(ops), UNCHANGED <<load, announced, rots, stage>>,
         load \notin Writing => ops \in Seq(OtherOps) /\ ops # <<>>
  PROVE  Calm' /\ (OneIdentity => OneIdentity')
<1> USE DEF Calm, Begin
<1>1. CellTypes' /\ OkMeansDone'
  BY DEF CellTypes, OkMeansDone, Refused
<1>2. ASSUME load \notin Writing \cup {"fault"}
      PROVE  Elsewhere'
  <2>1. op' = op /\ call' \in {Resting, [phase |-> "prologue", todo |-> ops]}
    BY DEF Refused
  <2>2. ops \in Seq(OtherOps) /\ ops # <<>> /\ (op = NoOp \/ op \in OtherOps)
    BY <1>2 DEF Elsewhere
  <2>3. CASE call' = Resting
    BY <2>1, <2>2, <2>3 DEF Elsewhere, Resting
  <2>4. CASE call' = [phase |-> "prologue", todo |-> ops]
    BY <2>1, <2>2, <2>4 DEF Elsewhere
  <2> QED
    BY <2>1, <2>3, <2>4
<1>3. (OneIdentity => OneIdentity') /\ InItsStage'
  BY DEF OneIdentity, InItsStage, Whole, Record
<1> QED
  BY <1>1, <1>2, <1>3

\* The reader of a record of which at most one doubleword has decayed.
LEMMA SameOrDamaged ==
  ASSUME NEW s \in Secrets, KeptBut(s, Record)
  PROVE  /\ Classify = "valid" => IntactBodies \subseteq {s}
         /\ Classify # "vacant"
<1> USE FlashAssumption
<1>1. PICK j \in 1 .. Words :
        /\ \A i \in 1 .. Words \ {j} : Record[i] = Full(s)[i]
        /\ Record[j] \in {Full(s)[j], Torn, TornOurs}
  BY DEF KeptBut
<1>2. ASSUME NEW t \in IntactBodies PROVE t = s
  <2>1. 1 \in 1 .. Words - 1 /\ Record[1] = <<t, 1>>
    BY <1>2 DEF IntactBodies, Body
  <2>2. Record[1] \in {Full(s)[1], Torn, TornOurs} /\ Full(s)[1] = <<s, 1>>
    BY <1>1 DEF Full
  <2> QED
    BY <2>1, <2>2 DEF Torn, TornOurs
<1>3. Classify # "vacant"
  <2>1. CASE j = Words
    <3>1. \A i \in 1 .. Words - 1 : i \in 1 .. Words \ {j} /\ Full(s)[i] = <<s, i>>
      BY <2>1 DEF Full
    <3>2. s \in IntactBodies
      BY <1>1, <3>1 DEF IntactBodies, Body
    <3> QED
      BY <3>2 DEF Classify
  <2>2. CASE j # Words
    <3>0. Words \in 1 .. Words
      OBVIOUS
    <3>1. Record[Words] = Full(s)[Words] /\ Full(s)[Words] = Commit
      BY <1>1, <2>2, <3>0 DEF Full
    <3> QED
      BY <3>1 DEF Classify
  <2> QED
    BY <2>1, <2>2
<1> QED
  BY <1>2, <1>3

\* A valid record is all there.
LEMMA ValidIsWhole ==
  ASSUME NEW s \in IntactBodies, Classify = "valid"
  PROVE  s \in Secrets /\ Whole(s) /\ KeptBut(s, Record)
<1> USE FlashAssumption
<1>1. Record[Words] = Commit
  BY DEF Classify
<1>2. s \in Secrets /\ \A i \in 1 .. Words - 1 : Record[i] = <<s, i>>
  BY DEF IntactBodies, Body
<1>3. Whole(s)
  <2> SUFFICES ASSUME NEW i \in 1 .. Words PROVE Record[i] = Full(s)[i]
    BY DEF Whole
  <2>1. CASE i = Words
    BY <1>1, <2>1 DEF Full
  <2>2. CASE i # Words
    <3>1. i \in 1 .. Words - 1
      BY <2>2
    <3> QED
      BY <1>2, <2>2, <3>1 DEF Full
  <2> QED
    BY <2>1, <2>2
<1>4. KeptBut(s, Record)
  <2>1. 1 \in 1 .. Words
    OBVIOUS
  <2> QED
    BY <1>3, <2>1 DEF KeptBut, Whole
<1> QED
  BY <1>2, <1>3, <1>4

LEMMA IdentifyKeeps ==
  ASSUME Calm, Identify
  PROVE  Calm' /\ (OneIdentity => OneIdentity')
<1> USE DEF Calm
<1>0. UNCHANGED <<stage, rots>> /\ stage = "identity"
  BY DEF Identify, bootVars, IdentityStep, Read, NoScalar, Write, identityVars, Wrote, Verify
<1>1. CASE Read
  <2>1. UNCHANGED <<cells, op, call, result>>
    BY <1>1 DEF Read, flashVars
  <2>2. ASSUME NEW s \in Secrets, announced = {s}, KeptBut(s, Record)
        PROVE  announced' = {s} /\ load' \in {"known", "damaged"}
    <3>1. CASE Classify = "valid"
      BY <1>1, <2>2, <3>1, SameOrDamaged DEF Read
    <3>2. CASE Classify = "damaged"
      BY <1>1, <2>2, <3>2 DEF Read
    <3> QED
      BY <2>2, <3>1, <3>2, SameOrDamaged DEF Classify
  <2>3. ASSUME announced = {}, announced' # {}
        PROVE  \E s \in Secrets : announced' = {s} /\ KeptBut(s, Record) /\ Whole(s) /\ load' = "known"
    <3>1. Classify = "valid"
      BY <1>1, <2>3 DEF Read, Classify
    <3>2. secret' \in IntactBodies /\ announced' = {secret'} /\ load' = "known"
      BY <1>1, <2>3, <3>1 DEF Read
    <3> QED
      BY <3>1, <3>2, ValidIsWhole
  <2>4. OneIdentity => OneIdentity'
    BY <1>0, <2>1, <2>2, <2>3 DEF OneIdentity, Record, Whole, Writing
  <2>5. load = "read"
    BY <1>1 DEF Read
  <2> QED
    BY <1>0, <2>1, <2>4, <2>5 DEF CellTypes, OkMeansDone, InItsStage, Elsewhere, Writing
<1>2. CASE NoScalar
  <2>1. UNCHANGED <<cells, op, call, result, announced>> /\ load' = "fault" /\ Classify = "vacant"
    BY <1>2 DEF NoScalar
  <2>2. OneIdentity => announced = {}
    BY <2>1, SameOrDamaged DEF OneIdentity
  <2> QED
    BY <1>0, <2>1, <2>2 DEF CellTypes, OkMeansDone, InItsStage, OneIdentity
<1>3. CASE Write
  <2>1. load \in Writing /\ UNCHANGED <<load, announced>> /\ Begin(Writes[load])
    BY <1>3 DEF Write, Writes, Writing, identityVars
  <2> QED
    BY <1>0, <2>1, BeginKeepsIdentity
<1>4. CASE Wrote
  <2>1. /\ load \in Writing /\ result' = "none" /\ UNCHANGED <<cells, op, call, announced>>
        /\ load' = IF result = "ok" THEN Then[load] ELSE "fault"
    BY <1>4 DEF Wrote, Writes, Writing
  <2>2. OneIdentity => announced = {}
    BY <2>1 DEF OneIdentity
  <2>3. load' \notin Writing \cup {"fault"} => call = Resting /\ op = NoOp
    BY <2>1 DEF OkMeansDone
  <2>4. ASSUME load' \notin Writing \cup {"fault"}
        PROVE  Elsewhere'
    <3>1. call' = [phase |-> "rest", todo |-> <<>>] /\ op' = NoOp
      BY <2>1, <2>3, <2>4 DEF Resting
    <3> QED
      BY <3>1 DEF Elsewhere
  <2> QED
    BY <1>0, <2>1, <2>2, <2>4 DEF CellTypes, OkMeansDone, InItsStage, OneIdentity
<1>5. CASE Verify
  <2>1. /\ load = "verify" /\ UNCHANGED <<cells, op, call, result>>
        /\ OneIdentity => announced = {}
    BY <1>5 DEF Verify, flashVars, OneIdentity
  <2>2. CASE /\ load' = "known" /\ announced' = announced \cup {secret}
             /\ Classify = "valid" /\ secret \in IntactBodies
    <3>1. secret \in Secrets /\ Whole(secret) /\ KeptBut(secret, Record)
      BY <2>2, ValidIsWhole
    <3>2. OneIdentity => OneIdentity'
      BY <2>1, <2>2, <3>1 DEF OneIdentity, Whole, Record, Writing
    <3> QED
      BY <1>0, <2>1, <2>2, <3>2 DEF CellTypes, OkMeansDone, InItsStage, Elsewhere, Writing
  <2>3. CASE load' = "fault" /\ announced' = announced
    BY <1>0, <2>1, <2>3 DEF CellTypes, OkMeansDone, InItsStage, OneIdentity
  <2> QED
    BY <1>5, <2>1, <2>2, <2>3 DEF Verify
<1> QED
  BY <1>1, <1>2, <1>3, <1>4, <1>5 DEF Identify, IdentityStep

\* A reset in the middle of anything, with or without decay.
LEMMA CutKeeps ==
  ASSUME Calm, NEW c \in CutCells, cells' \in Decayed(c), InItsStage',
         cells' \in CutCells => rots' = rots,
         cells' \notin CutCells => rots' = rots + 1 /\ rots < MaxRots,
         CutShort, load' = "off", UNCHANGED announced
  PROVE  /\ Calm'
         /\ OneIdentity /\ (cells' \in CutCells \/ rots = 0) => OneIdentity'
<1> USE IdentityAssumption DEF Calm
<1>1. ASSUME NEW k \in CutCells
      PROVE  /\ k = [p \in Pages |-> [w \in 1 .. Words |-> k[p][w]]]
             /\ OneIdentity /\ announced # {} => k["identity"] = Record
  <2>1. OneIdentity /\ announced # {} => op = NoOp \/ op \in OtherOps
    BY DEF OneIdentity, Elsewhere
  <2>2. CASE k = cells
    BY <2>2 DEF CellTypes, Record
  <2>3. CASE \E v : k = After(op, v)
    <3>1. PICK v : k = After(op, v)
      BY <2>3
    <3>2. /\ After(op, v) = [p \in Pages |-> [w \in 1 .. Words |-> After(op, v)[p][w]]]
          /\ op = NoOp \/ op \in OtherOps => After(op, v)["identity"] = cells["identity"]
      BY AfterElsewhere
    <3> QED
      BY <2>1, <3>1, <3>2 DEF Record
  <2> QED
    BY <2>2, <2>3 DEF CutCells
<1>2. CellTypes'
  <2>1. c = [p \in Pages |-> [w \in 1 .. Words |-> c[p][w]]]
    BY <1>1
  <2>2. CASE cells' = c
    BY <2>1, <2>2 DEF CellTypes
  <2>3. ASSUME NEW w \in 1 .. Words, NEW v, cells' = [c EXCEPT !["identity"][w] = v]
        PROVE  CellTypes'
    <3>1. cells' = [p \in Pages |-> [i \in 1 .. Words |-> cells'[p][i]]]
      BY <2>1, <2>3
    <3> QED
      BY <3>1 DEF CellTypes
  <2> QED
    BY <2>2, <2>3 DEF Decayed
<1>3. OkMeansDone' /\ Elsewhere'
  BY DEF CutShort, OkMeansDone, Elsewhere, Resting
<1>4. rots' \in 0 .. MaxRots
  OBVIOUS
<1>5. ASSUME cells' \in CutCells \/ rots = 0, OneIdentity,
             NEW s \in Secrets, announced = {s}, KeptBut(s, Record), rots = 0 => Whole(s)
      PROVE  KeptBut(s, Record)' /\ (rots' = 0 => Whole(s)')
  <2>1. CASE cells' \in CutCells
    BY <1>1, <1>5, <2>1 DEF KeptBut, Whole, Record, Full
  <2>2. CASE cells' \notin CutCells
    <3>1. PICK w \in 1 .. Words, v \in {Torn, TornOurs} : cells' = [c EXCEPT !["identity"][w] = v]
      BY <2>2 DEF Decayed
    <3>2. c["identity"] = Record /\ Whole(s)
      BY <1>1, <1>5, <2>2
    <3>3. /\ \A i \in 1 .. Words \ {w} : cells'["identity"][i] = Full(s)[i]
          /\ cells'["identity"][w] = v
      <4>1. c = [p \in Pages |-> [i \in 1 .. Words |-> c[p][i]]]
        BY <1>1
      <4>2. /\ \A i \in 1 .. Words \ {w} : cells'["identity"][i] = c["identity"][i]
            /\ cells'["identity"][w] = v
        BY <3>1, <4>1
      <4> QED
        BY <3>2, <4>2 DEF Whole
    <3>4. KeptBut(s, Record)'
      BY <3>3 DEF KeptBut, Record, Full
    <3> QED
      BY <2>2, <3>4
  <2> QED
    BY <2>1, <2>2
<1>6. OneIdentity /\ (cells' \in CutCells \/ rots = 0) => OneIdentity'
  BY <1>5 DEF OneIdentity, Writing
<1> QED
  BY <1>2, <1>3, <1>4, <1>6

LEMMA IdKeeps ==
  ASSUME Calm, [Next]_vars
  PROVE  Calm' /\ (OneIdentity /\ MaxRots <= 1 => OneIdentity')
<1>1. CASE UNCHANGED vars \/ ReadHealth \/ Entropy \/ Packet \/ Panic \/ PanicAgain
           \/ LoadDepth \/ StoreDepth \/ BumpPanics
  <2>1. UNCHANGED <<flashVars, load, announced, rots>>
    BY <1>1 DEF vars, identityVars, ReadHealth, Entropy, Packet, Panic, PanicAgain, LoadDepth,
       StoreDepth, BumpPanics
  <2>2. InItsStage'
    BY <1>1 DEF Calm, InItsStage, vars, identityVars, bootVars, ReadHealth, Entropy, Packet,
       Panic, PanicAgain, LoadDepth, StoreDepth, BumpPanics
  <2> QED
    BY <2>1, <2>2, AsideKeeps
<1>2. CASE BringUp
  <2>1. UNCHANGED <<flashVars, announced, rots>>
    BY <1>2 DEF BringUp
  <2>2. CASE stage = "flash"
    <3>1. load = "off" /\ load' = "read" /\ stage' = "identity"
      BY <1>2, <2>2 DEF BringUp, Follows, Calm, InItsStage
    <3>2. InItsStage'
      BY <3>1 DEF InItsStage
    <3> QED
      BY <2>1, <3>1, <3>2 DEF Calm, flashVars, CellTypes, OkMeansDone, OneIdentity, Elsewhere,
         Whole, Record, Writing
  <2>3. CASE stage # "flash"
    <3>1. UNCHANGED load /\ InItsStage'
      BY <1>2, <2>3 DEF BringUp, Follows, Calm, InItsStage
    <3> QED
      BY <2>1, <3>1, AsideKeeps
  <2> QED
    BY <2>2, <2>3
<1>3. CASE Identify
  BY <1>3, IdentifyKeeps
<1>4. CASE Identified
  <2>1. UNCHANGED <<flashVars, load, announced, rots>> /\ InItsStage'
    BY <1>4 DEF Identified, identityVars, InItsStage
  <2> QED
    BY <2>1, AsideKeeps
<1>5. CASE Store
  <2>1. PICK ops \in {ProgramOps("store", 1, [w \in 1 .. Words |-> Torn]), <<EraseOp("store")>>} :
          Begin(ops)
    BY <1>5 DEF Store
  <2>2. ops \in Seq(OtherOps) /\ ops # <<>>
    <3>1. CASE ops = <<EraseOp("store")>>
      BY <3>1, BootAssumption DEF EraseOp, OtherOps
    <3>2. CASE ops = ProgramOps("store", 1, [w \in 1 .. Words |-> Torn])
      <4>1. Len([w \in 1 .. Words |-> Torn]) = Words
        BY FlashAssumption
      <4>2. ops = [i \in 1 .. Words |-> [page |-> "store", word |-> i, value |-> Torn]]
        BY <3>2, <4>1, FlashAssumption DEF ProgramOps
      <4>3. \A i \in 1 .. Words : [page |-> "store", word |-> i, value |-> Torn] \in OtherOps
        BY FlashAssumption, BootAssumption DEF OtherOps
      <4>4. ops \in Seq(OtherOps) /\ Len(ops) = Words
        BY <4>2, <4>3, FlashAssumption
      <4> QED
        BY <4>4, FlashAssumption
    <3> QED
      BY <3>1, <3>2
  <2>3. UNCHANGED <<load, announced, rots, stage>>
    BY <1>5 DEF Store, identityVars, bootVars
  <2> QED
    BY <2>1, <2>2, <2>3, BeginKeepsIdentity
<1>6. CASE Flash
  BY <1>6, FlashKeepsIdentity DEF Flash, identityVars, bootVars
<1>7. CASE Act
  <2>1. InItsStage'
    BY <1>7 DEF Act, Off, InItsStage
  <2> QED
    BY <1>7, <2>1, CutKeeps DEF Act, Off, Decayed
<1>8. CASE PowerCut
  <2>1. PICK c \in CutCells : cells' \in IF rots < MaxRots THEN Decayed(c) ELSE {c}
    BY <1>8 DEF PowerCut
  <2>4. InItsStage' /\ cells' \in Decayed(c) /\ (cells' \notin CutCells => rots < MaxRots)
    BY <1>8, <2>1 DEF PowerCut, Off, InItsStage, Decayed
  <2>2. /\ rots' = IF cells' \in CutCells THEN rots ELSE rots + 1
        /\ CutShort /\ load' = "off" /\ UNCHANGED announced
    BY <1>8 DEF PowerCut, Off
  <2>3. MaxRots <= 1 /\ rots < MaxRots => rots = 0
    BY IdentityAssumption DEF Calm
  <2> QED
    BY <2>1, <2>2, <2>3, <2>4, CutKeeps
<1> QED
  BY <1>1, <1>2, <1>3, <1>4, <1>5, <1>6, <1>7, <1>8 DEF Next, Boot, Handle

\* Whatever writes were cut short or refused or came late, and with one
\* doubleword of the record decayed at any time: a device that once had an
\* identity never takes another (load_or_create, identity.rs).
THEOREM OneIdentityForever ==
  ASSUME MaxRots <= 1
  PROVE  Spec => []IdentityIsStable
<1>1. (Calm /\ OneIdentity) /\ [Next]_vars => (Calm /\ OneIdentity)'
  BY IdKeeps
<1>2. (Calm /\ OneIdentity) => IdentityIsStable
  <2> SUFFICES ASSUME OneIdentity PROVE Cardinality(announced) <= 1
    BY DEF IdentityIsStable
  <2>1. announced = {} \/ \E s : announced = {s}
    BY DEF OneIdentity
  <2>2. CASE announced = {}
    <3>1. Cardinality(announced) = 0
      BY <2>2, FS_EmptySet
    <3> QED
      BY <3>1
  <2>3. CASE \E s : announced = {s}
    <3>1. Cardinality(announced) = 1
      BY <2>3, FS_Singleton
    <3> QED
      BY <3>1
  <2> QED
    BY <2>1, <2>2, <2>3
<1> QED
  BY IdInit, <1>1, <1>2, PTL DEF Spec

-------------------------------------------------------------------------------
(* A write of the record goes on one operation at a time, and what it has    *)
(* done so far is what it meant to do: that a body lies whole under every    *)
(* commit word rests on it.  A doubleword that decays ends all of this.      *)

\* The first n doublewords of the record are ours, and nothing follows.
Ours(n) == \A i \in 1 .. Words : Record[i] = IF i <= n THEN <<secret, i>> ELSE Erased

\* The operations of a write: how many, the n-th, and what n of them achieve.
Total == IF load = "body" THEN Words - 1 ELSE 1

Nth(n) ==
  CASE load = "erase" -> EraseOp("identity")
    [] load = "body" -> [page |-> "identity", word |-> n, value |-> <<secret, n>>]
    [] OTHER -> [page |-> "identity", word |-> Words, value |-> Commit]

Holds(n) ==
  /\ load = "erase" /\ n = 1 => Ours(0)
  /\ load = "body" => Ours(n)
  /\ load = "commit" => secret \in IntactBodies

Left(n) ==
  /\ call.todo \in Seq({Nth(i) : i \in 1 .. Total})
  /\ Len(call.todo) = Total - n
  /\ \A i \in 1 .. Total - n : call.todo[i] = Nth(n + i)

AtWork(n) ==
  /\ Left(n) /\ result = "none"
  /\ \/ /\ call.phase \in {"prologue", "settle", "start"} /\ op = NoOp /\ Holds(n)
        /\ call.phase = "start" => ~latched
     \/ call.phase = "wait" /\ op = Nth(n + 1) /\ Holds(n) /\ ~latched
     \/ call.phase = "wait" /\ op = NoOp /\ (latched \/ Holds(n + 1))

Writer ==
  \/ call = Resting /\ op = NoOp /\ result = "none" /\ Holds(0)
  \/ call = Resting /\ op = NoOp /\ result = "ok" /\ Holds(Total)
  \/ call = Resting /\ result = "refused"
  \/ \E n \in 0 .. Total - 1 : AtWork(n)

SafeRecord == Record[Words] # TornOurs /\ (Record[Words] = Commit => IntactBodies # {})

SafeOp ==
  op.page = "identity" =>
     \/ op = EraseOp("identity")
     \/ op.word \in 1 .. Words - 1 /\ Record[Words] = Erased
     \/ op = [page |-> "identity", word |-> Words, value |-> Commit] /\ IntactBodies # {}

Quiet ==
  /\ load \in {"off", "read"} => op = NoOp /\ call = Resting /\ result = "none"
  /\ load \in {"verify", "fault"} => call = Resting

TornInv ==
  rots = 0 =>
    /\ SafeRecord /\ SafeOp /\ Quiet
    /\ load \in Writing => secret \in Secrets /\ Writer
    /\ load = "damaged" => IntactBodies # {}

\* What the array leaves of the record when an operation ends in value v.
LEMMA RecordAfter ==
  ASSUME CellTypes, NEW v, cells' = After(op, v)
  PROVE  /\ op.page # "identity" => Record' = Record
         /\ op.page = "identity" =>
              \A w \in 1 .. Words : Record'[w] = IF op.word \in {0, w} THEN v ELSE Record[w]
<1> USE IdentityAssumption DEF CellTypes, After, Record
<1>1. op.page # "identity" => Record' = Record
  OBVIOUS
<1>2. op.page = "identity" =>
        \A w \in 1 .. Words : Record'[w] = IF op.word \in {0, w} THEN v ELSE Record[w]
  OBVIOUS
<1> QED
  BY <1>1, <1>2

\* Wherever an operation ends, a commit word stands on a whole body only.
LEMMA SafeAfter ==
  ASSUME CellTypes, SafeRecord, SafeOp, NEW v \in {Torn, op.value}, cells' = After(op, v)
  PROVE  SafeRecord'
<1> USE FlashAssumption
<1>0. Words \in 1 .. Words /\ \A w \in 1 .. Words - 1 : w \in 1 .. Words /\ w # Words /\ w # 0
  OBVIOUS
<1>1. CASE op.page # "identity"
  BY <1>1, RecordAfter DEF SafeRecord, IntactBodies
<1>2. CASE op = EraseOp("identity")
  <2>1. Record'[Words] = v /\ v \in {Torn, Erased}
    BY <1>0, <1>2, RecordAfter DEF EraseOp
  <2> QED
    BY <2>1 DEF SafeRecord, Torn, Erased, Commit, TornOurs
<1>3. CASE op.page = "identity" /\ op.word \in 1 .. Words - 1 /\ Record[Words] = Erased
  <2>1. Record'[Words] = Erased
    BY <1>0, <1>3, RecordAfter
  <2> QED
    BY <2>1 DEF SafeRecord, Erased, Commit, TornOurs
<1>4. CASE op = [page |-> "identity", word |-> Words, value |-> Commit] /\ IntactBodies # {}
  <2>1. Record'[Words] = v /\ v \in {Torn, Commit}
    BY <1>0, <1>4, RecordAfter
  <2>2. \A w \in 1 .. Words - 1 : Record'[w] = Record[w]
    BY <1>0, <1>4, RecordAfter
  <2>3. IntactBodies' = IntactBodies
    BY <2>2 DEF IntactBodies
  <2> QED
    BY <1>4, <2>1, <2>3 DEF SafeRecord, Torn, Commit, TornOurs
<1> QED
  BY <1>1, <1>2, <1>3, <1>4 DEF SafeOp

\* A body that is all there is intact.
LEMMA OursIsIntact ==
  ASSUME secret \in Secrets, Ours(Words - 1)
  PROVE  secret \in IntactBodies
<1>1. ASSUME NEW i \in 1 .. Words - 1
      PROVE  Record[i] = <<secret, i>>
  <2>1. i \in 1 .. Words /\ i <= Words - 1
    BY FlashAssumption
  <2> QED
    BY <2>1 DEF Ours
<1> QED
  BY <1>1 DEF IntactBodies, Body

\* The next operation of a write is safe to start.
LEMMA NextIsSafe ==
  ASSUME load \in Writing, NEW n \in 0 .. Total - 1, Left(n), Holds(n)
  PROVE  /\ Head(call.todo) = Nth(n + 1)
         /\ \/ Nth(n + 1) = EraseOp("identity")
            \/ Nth(n + 1).word \in 1 .. Words - 1 /\ Record[Words] = Erased
            \/ /\ Nth(n + 1) = [page |-> "identity", word |-> Words, value |-> Commit]
               /\ IntactBodies # {}
<1> USE FlashAssumption
<1>0. Total \in Nat \ {0} /\ Words \in 1 .. Words
  BY DEF Total
<1>1. Head(call.todo) = Nth(n + 1)
  <2>1. Len(call.todo) = Total - n /\ call.todo[1] = Nth(n + 1)
    BY <1>0 DEF Left
  <2>2. call.todo # <<>>
    <3>1. Len(<<>>) = 0 /\ Len(call.todo) # 0
      BY <1>0, <2>1
    <3> QED
      BY <3>1
  <2>3. call.todo \in Seq({Nth(i) : i \in 1 .. Total})
    BY DEF Left
  <2>4. \A S : \A q \in Seq(S) : q # <<>> => Head(q) = q[1]
    OBVIOUS
  <2> QED
    BY <2>1, <2>2, <2>3, <2>4
<1>2. CASE load = "erase"
  <2>1. Nth(n + 1) = EraseOp("identity")
    BY <1>2 DEF Nth
  <2> QED
    BY <1>1, <2>1
<1>3. CASE load = "body"
  <2>1. n + 1 \in 1 .. Words - 1
    BY <1>3 DEF Total
  <2>2. Nth(n + 1).word = n + 1
    BY <1>3 DEF Nth
  <2>3. Record[Words] = Erased
    <3>1. \A w \in 1 .. Words : Record[w] = IF w <= n THEN <<secret, w>> ELSE Erased
      BY <1>3 DEF Holds, Ours
    <3>2. ~(Words <= n)
      BY <2>1
    <3> QED
      BY <1>0, <3>1, <3>2
  <2> QED
    BY <1>1, <2>1, <2>2, <2>3
<1>4. CASE load = "commit"
  BY <1>1, <1>4 DEF Nth, Holds
<1> QED
  BY <1>2, <1>3, <1>4 DEF Writing

\* An operation that comes to its end as it was meant is one more done.
LEMMA OneMore ==
  ASSUME CellTypes, load \in Writing, NEW n \in 0 .. Total - 1, op = Nth(n + 1), Holds(n),
         Complete, ~latched', UNCHANGED <<load, secret>>
  PROVE  Holds(n + 1)'
<1> USE FlashAssumption
<1>0. Words \in 1 .. Words /\ \A w \in 1 .. Words - 1 : w \in 1 .. Words /\ w # Words /\ w # 0
  OBVIOUS
<1>1. cells' = After(op, op.value)
  BY DEF Complete
<1>2. CASE load = "erase"
  <2>1. op = EraseOp("identity")
    BY <1>2 DEF Nth
  <2>2. \A w \in 1 .. Words : Record'[w] = Erased
    BY <1>1, <2>1, RecordAfter DEF EraseOp
  <2>3. Ours(0)'
    BY <2>2 DEF Ours
  <2> QED
    BY <1>2, <2>3 DEF Holds
<1>3. CASE load = "body"
  <2>1. op = [page |-> "identity", word |-> n + 1, value |-> <<secret, n + 1>>]
    BY <1>3 DEF Nth
  <2>2. \A w \in 1 .. Words :
          Record'[w] = IF n + 1 = w THEN <<secret, n + 1>> ELSE Record[w]
    BY <1>1, <2>1, RecordAfter
  <2>3. \A w \in 1 .. Words : Record[w] = IF w <= n THEN <<secret, w>> ELSE Erased
    BY <1>3 DEF Holds, Ours
  <2>4. Ours(n + 1)'
    BY <2>2, <2>3 DEF Ours
  <2> QED
    BY <1>3, <2>4 DEF Holds
<1>4. CASE load = "commit"
  <2>1. op = [page |-> "identity", word |-> Words, value |-> Commit]
    BY <1>4 DEF Nth
  <2>2. \A w \in 1 .. Words - 1 : Record'[w] = Record[w]
    BY <1>0, <1>1, <2>1, RecordAfter
  <2>3. IntactBodies' = IntactBodies
    BY <2>2 DEF IntactBodies
  <2>4. secret \in IntactBodies
    BY <1>4 DEF Holds
  <2> QED
    BY <1>4, <2>3, <2>4 DEF Holds
<1> QED
  BY <1>2, <1>3, <1>4 DEF Writing

\* What does not touch the record leaves what was achieved.
LEMMA HoldsKeeps ==
  ASSUME NEW n, UNCHANGED <<load, secret>>, Record' = Record
  PROVE  Holds(n) => Holds(n)'
BY DEF Holds, Ours, IntactBodies

\* Each step of the array or the driver carries the write on, or ends it.
LEMMA FlashWrites ==
  ASSUME CellTypes, load \in Writing, Writer, FlashStep, UNCHANGED <<load, secret>>
  PROVE  Writer'
<1> USE FlashAssumption
<1>0. Total \in Nat \ {0} /\ Total' = Total /\ \A i : Nth(i)' = Nth(i)
  BY DEF Total, Nth
<1>1. call = Resting => call.phase = "rest"
  BY DEF Resting
<1>2. CASE call = Resting
  <2>1. call' = call /\ result' = result
    BY <1>1, <1>2 DEF FlashStep, Complete, FailOp, DriverStep, Prologue, Settle, Start, WaitDone,
       SpinOut
  <2>2. CASE op = NoOp
    <3>1. op' = NoOp /\ cells' = cells
      BY <1>1, <1>2, <2>2 DEF FlashStep, Complete, FailOp, DriverStep, Prologue, Settle, Start,
         WaitDone, SpinOut
    <3>2. \A n : Holds(n) => Holds(n)'
      BY <3>1, HoldsKeeps DEF Record
    <3>3. ~\E n \in 0 .. Total - 1 : AtWork(n)
      BY <1>1, <1>2 DEF AtWork
    <3> QED
      BY <1>0, <1>2, <2>1, <3>1, <3>2, <3>3 DEF Writer
  <2>3. CASE op # NoOp
    <3>1. ~\E n \in 0 .. Total - 1 : AtWork(n)
      BY <1>1, <1>2 DEF AtWork
    <3>2. call = Resting /\ result = "refused"
      BY <1>2, <2>3, <3>1 DEF Writer
    <3> QED
      BY <2>1, <3>2 DEF Writer
  <2> QED
    BY <2>2, <2>3
<1>3. ASSUME NEW n \in 0 .. Total - 1, AtWork(n)
      PROVE  Writer'
  <2>0. call' = call => Left(n)'
    BY <1>0, <1>3 DEF AtWork, Left
  <2>1. CASE Complete
    <3>1. /\ call.phase = "wait" /\ op = Nth(n + 1) /\ Holds(n) /\ op' = NoOp
          /\ UNCHANGED <<call, result>>
      BY <1>3, <2>1 DEF AtWork, Complete
    <3>2. latched' \/ Holds(n + 1)'
      BY <2>1, <3>1, OneMore
    <3>3. AtWork(n)'
      BY <1>3, <2>0, <3>1, <3>2 DEF AtWork
    <3> QED
      BY <1>0, <3>3 DEF Writer
  <2>2. CASE FailOp
    <3>1. call.phase = "wait" /\ op' = NoOp /\ latched' /\ UNCHANGED <<call, result>>
      BY <1>3, <2>2 DEF AtWork, FailOp
    <3>2. AtWork(n)'
      BY <1>3, <2>0, <3>1 DEF AtWork
    <3> QED
      BY <1>0, <3>2 DEF Writer
  <2>3. CASE Refused
    BY <2>3 DEF Refused, Writer
  <2>4. CASE Prologue \/ (Settle /\ ~Refused)
    <3>1. \E phase \in {"settle", "start"} :
             /\ call' = [call EXCEPT !.phase = phase]
             /\ phase = "start" => ~latched'
      BY <2>4 DEF Prologue, Settle
    <3>2. op = NoOp /\ Holds(n) /\ UNCHANGED <<cells, op, result>>
      BY <1>3, <2>4 DEF AtWork, Prologue, Settle
    <3>3. Holds(n)'
      BY <3>2, HoldsKeeps DEF Record
    <3>4. Left(n)' /\ call'.phase \in {"settle", "start"} /\ (call'.phase = "start" => ~latched')
      BY <1>0, <1>3, <2>4, <3>1 DEF AtWork, Left
    <3>5. AtWork(n)'
      BY <1>3, <3>2, <3>3, <3>4 DEF AtWork
    <3> QED
      BY <1>0, <3>5 DEF Writer
  <2>5. CASE Start
    <3>1. Left(n) /\ Holds(n) /\ ~latched /\ result = "none"
      BY <1>3, <2>5 DEF AtWork, Start
    <3>2. op' = Nth(n + 1) /\ UNCHANGED <<cells, latched, result>>
      BY <2>5, <3>1, NextIsSafe DEF Start
    <3>3. Left(n)' /\ call'.phase = "wait"
      BY <1>0, <2>5, <3>1 DEF Start, Left
    <3>4. Holds(n)'
      BY <3>1, <3>2, HoldsKeeps DEF Record
    <3>5. AtWork(n)'
      BY <1>0, <3>1, <3>2, <3>3, <3>4 DEF AtWork
    <3> QED
      BY <1>0, <3>5 DEF Writer
  <2>6. CASE WaitDone /\ ~Refused
    <3>1. op = NoOp /\ ~latched /\ Holds(n + 1) /\ Left(n) /\ result = "none"
      <4>1. op = NoOp /\ ~latched /\ call.phase = "wait"
        BY <2>6 DEF WaitDone
      <4>2. Nth(n + 1) # NoOp
        BY DEF Nth, NoOp, EraseOp
      <4> QED
        BY <1>3, <4>1, <4>2 DEF AtWork
    <3>2. Holds(n + 1)' /\ op' = NoOp
      BY <2>6, <3>1, HoldsKeeps DEF WaitDone, Record
    <3>3. CASE Len(call.todo) = 1
      <4>1. n + 1 = Total
        BY <1>0, <3>1, <3>3 DEF Left
      <4>2. call' = Resting /\ result' = "ok"
        BY <2>6, <3>3 DEF WaitDone
      <4> QED
        BY <1>0, <3>2, <4>1, <4>2 DEF Writer
    <3>4. CASE Len(call.todo) > 1
      <4>1. call' = [phase |-> "prologue", todo |-> Tail(call.todo)] /\ result' = result
        <5>1. Len(call.todo) # 1
          BY <1>0, <3>1, <3>4 DEF Left
        <5> QED
          BY <2>6, <5>1 DEF WaitDone
      <4>2. n + 1 \in 0 .. Total - 1
        BY <1>0, <3>1, <3>4 DEF Left
      <4>3. Left(n + 1)'
        <5>1. call.todo \in Seq({Nth(i) : i \in 1 .. Total}) /\ Len(call.todo) = Total - n
          BY <3>1 DEF Left
        <5>2. /\ Tail(call.todo) \in Seq({Nth(i) : i \in 1 .. Total})
              /\ Len(Tail(call.todo)) = Total - (n + 1)
              /\ \A i \in 1 .. Total - (n + 1) : Tail(call.todo)[i] = call.todo[i + 1]
          BY <1>0, <3>4, <5>1
        <5>3. \A i \in 1 .. Total - (n + 1) : call.todo[i + 1] = Nth((n + 1) + i)
          BY <1>0, <3>1 DEF Left
        <5> QED
          BY <1>0, <4>1, <5>2, <5>3 DEF Left
      <4>4. AtWork(n + 1)'
        BY <3>1, <3>2, <4>1, <4>3 DEF AtWork
      <4> QED
        BY <1>0, <4>2, <4>4 DEF Writer
    <3> QED
      BY <2>6, <3>3, <3>4 DEF WaitDone
  <2> QED
    BY <2>1, <2>2, <2>3, <2>4, <2>5, <2>6 DEF FlashStep, DriverStep, WaitDone, SpinOut
<1> QED
  BY <1>2, <1>3 DEF Writer

LEMMA FlashKeepsTorn ==
  ASSUME Calm, Calm', TornInv, FlashStep, UNCHANGED <<load, secret, rots>>
  PROVE  TornInv'
<1> SUFFICES ASSUME rots = 0
             PROVE  TornInv'
  BY DEF TornInv
<1>0. CellTypes /\ SafeRecord /\ SafeOp /\ Quiet
  BY DEF Calm, TornInv
<1>1. call = Resting => call.phase = "rest"
  BY DEF Resting
<1>2. SafeRecord'
  <2>1. CASE cells' = cells
    BY <1>0, <2>1 DEF SafeRecord, IntactBodies, Record
  <2>2. CASE \E v \in {Torn, op.value} : cells' = After(op, v)
    BY <1>0, <2>2, SafeAfter
  <2> QED
    BY <2>1, <2>2 DEF FlashStep, Complete, FailOp, DriverStep, Prologue, Settle, Start, WaitDone,
       SpinOut
<1>3. SafeOp'
  <2>1. CASE Complete \/ FailOp
    <3>1. op'.page = "none"
      BY <2>1 DEF Complete, FailOp, NoOp
    <3> QED
      BY <3>1 DEF SafeOp
  <2>2. CASE Prologue \/ Settle \/ WaitDone \/ SpinOut
    <3>1. UNCHANGED <<cells, op>>
      BY <2>2 DEF Prologue, Settle, WaitDone, SpinOut
    <3> QED
      BY <1>0, <3>1 DEF SafeOp, IntactBodies, Record
  <2>3. CASE Start
    <3>1. CASE load \in Writing
      <4>1. PICK n \in 0 .. Total - 1 : AtWork(n)
        BY <1>1, <2>3, <3>1 DEF TornInv, Writer, Start
      <4>2. Left(n) /\ Holds(n)
        BY <2>3, <4>1 DEF AtWork, Start
      <4>3. op' = Nth(n + 1) /\ UNCHANGED cells
        BY <2>3, <3>1, <4>2, NextIsSafe DEF Start
      <4>4. \/ op' = EraseOp("identity")
            \/ op'.word \in 1 .. Words - 1 /\ Record[Words] = Erased
            \/ /\ op' = [page |-> "identity", word |-> Words, value |-> Commit]
               /\ IntactBodies # {}
        BY <3>1, <4>2, <4>3, NextIsSafe
      <4> QED
        BY <4>3, <4>4 DEF SafeOp, IntactBodies, Record
    <3>2. CASE load = "fault"
      BY <1>0, <1>1, <2>3, <3>2 DEF Start, Quiet
    <3>3. CASE load \notin Writing \cup {"fault"}
      <4>1. op' = NoOp \/ op' \in OtherOps
        BY <3>3 DEF Calm, Elsewhere
      <4>2. op'.page # "identity"
        BY <4>1 DEF OtherOps, NoOp
      <4> QED
        BY <4>2 DEF SafeOp
    <3> QED
      BY <3>1, <3>2, <3>3
  <2> QED
    BY <2>1, <2>2, <2>3 DEF FlashStep, DriverStep
<1>4. Quiet'
  <2>1. ASSUME call = Resting
        PROVE  call' = Resting /\ result' = result /\ (op = NoOp => op' = NoOp)
    BY <1>1, <2>1 DEF FlashStep, Complete, FailOp, DriverStep, Prologue, Settle, Start, WaitDone,
       SpinOut
  <2> QED
    BY <1>0, <2>1 DEF Quiet
<1>5. load' \in Writing => secret' \in Secrets /\ Writer'
  BY <1>0, FlashWrites DEF TornInv
<1>6. load' = "damaged" => IntactBodies' # {}
  <2> SUFFICES ASSUME load = "damaged"
               PROVE  IntactBodies' # {}
    OBVIOUS
  <2>1. op = NoOp \/ op \in OtherOps
    BY DEF Calm, Elsewhere, Writing
  <2>2. op.page # "identity"
    BY <2>1 DEF OtherOps, NoOp
  <2>3. cells' = cells \/ \E v : cells' = After(op, v)
    BY DEF FlashStep, Complete, FailOp, DriverStep, Prologue, Settle, Start, WaitDone, SpinOut
  <2>4. Record' = Record
    BY <1>0, <2>2, <2>3, RecordAfter DEF Record
  <2>5. IntactBodies # {}
    BY DEF TornInv
  <2> QED
    BY <2>4, <2>5 DEF IntactBodies
<1> QED
  BY <1>2, <1>3, <1>4, <1>5, <1>6 DEF TornInv

\* What leaves the flash, and where load_or_create stands, as they are.
LEMMA AsideKeepsTorn ==
  ASSUME TornInv, UNCHANGED <<flashVars, load, secret, rots>>
  PROVE  TornInv'
<1>1. UNCHANGED <<cells, op, latched, call, result>>
  BY DEF flashVars
<1>2. Record' = Record
  BY <1>1 DEF Record
<1>3. IntactBodies' = IntactBodies /\ \A n : Ours(n)' = Ours(n)
  BY <1>2 DEF IntactBodies, Ours
<1>4. \A n : Nth(n)' = Nth(n) /\ Holds(n)' = Holds(n)
  BY <1>3 DEF Nth, Holds
<1>5. Total' = Total
  BY DEF Total
<1>6. \A n : Left(n)' = Left(n)
  BY <1>1, <1>4, <1>5 DEF Left
<1>7. \A n : AtWork(n)' = AtWork(n)
  BY <1>1, <1>4, <1>6 DEF AtWork
<1>8. Writer' = Writer
  BY <1>1, <1>4, <1>5, <1>7 DEF Writer
<1>9. (SafeRecord /\ SafeOp /\ Quiet)' = (SafeRecord /\ SafeOp /\ Quiet)
  BY <1>1, <1>2, <1>3 DEF SafeRecord, SafeOp, Quiet
<1> QED
  BY <1>3, <1>8, <1>9 DEF TornInv

\* The loop's own calls: no write of the record is under way.
LEMMA BeginKeepsTorn ==
  ASSUME TornInv, NEW ops, Begin(ops), UNCHANGED <<load, secret, rots>>, load = "known"
  PROVE  TornInv'
<1>1. UNCHANGED <<cells, op>>
  BY DEF Begin
<1>2. Record' = Record
  BY <1>1 DEF Record
<1>3. IntactBodies' = IntactBodies
  BY <1>2 DEF IntactBodies
<1> QED
  BY <1>1, <1>2, <1>3 DEF TornInv, SafeRecord, SafeOp, Quiet, Writing

\* A write of the record starts with all of its operations before it.
LEMMA WriteKeepsTorn ==
  ASSUME TornInv, Write
  PROVE  TornInv'
<1> USE FlashAssumption
<1> SUFFICES ASSUME rots = 0
             PROVE  TornInv'
  BY DEF TornInv, Write, identityVars
<1>1. /\ load \in Writing /\ result = "none" /\ call = Resting /\ Begin(Writes[load])
      /\ UNCHANGED <<cells, op, latched, load, secret, rots>>
  BY DEF Write, Writes, Writing, Begin, identityVars
<1>2. Record' = Record
  BY <1>1 DEF Record
<1>3. IntactBodies' = IntactBodies
  BY <1>2 DEF IntactBodies
<1>4. SafeRecord' /\ SafeOp' /\ Quiet'
  BY <1>1, <1>2, <1>3 DEF TornInv, SafeRecord, SafeOp, Quiet, Writing
<1>5. op = NoOp /\ Holds(0) /\ secret \in Secrets
  <2>1. \A n : ~AtWork(n)
    BY <1>1 DEF AtWork, Resting
  <2> QED
    BY <1>1, <2>1 DEF TornInv, Writer
<1>6. Writer'
  <2>1. CASE Refused
    BY <2>1 DEF Refused, Writer
  <2>2. CASE call' = [phase |-> "prologue", todo |-> Writes[load]] /\ result' = "none"
    <3>1. Total \in Nat \ {0} /\ Total' = Total /\ \A i : Nth(i)' = Nth(i)
      BY <1>1 DEF Total, Nth
    <3>2. /\ Writes[load] = [i \in 1 .. Total |-> Nth(i)]
      <4>1. CASE load = "erase"
        <5>1. Writes[load] = <<EraseOp("identity")>> /\ Total = 1 /\ Nth(1) = EraseOp("identity")
          BY <4>1 DEF Writes, Total, Nth
        <5>2. \A x : <<x>> = [i \in 1 .. 1 |-> x]
          OBVIOUS
        <5>3. \A i : Nth(i) = EraseOp("identity")
          BY <4>1 DEF Nth
        <5> QED
          BY <5>1, <5>2, <5>3
      <4>2. CASE load = "body"
        <5>1. /\ Writes[load] = ProgramOps("identity", 1, Body(secret)) /\ Total = Words - 1
              /\ \A i : Nth(i) = [page |-> "identity", word |-> i, value |-> <<secret, i>>]
          BY <4>2 DEF Writes, Total, Nth
        <5>2. Len(Body(secret)) = Words - 1
          BY DEF Body
        <5>3. ProgramOps("identity", 1, Body(secret)) =
                [i \in 1 .. Words - 1 |->
                   [page |-> "identity", word |-> 1 + i - 1, value |-> Body(secret)[i]]]
          BY <5>2 DEF ProgramOps
        <5>4. \A i \in 1 .. Words - 1 : 1 + i - 1 = i /\ Body(secret)[i] = <<secret, i>>
          BY DEF Body
        <5>5. [i \in 1 .. Words - 1 |->
                 [page |-> "identity", word |-> 1 + i - 1, value |-> Body(secret)[i]]] =
                [i \in 1 .. Words - 1 |-> [page |-> "identity", word |-> i, value |-> <<secret, i>>]]
          BY ONLY <5>4
        <5> QED
          BY ONLY <5>1, <5>3, <5>5
      <4>3. CASE load = "commit"
        <5>1. /\ Writes[load] = ProgramOps("identity", Words, <<Commit>>) /\ Total = 1
              /\ \A i : Nth(i) = [page |-> "identity", word |-> Words, value |-> Commit]
          BY <4>3 DEF Writes, Total, Nth
        <5>2. Len(<<Commit>>) = 1 /\ <<Commit>>[1] = Commit /\ Words + 1 - 1 = Words
          OBVIOUS
        <5>3. ProgramOps("identity", Words, <<Commit>>) =
                [i \in 1 .. 1 |-> [page |-> "identity", word |-> Words + i - 1,
                                   value |-> <<Commit>>[i]]]
          BY <5>2 DEF ProgramOps
        <5>4. \A i \in 1 .. 1 : Words + i - 1 = Words /\ <<Commit>>[i] = Commit
          BY <5>2
        <5>5. [i \in 1 .. 1 |-> [page |-> "identity", word |-> Words + i - 1, value |-> <<Commit>>[i]]] =
                [i \in 1 .. 1 |-> [page |-> "identity", word |-> Words, value |-> Commit]]
          BY ONLY <5>4
        <5> QED
          BY ONLY <5>1, <5>3, <5>5
      <4> QED
        BY <1>1, <4>1, <4>2, <4>3 DEF Writing
    <3>3. Left(0)'
      <4>1. Writes[load] \in Seq({Nth(i) : i \in 1 .. Total}) /\ Len(Writes[load]) = Total
        BY <3>1, <3>2
      <4>2. \A i \in 1 .. Total - 0 : Writes[load][i] = Nth(0 + i)
        BY <3>1, <3>2
      <4>3. call'.todo = Writes[load] /\ Total - 0 = Total
        BY <2>2, <3>1
      <4>4. {Nth(i) : i \in 1 .. Total}' = {Nth(i) : i \in 1 .. Total}
        BY ONLY <3>1
      <4>5. call'.todo \in Seq({Nth(i) : i \in 1 .. Total}')
        BY ONLY <4>1, <4>3, <4>4
      <4>6. /\ Len(call'.todo) = Total' - 0
            /\ \A i \in 1 .. Total' - 0 : call'.todo[i] = Nth(0 + i)'
        BY ONLY <3>1, <4>1, <4>2, <4>3
      <4> QED
        BY ONLY <4>5, <4>6 DEF Left
    <3>4. Holds(0)' /\ op' = NoOp
      BY <1>1, <1>2, <1>5, HoldsKeeps
    <3>5. AtWork(0)'
      BY <2>2, <3>3, <3>4 DEF AtWork
    <3> QED
      BY <3>1, <3>5 DEF Writer
  <2> QED
    BY <1>1, <2>1, <2>2 DEF Begin
<1> QED
  BY <1>1, <1>4, <1>5, <1>6 DEF TornInv, Writing

\* One write done, the next one starts from what it left.
LEMMA WroteKeepsTorn ==
  ASSUME TornInv, Wrote
  PROVE  TornInv'
<1> USE FlashAssumption
<1> SUFFICES ASSUME rots = 0
             PROVE  TornInv'
  BY DEF TornInv, Wrote
<1>1. /\ load \in Writing /\ result # "none" /\ result' = "none"
      /\ UNCHANGED <<cells, op, latched, call, secret, rots>>
      /\ load' = IF result = "ok" THEN Then[load] ELSE "fault"
  BY DEF Wrote, Writes, Writing
<1>2. Record' = Record
  BY <1>1 DEF Record
<1>3. IntactBodies' = IntactBodies /\ \A n : Ours(n)' = Ours(n)
  BY <1>1, <1>2 DEF IntactBodies, Ours
<1>4. SafeRecord' /\ SafeOp'
  BY <1>1, <1>2, <1>3 DEF TornInv, SafeRecord, SafeOp
<1>5. /\ call = Resting /\ secret \in Secrets
      /\ result = "ok" => op = NoOp /\ Holds(Total)
  BY <1>1 DEF TornInv, Writer, AtWork
<1>6. CASE result # "ok"
  BY <1>1, <1>4, <1>5, <1>6 DEF TornInv, Quiet, Writing
<1>7. CASE result = "ok"
  <2>1. CASE load = "erase"
    <3>1. load' = "body" /\ Ours(0)
      BY <1>1, <1>5, <1>7, <2>1 DEF Then, Total, Holds
    <3>2. Holds(0)'
      BY <1>3, <3>1 DEF Holds
    <3> QED
      BY <1>1, <1>4, <1>5, <1>7, <3>1, <3>2 DEF TornInv, Quiet, Writer
  <2>2. CASE load = "body"
    <3>1. load' = "commit" /\ Ours(Words - 1)
      BY <1>1, <1>5, <1>7, <2>2 DEF Then, Total, Holds
    <3>2. secret \in IntactBodies
      BY <1>5, <3>1, OursIsIntact
    <3>3. Holds(0)'
      BY <1>1, <1>3, <3>1, <3>2 DEF Holds
    <3> QED
      BY <1>1, <1>4, <1>5, <1>7, <3>1, <3>3 DEF TornInv, Quiet, Writer
  <2>3. CASE load = "commit"
    BY <1>1, <1>4, <1>5, <1>7, <2>3 DEF TornInv, Quiet, Writing, Then
  <2> QED
    BY <1>1, <2>1, <2>2, <2>3 DEF Writing
<1> QED
  BY <1>6, <1>7

\* What the reader finds.
LEMMA ReaderKeepsTorn ==
  ASSUME TornInv, Read \/ NoScalar \/ Verify
  PROVE  TornInv'
<1>1. UNCHANGED <<cells, op, latched, call, result, rots>>
  BY DEF Read, NoScalar, Verify, flashVars
<1> SUFFICES ASSUME rots = 0
             PROVE  TornInv'
  BY <1>1 DEF TornInv
<1>2. Record' = Record
  BY <1>1 DEF Record
<1>3. IntactBodies' = IntactBodies
  BY <1>2 DEF IntactBodies
<1>4. SafeRecord' /\ SafeOp'
  BY <1>1, <1>2, <1>3 DEF TornInv, SafeRecord, SafeOp
<1>5. CASE Read
  <2>1. op = NoOp /\ call = Resting /\ result = "none"
    BY <1>5 DEF Read, TornInv, Quiet
  <2>2. CASE Classify = "valid"
    <3>1. load' = "known"
      BY <1>5, <2>2 DEF Read
    <3> QED
      BY <1>4, <3>1 DEF TornInv, Quiet, Writing
  <2>3. CASE Classify = "damaged"
    <3>1. load' = "damaged"
      BY <1>5, <2>3 DEF Read
    <3>2. IntactBodies # {}
      BY <2>3 DEF Classify, TornInv, SafeRecord
    <3> QED
      BY <1>3, <1>4, <3>1, <3>2 DEF TornInv, Quiet, Writing
  <2>4. CASE Classify = "vacant"
    <3>1. load' = "erase" /\ secret' \in Secrets
      BY <1>5, <2>4 DEF Read
    <3>2. Holds(0)'
      BY <3>1 DEF Holds
    <3> QED
      BY <1>1, <1>4, <2>1, <3>1, <3>2 DEF TornInv, Quiet, Writer
  <2> QED
    BY <2>2, <2>3, <2>4 DEF Classify
<1>6. CASE NoScalar \/ Verify
  <2>1. load' \in {"fault", "known"} /\ call = Resting
    BY <1>6 DEF NoScalar, Verify, TornInv, Quiet
  <2> QED
    BY <1>1, <1>4, <2>1 DEF TornInv, Quiet, Writing
<1> QED
  BY <1>5, <1>6

\* A reset: what was under way ends somewhere in the middle.
LEMMA CutKeepsTorn ==
  ASSUME Calm, TornInv, CutShort, load' = "off", cells' \in CutCells, rots' = rots
  PROVE  TornInv'
<1> SUFFICES ASSUME rots = 0
             PROVE  TornInv'
  BY DEF TornInv
<1>0. CellTypes /\ SafeRecord /\ SafeOp
  BY DEF Calm, TornInv
<1>1. SafeRecord'
  <2>1. CASE cells' = cells
    BY <1>0, <2>1 DEF SafeRecord, IntactBodies, Record
  <2>2. CASE \E v \in {Torn, op.value} : cells' = After(op, v)
    BY <1>0, <2>2, SafeAfter
  <2> QED
    BY <2>1, <2>2 DEF CutCells
<1>2. op' = NoOp /\ call' = Resting /\ result' = "none"
  BY DEF CutShort
<1>3. SafeOp'
  BY <1>2 DEF SafeOp, NoOp
<1> QED
  BY <1>1, <1>2, <1>3 DEF TornInv, Quiet, Writing

LEMMA TornKeeps ==
  ASSUME Calm, Calm', TornInv, [Next]_vars
  PROVE  TornInv'
<1>1. CASE UNCHANGED vars \/ ReadHealth \/ Entropy \/ Packet \/ Panic \/ PanicAgain
           \/ LoadDepth \/ StoreDepth \/ BumpPanics \/ Identified
  <2>1. UNCHANGED <<flashVars, load, secret, rots>>
    BY <1>1 DEF vars, identityVars, ReadHealth, Entropy, Packet, Panic, PanicAgain, LoadDepth,
       StoreDepth, BumpPanics, Identified
  <2> QED
    BY <2>1, AsideKeepsTorn
<1>2. CASE BringUp
  <2>1. UNCHANGED <<flashVars, secret, rots>>
    BY <1>2 DEF BringUp
  <2>2. CASE stage = "flash"
    <3>1. load = "off" /\ load' = "read" /\ UNCHANGED <<cells, op, call, result>>
      BY <1>2, <2>1, <2>2 DEF BringUp, Follows, Calm, InItsStage, flashVars
    <3> QED
      BY <2>1, <3>1 DEF TornInv, SafeRecord, SafeOp, Quiet, Writing, IntactBodies, Record
  <2>3. CASE stage # "flash"
    <3>1. UNCHANGED load
      BY <1>2, <2>3 DEF BringUp, Follows
    <3> QED
      BY <2>1, <3>1, AsideKeepsTorn
  <2> QED
    BY <2>2, <2>3
<1>3. CASE Identify
  BY <1>3, ReaderKeepsTorn, WriteKeepsTorn, WroteKeepsTorn DEF Identify, IdentityStep
<1>4. CASE Store
  <2>1. load = "known" /\ UNCHANGED <<load, secret, rots>>
    BY <1>4 DEF Store, Calm, InItsStage, identityVars
  <2> QED
    BY <1>4, <2>1, BeginKeepsTorn DEF Store
<1>5. CASE Flash
  BY <1>5, FlashKeepsTorn DEF Flash, identityVars
<1>6. CASE Act
  BY <1>6, CutKeepsTorn DEF Act, Off
<1>7. CASE PowerCut
  <2>1. rots' = IF cells' \in CutCells THEN rots ELSE rots + 1
    BY <1>7 DEF PowerCut
  <2>2. CASE cells' \in CutCells
    BY <1>7, <2>1, <2>2, CutKeepsTorn DEF PowerCut, Off
  <2>3. CASE cells' \notin CutCells
    BY <2>1, <2>3, IdentityAssumption DEF Calm, TornInv
  <2> QED
    BY <2>2, <2>3
<1> QED
  BY <1>1, <1>2, <1>3, <1>4, <1>5, <1>6, <1>7 DEF Next, Boot, Handle

\* A write of the record that was cut short, failed, was given up or came in
\* late leaves a record that the next boot takes for vacant and writes again:
\* as long as nothing decays, a record is held as damaged only when its body
\* is whole (body first, commit word last, identity.rs).
THEOREM CutWritesAreWrittenAgain == Spec => []TornBodyIsVacant
<1>1. Init => Calm /\ TornInv
  <2> SUFFICES ASSUME Init
               PROVE  TornInv
    BY IdInit
  <2> USE DEF Init, FlashInit, IdentityInit
  <2>1. PICK v \in {Erased, Torn} : cells = [p \in Pages |-> [w \in 1 .. Words |-> v]]
    OBVIOUS
  <2>2. Record[Words] = v
    BY <2>1, IdentityAssumption, FlashAssumption DEF Record
  <2>3. SafeRecord
    BY <2>2 DEF SafeRecord, Erased, Torn, Commit, TornOurs
  <2>4. SafeOp
    BY DEF SafeOp, NoOp
  <2> QED
    BY <2>3, <2>4 DEF TornInv, Quiet, Writing
<1>2. Calm /\ TornInv /\ [Next]_vars => (Calm /\ TornInv)'
  BY IdKeeps, TornKeeps
<1>3. TornInv => TornBodyIsVacant
  BY DEF TornInv, TornBodyIsVacant
<1> QED
  BY <1>1, <1>2, <1>3, PTL DEF Spec

-------------------------------------------------------------------------------
(* The cable: what is on the wire and what has come off it.  A message is on *)
(* the wire as long as its first byte is; the rest of it may have been cut.  *)
Bytes == {b \in (Frames \cup DOMAIN Declared) \X Nat : b[1] = "magic" => b[2] \in 1 .. Length["magic"]}
Coming == link.rx \o toDevice

\* The first byte of a message.
IsHead(b) == b[2] = 1 /\ b[1] # "magic"

Sent(a, m) == \E k \in 1 .. Len(a) : a[k] = m
Earlier(a, m, n) == \E k, l \in 1 .. Len(a) : k < l /\ a[k] = m /\ a[l] = n

\* Messages g were delivered, those that begin in w may still be: one order.
InTurn(a, g, w) ==
  /\ \A i \in 1 .. Len(g) : Sent(a, g[i])
  /\ \A i \in 1 .. Len(w) : IsHead(w[i]) => Sent(a, w[i][1])
  /\ \A i, j \in 1 .. Len(g) : i < j => Earlier(a, g[i], g[j])
  /\ \A i, j \in 1 .. Len(w) : i < j /\ IsHead(w[i]) /\ IsHead(w[j]) => Earlier(a, w[i][1], w[j][1])
  /\ \A i \in 1 .. Len(g), j \in 1 .. Len(w) : IsHead(w[j]) => Earlier(a, g[i], w[j][1])

WireTyped ==
  /\ toDevice \in Seq(Bytes)
  /\ link = [rx |-> link.rx, progress |-> link.progress, linked |-> link.linked]
  /\ link.rx \in Seq(Bytes) /\ (~link.linked => link.rx = <<>>)

\* Nothing is sent twice, and the messages sent, delivered and coming are in one order.
InOrder ==
  /\ WireTyped
  /\ asked \in Seq(Messages) /\ got \in Seq(Messages)
  /\ \A i, j \in 1 .. Len(asked) : asked[i] = asked[j] => i = j
  /\ InTurn(asked, got, Coming)

(* What the device writes: parts of answers, replies and announcements.      *)
Items == (Messages \X (Nat \ {0})) \cup {MagicReply, Announcement}

\* No part without the one before it, but for the first item.
Seamless(q) ==
  \A i \in 2 .. Len(q) : q[i][2] > 1 => q[i - 1] = <<q[i][1], q[i][2] - 1>>

Fresh(q) == q # <<>> => q[1][2] = 1

\* Item q goes on where the last of h ended.
GoesOn(h, q) == q[2] > 1 => h # <<>> /\ h[Len(h)] = <<q[1], q[2] - 1>>

\* What is queued and what was heard begin with a first part; what is on the way may begin
\* in the middle of an answer only behind the part before it, or be thrown away.
NoGaps ==
  /\ toHost \in Seq(Items) /\ Seamless(toHost)
  /\ outbox \in Seq(Items) /\ Seamless(outbox) /\ Fresh(outbox)
  /\ heard \in Seq(Items) /\ Seamless(heard) /\ Fresh(heard)
  /\ port = "linked" /\ toHost # <<>> => GoesOn(heard, toHost[1])

\* While the listener runs, nobody hands anything to the session.
LinkInv ==
  /\ mode \in {"session", "upgrade"}
  /\ mode = "session" => InOrder /\ NoGaps
  /\ mode = "upgrade" => got = <<>> /\ heard = <<>>

-------------------------------------------------------------------------------
(* Recursion, step by step.                                                  *)
LEMMA LeastOf ==
  ASSUME NEW X \in SUBSET Nat, X # {}
  PROVE  \E i \in X : \A j \in X : i <= j
<1> DEFINE R == {p \in Nat \X Nat : p[1] < p[2]}
<1>1. IsWellFoundedOn(R, Nat)
  BY NatLessThanWellFounded DEF OpToRel
<1>2. PICK x \in X : \A y \in X : <<y, x>> \notin R
  <2> HIDE DEF R
  <2> QED
    BY <1>1, WFMin
<1>3. ASSUME NEW y \in X PROVE x <= y
  <2>1. <<y, x>> \notin R
    BY <1>2
  <2>2. x \in Nat /\ y \in Nat
    OBVIOUS
  <2>3. ~(y < x)
    BY <2>1, <2>2
  <2> HIDE DEF R
  <2> QED
    BY <2>2, <2>3
<1> QED
  BY <1>3

LEMMA UpTo ==
  ASSUME NEW N \in Nat, NEW S, 0 \in S, \A n \in 0 .. N - 1 : n \in S => n + 1 \in S
  PROVE  0 .. N \subseteq S
<1> DEFINE bad == {n \in 0 .. N : n \notin S}
<1> SUFFICES ASSUME bad # {} PROVE FALSE
  OBVIOUS
<1>1. bad \in SUBSET Nat
  OBVIOUS
<1>2. PICK x \in bad : \A y \in bad : x <= y
  <2> HIDE DEF bad
  <2> QED
    BY <1>1, LeastOf
<1>3. x \in 0 .. N /\ x \notin S /\ \A y \in 0 .. N : y < x => y \in S
  <2>1. ASSUME NEW y \in 0 .. N, y < x PROVE y \in S
    BY <1>2, <2>1
  <2> QED
    BY <2>1
<1>4. x # 0 /\ x - 1 \in 0 .. N - 1 /\ x - 1 < x /\ x - 1 \in 0 .. N
  BY <1>3
<1>5. x - 1 \in S
  BY <1>3, <1>4
<1>6. (x - 1) + 1 = x
  BY <1>3
<1> QED
  BY <1>3, <1>4, <1>5, <1>6

\* What FlattenSeq makes of a sequence of sequences, one at a time.
FlattenedBy(g, seqs) ==
  /\ g[0] = <<>> /\ g[Len(seqs)] = FlattenSeq(seqs)
  /\ \A i \in 1 .. Len(seqs) : g[i] = g[i - 1] \o seqs[i]

Flattening(g, seqs) == g = [i \in 1 .. Len(seqs) |-> IF i = 1 THEN seqs[i] ELSE g[i - 1] \o seqs[i]]

Flat(h, n, seqs, S) ==
  /\ h \in [1 .. n -> Seq(S)]
  /\ \A i \in 1 .. n : h[i] = IF i = 1 THEN seqs[i] ELSE h[i - 1] \o seqs[i]

LEMMA FlattenSeqIs ==
  ASSUME NEW seqs, Len(seqs) \in Nat \ {0}, \E g : Flattening(g, seqs)
  PROVE  \E g : Flattening(g, seqs) /\ FlattenSeq(seqs) = g[Len(seqs)]
<1> DEFINE c == CHOOSE g : g = [i \in 1 .. Len(seqs) |->
                                  IF i = 1 THEN seqs[i] ELSE g[i - 1] \o seqs[i]]
<1>1. FlattenSeq(seqs) = c[Len(seqs)]
  BY DEF FlattenSeq
<1>2. Flattening(c, seqs)
  BY DEF Flattening
<1> QED
  BY <1>1, <1>2

LEMMA Flattened ==
  ASSUME NEW S, NEW seqs \in Seq(Seq(S))
  PROVE  \E g : FlattenedBy(g, seqs) /\ \A i \in 0 .. Len(seqs) : g[i] \in Seq(S)
<1> DEFINE N == Len(seqs)
<1>0. N \in Nat /\ <<>> \in Seq(S) /\ \A i \in 1 .. N : seqs[i] \in Seq(S)
  OBVIOUS
<1>1. CASE N = 0
  <2> DEFINE g == [i \in 0 .. 0 |-> <<>>]
  <2>1. seqs = <<>> /\ FlattenSeq(seqs) = <<>>
    BY <1>1 DEF FlattenSeq
  <2>2. FlattenedBy(g, seqs) /\ \A i \in 0 .. N : g[i] \in Seq(S)
    BY <1>0, <1>1, <2>1 DEF FlattenedBy
  <2> QED
    BY <2>2
<1>2. CASE N # 0
  <2> DEFINE T == {n \in 0 .. N : \E h : Flat(h, n, seqs, S)}
  <2>1. 0 \in T
    <3>1. Flat([i \in 1 .. 0 |-> <<>>], 0, seqs, S)
      BY DEF Flat
    <3>2. \E h : Flat(h, 0, seqs, S)
      BY <3>1
    <3> QED
      BY <1>0, <3>2
  <2>2. ASSUME NEW n \in 0 .. N - 1, n \in T PROVE n + 1 \in T
    <3>1. PICK h : Flat(h, n, seqs, S)
      BY <2>2
    <3> DEFINE k == [i \in 1 .. n + 1 |-> IF i = n + 1 THEN IF i = 1 THEN seqs[i] ELSE h[n] \o seqs[i]
                                          ELSE h[i]]
    <3>2. k \in [1 .. n + 1 -> Seq(S)]
      <4>1. ASSUME NEW i \in 1 .. n + 1
            PROVE  (IF i = n + 1 THEN IF i = 1 THEN seqs[i] ELSE h[n] \o seqs[i] ELSE h[i]) \in Seq(S)
        <5>1. CASE i # n + 1
          BY <3>1, <5>1 DEF Flat
        <5>2. CASE i = n + 1 /\ i # 1
          <6>1. h[n] \in Seq(S) /\ seqs[i] \in Seq(S)
            BY <1>0, <3>1, <5>2 DEF Flat
          <6> QED
            BY <5>2, <6>1
        <5>3. CASE i = n + 1 /\ i = 1
          BY <1>0, <5>3
        <5> QED
          BY <5>1, <5>2, <5>3
      <4> QED
        BY <4>1
    <3>3. \A i \in 1 .. n + 1 : k[i] = IF i = 1 THEN seqs[i] ELSE k[i - 1] \o seqs[i]
      <4>1. \A i \in 1 .. n : k[i] = h[i]
        OBVIOUS
      <4>2. k[n + 1] = IF n + 1 = 1 THEN seqs[n + 1] ELSE h[n] \o seqs[n + 1]
        OBVIOUS
      <4>3. n # 0 => k[n] = h[n]
        BY <4>1
      <4> HIDE DEF k
      <4>4. ASSUME NEW i \in 1 .. n + 1 PROVE k[i] = IF i = 1 THEN seqs[i] ELSE k[i - 1] \o seqs[i]
        <5>1. CASE i = n + 1
          <6>1. n # 0 => (n + 1) - 1 = n
            OBVIOUS
          <6> QED
            BY <4>2, <4>3, <5>1, <6>1
        <5>2. CASE i \in 1 .. n
          <6>1. i # 1 => i - 1 \in 1 .. n
            BY <5>2
          <6>2. h[i] = IF i = 1 THEN seqs[i] ELSE h[i - 1] \o seqs[i]
            BY <3>1, <5>2 DEF Flat
          <6> QED
            BY <4>1, <5>2, <6>1, <6>2
        <5> QED
          BY <5>1, <5>2
      <4> QED
        BY <4>4
    <3> HIDE DEF k
    <3>4. \E f : Flat(f, n + 1, seqs, S)
      BY <3>2, <3>3 DEF Flat
    <3>5. n + 1 \in 0 .. N
      BY <1>0
    <3> QED
      BY <3>4, <3>5
  <2>3. N \in T
    <3> HIDE DEF T
    <3>1. 0 .. N \subseteq T
      BY <1>0, <2>1, <2>2, UpTo
    <3> QED
      BY <1>0, <3>1
  <2>4. PICK h : Flat(h, N, seqs, S)
    BY <2>3
  <2>5. Flattening(h, seqs)
    BY <2>4 DEF Flattening, Flat
  <2>6. PICK f : Flattening(f, seqs) /\ FlattenSeq(seqs) = f[N]
    BY <1>0, <1>2, <2>5, FlattenSeqIs
  <2> DEFINE g == [i \in 0 .. N |-> IF i = 0 THEN <<>> ELSE f[i]]
             Q == {n \in 0 .. N : g[n] \in Seq(S)}
  <2>7. \A i \in 1 .. N : f[i] = IF i = 1 THEN seqs[i] ELSE f[i - 1] \o seqs[i]
    BY <2>6 DEF Flattening
  <2>g. \A i \in 1 .. N : g[i] = f[i]
    OBVIOUS
  <2>9. g[0] = <<>> /\ g[N] = FlattenSeq(seqs)
    BY <1>0, <1>2, <2>6
  <2> HIDE DEF g
  <2>8. ASSUME NEW i \in 1 .. N PROVE g[i] = g[i - 1] \o seqs[i]
    <3>1. CASE i = 1
      <4>1. f[1] = seqs[1] /\ seqs[1] \in Seq(S) /\ i - 1 = 0
        BY <1>0, <2>7, <3>1
      <4>2. <<>> \o seqs[1] = seqs[1]
        BY <4>1
      <4>3. g[1] = f[1]
        BY <2>g, <3>1
      <4>4. g[i - 1] = <<>>
        BY <2>9, <4>1
      <4> QED
        BY <3>1, <4>1, <4>2, <4>3, <4>4
    <3>2. CASE i # 1
      <4>1. i - 1 \in 1 .. N
        BY <1>0, <3>2
      <4>2. f[i] = f[i - 1] \o seqs[i]
        BY <2>7, <3>2
      <4> QED
        BY <2>g, <4>1, <4>2
    <3> QED
      BY <3>1, <3>2
  <2>10. \A n \in 0 .. N - 1 : n \in Q => n + 1 \in Q
    <3> SUFFICES ASSUME NEW n \in 0 .. N - 1, g[n] \in Seq(S) PROVE g[n + 1] \in Seq(S)
      BY <1>0
    <3>1. n + 1 \in 1 .. N /\ (n + 1) - 1 = n
      BY <1>0
    <3>2. g[n + 1] = g[n] \o seqs[n + 1] /\ seqs[n + 1] \in Seq(S)
      BY <1>0, <2>8, <3>1
    <3> QED
      BY <3>2
  <2>11. 0 .. N \subseteq Q
    <3>0. 0 \in 0 .. N /\ g[0] \in Seq(S)
      BY <1>0, <2>9
    <3>1. 0 \in Q
      BY <3>0
    <3> HIDE DEF Q
    <3> QED
      BY <1>0, <2>10, <3>1, UpTo
  <2>12. FlattenedBy(g, seqs)
    BY <2>8, <2>9 DEF FlattenedBy
  <2> QED
    BY <2>11, <2>12
<1> QED
  BY <1>1, <1>2

-------------------------------------------------------------------------------
(* What is taken off a sequence of bytes.                                    *)

\* Frames of r begin at those places, in order, and it holds what is behind cut.
TakenAt(bytes, r, at, cut) ==
  /\ r.link.rx = From(bytes, cut)
  /\ \A i \in 1 .. Len(r.frames) : bytes[at[i]] = <<r.frames[i], 1>>
  /\ \A i, j \in 1 .. Len(r.frames) : i < j => at[i] < at[j]

\* Of the bytes behind the n-th, r takes frames, and holds the last ones.
Takes(bytes, n, r) ==
  /\ r = [frames |-> r.frames, err |-> r.err, link |-> r.link]
  /\ r.link = [rx |-> r.link.rx, progress |-> r.link.progress, linked |-> r.link.linked]
  /\ ~r.link.linked => r.link.rx = <<>>
  /\ r.frames \in Seq(Frames)
  /\ \E cut \in n .. Len(bytes) : \E at \in [1 .. Len(r.frames) -> n + 1 .. cut] :
        TakenAt(bytes, r, at, cut)

LEMMA FromIs ==
  ASSUME NEW S, NEW s \in Seq(S), NEW n \in 0 .. Len(s)
  PROVE  /\ From(s, n) \in Seq(S) /\ Len(From(s, n)) = Len(s) - n
         /\ \A i \in 1 .. Len(s) - n : From(s, n)[i] = s[n + i]
         /\ From(s, Len(s)) = <<>>
<1>1. From(s, n) = SubSeq(s, n + 1, Len(s)) /\ From(s, Len(s)) = SubSeq(s, Len(s) + 1, Len(s))
  BY DEF From
<1>2. SubSeq(s, n + 1, Len(s)) \in Seq(S) /\ Len(SubSeq(s, n + 1, Len(s))) = Len(s) - n
  OBVIOUS
<1>3. \A i \in 1 .. Len(s) - n : SubSeq(s, n + 1, Len(s))[i] = s[n + i]
  OBVIOUS
<1>4. SubSeq(s, Len(s) + 1, Len(s)) = <<>>
  OBVIOUS
<1> QED
  BY <1>1, <1>2, <1>3, <1>4

LEMMA FrameAtIs ==
  ASSUME NEW bytes \in Seq(Bytes), NEW n \in 0 .. Len(bytes), NEW f \in FrameAt(bytes, n)
  PROVE  f \in Frames /\ n + Length[f] \in n + 1 .. Len(bytes) /\ bytes[n + 1] = <<f, 1>>
<1>1. f \in Frames /\ n + Length[f] <= Len(bytes) /\ SubSeq(bytes, n + 1, n + Length[f]) = Encoded(f)
  BY DEF FrameAt
<1>2. Length[f] \in Nat \ {0}
  BY <1>1, FramesAssumption
<1>3. SubSeq(bytes, n + 1, n + Length[f])[1] = bytes[n + 1]
  BY <1>1, <1>2
<1>4. Encoded(f)[1] = <<f, 1>>
  BY <1>2 DEF Encoded
<1>5. n + Length[f] \in n + 1 .. Len(bytes)
  BY <1>1, <1>2
<1>6. bytes[n + 1] = <<f, 1>>
  BY <1>1, <1>3, <1>4
<1> QED
  BY <1>1, <1>5, <1>6

\* One that refuses, and one that holds the rest, take no frame.
LEMMA NoneTaken ==
  ASSUME NEW bytes \in Seq(Bytes), NEW n \in 0 .. Len(bytes),
         NEW r \in {Desync(<<>>), Held(<<>>, From(bytes, n)), Waiting(<<>>, From(bytes, n))}
  PROVE  Takes(bytes, n, r)
<1>1. Len(bytes) \in Nat /\ <<>> \in Seq(Frames) /\ Len(<<>>) = 0 /\ From(bytes, Len(bytes)) = <<>>
  BY FromIs
<1> DEFINE at == [i \in 1 .. 0 |-> n + 1]
<1>2. at \in [1 .. 0 -> n + 1 .. n] /\ at \in [1 .. 0 -> n + 1 .. Len(bytes)]
  OBVIOUS
<1>3. CASE r = Desync(<<>>)
  <2>1. /\ r = [frames |-> r.frames, err |-> r.err, link |-> r.link]
        /\ r.link = [rx |-> r.link.rx, progress |-> r.link.progress, linked |-> r.link.linked]
        /\ r.frames = <<>> /\ r.link.rx = <<>>
    BY <1>3 DEF Desync, Unlinked
  <2>2. Len(bytes) \in n .. Len(bytes)
    OBVIOUS
  <2> HIDE DEF at
  <2>3. \E cut \in n .. Len(bytes) : \E a \in [1 .. Len(r.frames) -> n + 1 .. cut] :
          TakenAt(bytes, r, a, cut)
    <3>1. Len(r.frames) = 0 /\ 1 .. Len(r.frames) = 1 .. 0
      BY <1>1, <2>1
    <3>2. at \in [1 .. Len(r.frames) -> n + 1 .. Len(bytes)]
      BY <1>2, <3>1
    <3>3. TakenAt(bytes, r, at, Len(bytes))
      BY <1>1, <2>1, <3>1 DEF TakenAt
    <3> QED
      BY <2>2, <3>2, <3>3
  <2> QED
    BY <1>1, <2>1, <2>3 DEF Takes
<1>4. CASE r = Held(<<>>, From(bytes, n))
  <2>1. /\ r = [frames |-> r.frames, err |-> r.err, link |-> r.link]
        /\ r.link = [rx |-> r.link.rx, progress |-> r.link.progress, linked |-> r.link.linked]
        /\ r.frames = <<>> /\ r.link.rx = From(bytes, n) /\ r.link.linked
    BY <1>4 DEF Held
  <2>2. n \in n .. Len(bytes)
    OBVIOUS
  <2> HIDE DEF at
  <2>3. \E cut \in n .. Len(bytes) : \E a \in [1 .. Len(r.frames) -> n + 1 .. cut] :
          TakenAt(bytes, r, a, cut)
    <3>1. Len(r.frames) = 0 /\ 1 .. Len(r.frames) = 1 .. 0
      BY <1>1, <2>1
    <3>2. at \in [1 .. Len(r.frames) -> n + 1 .. n]
      BY <1>2, <3>1
    <3>3. TakenAt(bytes, r, at, n)
      BY <1>1, <2>1, <3>1 DEF TakenAt
    <3> QED
      BY <2>2, <3>2, <3>3
  <2> QED
    BY <1>1, <2>1, <2>3 DEF Takes
<1>5. r \in {Desync(<<>>), Held(<<>>, From(bytes, n))}
  BY DEF Waiting
<1> QED
  BY <1>3, <1>4, <1>5

\* A frame in front of what is taken later.
LEMMA OneMoreTaken ==
  ASSUME NEW bytes \in Seq(Bytes), NEW n \in 0 .. Len(bytes), NEW f \in FrameAt(bytes, n),
         NEW r, Takes(bytes, n + Length[f], r)
  PROVE  Takes(bytes, n, [r EXCEPT !.frames = <<f>> \o @])
<1> DEFINE q == [r EXCEPT !.frames = <<f>> \o @]
           k == n + Length[f]
<1>1. f \in Frames /\ k \in n + 1 .. Len(bytes) /\ bytes[n + 1] = <<f, 1>>
  BY FrameAtIs
<1>2. /\ q = [frames |-> q.frames, err |-> q.err, link |-> q.link]
      /\ q.frames = <<f>> \o r.frames /\ q.link = r.link
  <2>1. r = [frames |-> r.frames, err |-> r.err, link |-> r.link]
    BY DEF Takes
  <2>2. r \in [frames : {r.frames}, err : {r.err}, link : {r.link}]
    BY <2>1
  <2>3. \A e : [r EXCEPT !.frames = e] = [frames |-> e, err |-> r.err, link |-> r.link]
    BY <2>2
  <2>4. q = [r EXCEPT !.frames = <<f>> \o r.frames]
    BY Zenon
  <2>5. q = [frames |-> <<f>> \o r.frames, err |-> r.err, link |-> r.link]
    BY <2>3, <2>4
  <2> HIDE DEF q
  <2> QED
    BY <2>5
<1> HIDE DEF q, k
<1>3. PICK cut \in k .. Len(bytes) : \E at \in [1 .. Len(r.frames) -> k + 1 .. cut] :
        TakenAt(bytes, r, at, cut)
  BY DEF Takes, k
<1>4. PICK at \in [1 .. Len(r.frames) -> k + 1 .. cut] : TakenAt(bytes, r, at, cut)
  BY <1>3
<1> DEFINE L == Len(r.frames)
           b == [i \in 1 .. L + 1 |-> IF i = 1 THEN n + 1 ELSE at[i - 1]]
<1>5. L \in Nat /\ r.frames \in Seq(Frames) /\ n \in Nat /\ cut \in n .. Len(bytes) /\ n + 1 <= cut /\ Len(bytes) \in Nat
  BY <1>1, <1>3 DEF Takes
<1>6. /\ q.frames \in Seq(Frames) /\ Len(q.frames) = L + 1 /\ q.frames[1] = f
      /\ \A i \in 2 .. L + 1 : q.frames[i] = r.frames[i - 1]
  BY <1>1, <1>2, <1>5
<1>7. \A i \in 2 .. L + 1 : i - 1 \in 1 .. L /\ at[i - 1] \in k + 1 .. cut
  BY <1>4, <1>5
<1>8. b[1] = n + 1 /\ \A i \in 2 .. L + 1 : b[i] = at[i - 1]
  BY <1>5
<1>9. b \in [1 .. L + 1 -> n + 1 .. cut]
  <2>1. ASSUME NEW i \in 1 .. L + 1 PROVE (IF i = 1 THEN n + 1 ELSE at[i - 1]) \in n + 1 .. cut
    <3>1. CASE i = 1
      BY <1>5, <3>1
    <3>2. CASE i \in 2 .. L + 1
      BY <1>1, <1>5, <1>7, <3>2
    <3> QED
      BY <1>5, <3>1, <3>2
  <2> QED
    BY <2>1
<1> HIDE DEF b, L
<1>10. \A i \in 1 .. L + 1 : bytes[b[i]] = <<q.frames[i], 1>>
  <2>1. ASSUME NEW i \in 2 .. L + 1 PROVE bytes[b[i]] = <<q.frames[i], 1>>
    <3>1. bytes[at[i - 1]] = <<r.frames[i - 1], 1>>
      BY <1>4, <1>7 DEF L, TakenAt
    <3> QED
      BY <1>6, <1>8, <3>1
  <2>2. bytes[b[1]] = <<q.frames[1], 1>>
    BY <1>1, <1>6, <1>8
  <2>3. \A i \in 1 .. L + 1 : i = 1 \/ i \in 2 .. L + 1
    BY <1>5
  <2> QED
    BY <2>1, <2>2, <2>3
<1>11. \A i, j \in 1 .. L + 1 : i < j => b[i] < b[j]
  <2>1. ASSUME NEW i \in 1 .. L + 1, NEW j \in 1 .. L + 1, i < j PROVE b[i] < b[j]
    <3>1. j \in 2 .. L + 1 /\ b[j] = at[j - 1] /\ at[j - 1] \in k + 1 .. cut /\ j - 1 \in 1 .. L
      BY <1>5, <1>7, <1>8, <2>1
    <3>2. CASE i = 1
      BY <1>1, <1>5, <1>8, <3>1, <3>2
    <3>3. CASE i \in 2 .. L + 1
      <4>1. i - 1 \in 1 .. L /\ b[i] = at[i - 1] /\ i - 1 < j - 1
        BY <1>5, <1>7, <1>8, <2>1, <3>3
      <4> QED
        BY <1>4, <3>1, <4>1 DEF L, TakenAt
    <3> QED
      BY <1>5, <3>2, <3>3
  <2> QED
    BY <2>1
<1>12. \E c \in n .. Len(bytes) : \E a \in [1 .. Len(q.frames) -> n + 1 .. c] : TakenAt(bytes, q, a, c)
  <2>1. b \in [1 .. Len(q.frames) -> n + 1 .. cut]
    BY <1>6, <1>9
  <2>2. TakenAt(bytes, q, b, cut)
    BY <1>2, <1>4, <1>6, <1>10, <1>11 DEF TakenAt
  <2> QED
    BY <1>5, <2>1, <2>2
<1>13. /\ q.link = [rx |-> q.link.rx, progress |-> q.link.progress, linked |-> q.link.linked]
       /\ ~q.link.linked => q.link.rx = <<>>
  BY <1>2 DEF Takes
<1>14. Takes(bytes, n, q)
  BY <1>2, <1>6, <1>12, <1>13 DEF Takes
<1> QED
  BY <1>14 DEF q

\* What is taken from later on is taken from here on.
LEMMA TakenLater ==
  ASSUME NEW bytes \in Seq(Bytes), NEW n \in 0 .. Len(bytes), NEW k \in n .. Len(bytes),
         NEW r, Takes(bytes, k, r)
  PROVE  Takes(bytes, n, r)
<1>1. PICK cut \in k .. Len(bytes) : \E at \in [1 .. Len(r.frames) -> k + 1 .. cut] : TakenAt(bytes, r, at, cut)
  BY DEF Takes
<1>2. PICK at \in [1 .. Len(r.frames) -> k + 1 .. cut] : TakenAt(bytes, r, at, cut)
  BY <1>1
<1>3. cut \in n .. Len(bytes) /\ at \in [1 .. Len(r.frames) -> n + 1 .. cut]
  <2>1. k + 1 .. cut \subseteq n + 1 .. cut
    OBVIOUS
  <2> QED
    BY <1>1, <1>2, <2>1
<1>4. \E c \in n .. Len(bytes) : \E a \in [1 .. Len(r.frames) -> n + 1 .. c] : TakenAt(bytes, r, a, c)
  BY <1>2, <1>3
<1> QED
  BY <1>4 DEF Takes

LEMMA DroppedIsLater ==
  ASSUME NEW bytes \in Seq(Bytes), NEW n \in 0 .. Len(bytes)
  PROVE  Misread(bytes, n).dropped \subseteq n + 1 .. Len(bytes)
BY DEF Misread

\* One step of the recursion: what holds of the later places holds here.
LEMMA DrainedFromTakes ==
  ASSUME NEW bytes \in Seq(Bytes), NEW n \in 0 .. Len(bytes), NEW after,
         \A k \in n + 1 .. Len(bytes) : \A r \in after[k] : Takes(bytes, k, r)
  PROVE  \A r \in DrainedFrom(after, bytes, n) : Takes(bytes, n, r)
<1> SUFFICES ASSUME NEW r \in DrainedFrom(after, bytes, n) PROVE Takes(bytes, n, r)
  OBVIOUS
<1>1. CASE FrameAt(bytes, n) # {}
  <2> DEFINE f == CHOOSE f \in FrameAt(bytes, n) : TRUE
  <2>1. f \in FrameAt(bytes, n)
    BY <1>1
  <2>2. r \in {[q EXCEPT !.frames = <<f>> \o @] : q \in after[n + Length[f]]}
    BY <1>1 DEF DrainedFrom
  <2> HIDE DEF f
  <2>3. PICK q \in after[n + Length[f]] : r = [q EXCEPT !.frames = <<f>> \o @]
    BY <2>2
  <2>4. n + Length[f] \in n + 1 .. Len(bytes)
    BY <2>1, FrameAtIs
  <2>5. Takes(bytes, n + Length[f], q)
    BY <2>3, <2>4
  <2> QED
    BY <2>1, <2>3, <2>5, OneMoreTaken
<1>2. CASE FrameAt(bytes, n) = {} /\ IsPartial(From(bytes, n))
  <2>1. r = Waiting(<<>>, From(bytes, n))
    BY <1>2 DEF DrainedFrom
  <2> QED
    BY <2>1, NoneTaken
<1>3. CASE FrameAt(bytes, n) = {} /\ ~IsPartial(From(bytes, n))
  <2>1. \/ r \in {Desync(<<>>), Waiting(<<>>, From(bytes, n))}
        \/ \E m \in Misread(bytes, n).dropped : r \in after[m]
    BY <1>3 DEF DrainedFrom
  <2>2. CASE r \in {Desync(<<>>), Waiting(<<>>, From(bytes, n))}
    BY <2>2, NoneTaken
  <2>3. CASE \E m \in Misread(bytes, n).dropped : r \in after[m]
    <3>1. PICK m \in n + 1 .. Len(bytes) : r \in after[m]
      BY <2>3, DroppedIsLater
    <3>2. Takes(bytes, m, r) /\ m \in n .. Len(bytes)
      BY <3>1
    <3> QED
      BY <3>2, TakenLater
  <2> QED
    BY <2>1, <2>2, <2>3
<1> QED
  BY <1>1, <1>2, <1>3

\* It looks at the later places only.
LEMMA DrainedFromLooksAhead ==
  ASSUME NEW bytes \in Seq(Bytes), NEW n \in 0 .. Len(bytes), NEW g, NEW h,
         \A k \in n + 1 .. Len(bytes) : g[k] = h[k]
  PROVE  DrainedFrom(g, bytes, n) = DrainedFrom(h, bytes, n)
<1>1. CASE FrameAt(bytes, n) # {}
  <2> DEFINE f == CHOOSE f \in FrameAt(bytes, n) : TRUE
  <2>1. f \in FrameAt(bytes, n)
    BY <1>1
  <2>2. /\ DrainedFrom(g, bytes, n) = {[q EXCEPT !.frames = <<f>> \o @] : q \in g[n + Length[f]]}
        /\ DrainedFrom(h, bytes, n) = {[q EXCEPT !.frames = <<f>> \o @] : q \in h[n + Length[f]]}
    BY <1>1 DEF DrainedFrom
  <2> HIDE DEF f
  <2>3. n + Length[f] \in n + 1 .. Len(bytes)
    BY <2>1, FrameAtIs
  <2>4. g[n + Length[f]] = h[n + Length[f]]
    BY <2>3
  <2> QED
    BY <2>2, <2>4
<1>2. CASE FrameAt(bytes, n) = {} /\ IsPartial(From(bytes, n))
  BY <1>2 DEF DrainedFrom
<1>3. CASE FrameAt(bytes, n) = {} /\ ~IsPartial(From(bytes, n))
  <2> DEFINE D == Misread(bytes, n).dropped
             rest == (IF Misread(bytes, n).refused THEN {Desync(<<>>)} ELSE {})
                     \cup (IF Misread(bytes, n).held THEN {Waiting(<<>>, From(bytes, n))} ELSE {})
  <2>1. /\ DrainedFrom(g, bytes, n) = rest \cup UNION {g[m] : m \in D}
        /\ DrainedFrom(h, bytes, n) = rest \cup UNION {h[m] : m \in D}
    BY <1>3 DEF DrainedFrom
  <2>2. \A m \in D : g[m] = h[m]
    BY DroppedIsLater
  <2> HIDE DEF D, rest
  <2>3. {g[m] : m \in D} = {h[m] : m \in D}
    BY <2>2
  <2> QED
    BY <2>1, <2>3
<1> QED
  BY <1>1, <1>2, <1>3

Draining(g, bytes) == g = [n \in 0 .. Len(bytes) |-> DrainedFrom(g, bytes, n)]

LEMMA DrainingExists ==
  ASSUME NEW bytes \in Seq(Bytes)
  PROVE  \E g : Draining(g, bytes)
<1> DEFINE L == Len(bytes)
           Up(h, d) == \A n \in L - d .. L : h[n] = DrainedFrom(h, bytes, n)
           T == {d \in 0 .. L : \E h : Up(h, d)}
<1>0. L \in Nat
  OBVIOUS
<1>1. 0 \in T
  <2> DEFINE h == [n \in 0 .. L |-> DrainedFrom(<<>>, bytes, n)]
  <2>1. h[L] = DrainedFrom(<<>>, bytes, L)
    BY <1>0
  <2> HIDE DEF h
  <2>2. DrainedFrom(<<>>, bytes, L) = DrainedFrom(h, bytes, L)
    <3>1. L \in 0 .. L /\ \A k \in L + 1 .. L : FALSE
      BY <1>0
    <3> QED
      BY <3>1, DrainedFromLooksAhead
  <2>3. \A n \in L - 0 .. L : n = L
    BY <1>0
  <2>4. Up(h, 0)
    BY <2>1, <2>2, <2>3
  <2> HIDE DEF Up
  <2> QED
    BY <1>0, <2>4
<1>2. ASSUME NEW d \in 0 .. L - 1, d \in T PROVE d + 1 \in T
  <2>1. PICK h : Up(h, d)
    BY <1>2
  <2> DEFINE p == L - (d + 1)
             k == [n \in 0 .. L |-> IF n = p THEN DrainedFrom(h, bytes, n) ELSE h[n]]
  <2>2. p \in 0 .. L /\ p \in Nat
    BY <1>0
  <2>3. k[p] = DrainedFrom(h, bytes, p) /\ \A n \in p + 1 .. L : k[n] = h[n]
    BY <2>2
  <2>4. \A n \in p + 1 .. L : h[n] = DrainedFrom(h, bytes, n)
    <3>1. p + 1 = L - d
      BY <1>0
    <3> QED
      BY <2>1, <3>1
  <2> HIDE DEF k
  <2>5. ASSUME NEW n \in p .. L PROVE DrainedFrom(k, bytes, n) = DrainedFrom(h, bytes, n)
    <3>1. n \in 0 .. L /\ n + 1 .. L \subseteq p + 1 .. L
      BY <2>2
    <3>2. \A m \in n + 1 .. L : k[m] = h[m]
      BY <2>3, <3>1
    <3> QED
      BY <3>1, <3>2, DrainedFromLooksAhead
  <2>6. \A n \in p .. L : k[n] = DrainedFrom(k, bytes, n)
    <3>1. ASSUME NEW n \in p .. L PROVE n = p \/ n \in p + 1 .. L
      BY <2>2
    <3> QED
      BY <2>3, <2>4, <2>5, <3>1
  <2>7. \E f : Up(f, d + 1)
    BY <2>6
  <2>8. d + 1 \in 0 .. L
    BY <1>0
  <2> HIDE DEF Up
  <2> QED
    BY <2>7, <2>8
<1>3. 0 .. L \subseteq T
  <2> HIDE DEF T
  <2> QED
    BY <1>0, <1>1, <1>2, UpTo
<1>4. PICK h : Up(h, L)
  BY <1>0, <1>3
<1> DEFINE g == [n \in 0 .. L |-> h[n]]
<1>5. \A n \in 0 .. L : g[n] = h[n] /\ h[n] = DrainedFrom(h, bytes, n)
  <2>1. L - L = 0
    BY <1>0
  <2> QED
    BY <1>4, <2>1
<1>6. g = [n \in 0 .. L |-> g[n]]
  OBVIOUS
<1> HIDE DEF g
<1>7. ASSUME NEW n \in 0 .. L PROVE g[n] = DrainedFrom(g, bytes, n)
  <2>1. \A k \in n + 1 .. L : k \in 0 .. L
    BY <1>0
  <2>2. DrainedFrom(g, bytes, n) = DrainedFrom(h, bytes, n)
    BY <1>5, <2>1, DrainedFromLooksAhead
  <2> QED
    BY <1>5, <2>2
<1>8. g = [n \in 0 .. Len(bytes) |-> DrainedFrom(g, bytes, n)]
  BY <1>6, <1>7
<1> QED
  BY <1>8 DEF Draining

LEMMA DrainedIs ==
  ASSUME NEW bytes, \E g : Draining(g, bytes)
  PROVE  \E g : Draining(g, bytes) /\ Drained(bytes) = g[0]
<1> DEFINE c == CHOOSE g : g = [n \in 0 .. Len(bytes) |-> DrainedFrom(g, bytes, n)]
<1>1. Drained(bytes) = c[0]
  BY DEF Drained
<1>2. Draining(c, bytes)
  BY DEF Draining
<1> QED
  BY <1>1, <1>2

LEMMA DrainedTakes ==
  ASSUME NEW bytes \in Seq(Bytes)
  PROVE  \A r \in Drained(bytes) : Takes(bytes, 0, r)
<1>1. PICK g : Draining(g, bytes) /\ Drained(bytes) = g[0]
  BY DrainingExists, DrainedIs
<1> DEFINE L == Len(bytes)
           Good(n) == \A r \in g[n] : Takes(bytes, n, r)
           T == {d \in 0 .. L : \A n \in L - d .. L : Good(n)}
<1>0. L \in Nat
  OBVIOUS
<1>2. \A n \in 0 .. L : g[n] = DrainedFrom(g, bytes, n)
  BY <1>1 DEF Draining
<1>3. ASSUME NEW n \in 0 .. L, \A k \in n + 1 .. L : Good(k) PROVE Good(n)
  BY <1>2, <1>3, DrainedFromTakes
<1> HIDE DEF Good
<1>4. 0 \in T
  <2>1. L \in 0 .. L /\ \A k \in L + 1 .. L : FALSE
    BY <1>0
  <2>2. Good(L)
    BY <1>3, <2>1
  <2>3. \A n \in L - 0 .. L : n = L
    BY <1>0
  <2> QED
    BY <1>0, <2>2, <2>3
<1>5. ASSUME NEW d \in 0 .. L - 1, d \in T PROVE d + 1 \in T
  <2> DEFINE p == L - (d + 1)
  <2>1. p \in 0 .. L /\ p + 1 = L - d
    BY <1>0
  <2>2. \A k \in p + 1 .. L : Good(k)
    BY <1>5, <2>1
  <2>3. Good(p)
    BY <1>3, <2>1, <2>2
  <2>4. ASSUME NEW n \in p .. L PROVE n = p \/ n \in p + 1 .. L
    BY <1>0
  <2>5. \A n \in p .. L : Good(n)
    BY <2>2, <2>3, <2>4
  <2> QED
    BY <1>0, <2>5
<1>6. 0 .. L \subseteq T
  <2> HIDE DEF T
  <2> QED
    BY <1>0, <1>4, <1>5, UpTo
<1>7. Good(0)
  <2>1. L \in T
    BY <1>0, <1>6
  <2>2. \A n \in L - L .. L : Good(n)
    BY <2>1
  <2>3. 0 \in L - L .. L
    BY <1>0
  <2> QED
    BY <2>2, <2>3
<1> QED
  BY <1>1, <1>7 DEF Good

\* What is taken behind the n-th byte is taken of all of them.
LEMMA TakenBehind ==
  ASSUME NEW bytes \in Seq(Bytes), NEW n \in 0 .. Len(bytes), NEW r, Takes(From(bytes, n), 0, r)
  PROVE  Takes(bytes, n, r)
<1> DEFINE rest == From(bytes, n)
           L == Len(r.frames)
<1>1. /\ rest \in Seq(Bytes) /\ Len(rest) = Len(bytes) - n
      /\ \A i \in 1 .. Len(bytes) - n : rest[i] = bytes[n + i]
      /\ Len(bytes) \in Nat /\ n \in Nat
  BY FromIs
<1>2. PICK cut \in 0 .. Len(rest) : \E at \in [1 .. Len(r.frames) -> 0 + 1 .. cut] : TakenAt(rest, r, at, cut)
  BY DEF Takes
<1>3. PICK at \in [1 .. L -> 0 + 1 .. cut] : TakenAt(rest, r, at, cut)
  BY <1>2
<1> HIDE DEF rest
<1>4. r.link.rx = From(rest, cut) /\ \A i \in 1 .. L : rest[at[i]] = <<r.frames[i], 1>>
  BY <1>3 DEF TakenAt
<1>5. \A i, j \in 1 .. L : i < j => at[i] < at[j]
  BY <1>3 DEF TakenAt
<1>6. \A i \in 1 .. L : at[i] \in 1 .. cut /\ at[i] \in Nat
  BY <1>3
<1> HIDE DEF L
<1> DEFINE b == [i \in 1 .. L |-> n + at[i]]
<1>7. n + cut \in n .. Len(bytes) /\ cut \in Nat
  BY <1>1, <1>2
<1>8. b \in [1 .. L -> n + 1 .. n + cut]
  <2>1. \A i \in 1 .. L : n + at[i] \in n + 1 .. n + cut
    BY <1>1, <1>6, <1>7
  <2> QED
    BY <2>1
<1>9. \A i \in 1 .. L : b[i] = n + at[i]
  OBVIOUS
<1> HIDE DEF b
<1>10. From(rest, cut) = From(bytes, n + cut)
  <2>1. From(rest, cut) \in Seq(Bytes) /\ Len(From(rest, cut)) = Len(rest) - cut
        /\ \A i \in 1 .. Len(rest) - cut : From(rest, cut)[i] = rest[cut + i]
    BY <1>1, <1>2, FromIs
  <2>2. n + cut \in 0 .. Len(bytes)
    BY <1>1, <1>7
  <2>3. From(bytes, n + cut) \in Seq(Bytes) /\ Len(From(bytes, n + cut)) = Len(bytes) - (n + cut)
        /\ \A i \in 1 .. Len(bytes) - (n + cut) : From(bytes, n + cut)[i] = bytes[(n + cut) + i]
    BY <2>2, FromIs
  <2>4. Len(rest) - cut = Len(bytes) - (n + cut)
    BY <1>1, <1>2
  <2>5. ASSUME NEW i \in 1 .. Len(rest) - cut PROVE From(rest, cut)[i] = From(bytes, n + cut)[i]
    <3>1. cut + i \in 1 .. Len(bytes) - n /\ n + (cut + i) = (n + cut) + i
      BY <1>1, <1>2
    <3>2. rest[cut + i] = bytes[(n + cut) + i]
      BY <1>1, <3>1
    <3>3. From(bytes, n + cut)[i] = bytes[(n + cut) + i]
      BY <2>3, <2>4
    <3> QED
      BY <2>1, <3>2, <3>3
  <2> QED
    BY <2>1, <2>3, <2>4, <2>5, SeqEqual
<1>11. \A i \in 1 .. L : bytes[b[i]] = <<r.frames[i], 1>>
  <2>1. \A i \in 1 .. L : rest[at[i]] = bytes[n + at[i]]
    <3>1. ASSUME NEW i \in 1 .. L PROVE at[i] \in 1 .. Len(bytes) - n
      <4>1. at[i] \in 1 .. cut /\ cut \in 0 .. Len(bytes) - n /\ n \in Nat /\ Len(bytes) \in Nat
        BY <1>1, <1>2, <1>6
      <4> QED
        BY ONLY <4>1
    <3> QED
      BY ONLY <1>1, <3>1
  <2>2. \A i \in 1 .. L : rest[at[i]] = <<r.frames[i], 1>>
    BY <1>4
  <2> QED
    BY ONLY <1>9, <2>1, <2>2
<1>12. \A i, j \in 1 .. L : i < j => b[i] < b[j]
  BY <1>1, <1>5, <1>6, <1>9
<1>13. TakenAt(bytes, r, b, n + cut)
  BY <1>4, <1>10, <1>11, <1>12 DEF TakenAt, L
<1>14. \E c \in n .. Len(bytes) : \E a \in [1 .. Len(r.frames) -> n + 1 .. c] : TakenAt(bytes, r, a, c)
  BY <1>7, <1>8, <1>13 DEF L
<1> QED
  BY <1>14 DEF Takes

\* The typed part of a link.
LinkTyped(lk) ==
  /\ lk = [rx |-> lk.rx, progress |-> lk.progress, linked |-> lk.linked]
  /\ lk.rx \in Seq(Bytes) /\ (~lk.linked => lk.rx = <<>>)

LEMMA PollTakes ==
  ASSUME NEW lk, LinkTyped(lk), NEW packet \in Seq(Bytes), NEW r \in Poll(lk, packet)
  PROVE  Takes(lk.rx \o packet, 0, r)
<1> DEFINE seen == ScanMagic(packet, lk.progress)
           ends == {i \in 1 .. Len(packet) : seen[i] = MagicLen}
           first == CHOOSE i \in ends : \A j \in ends : i <= j
<1>1. CASE lk.linked
  <2>1. r \in Drained(lk.rx \o packet)
    BY <1>1 DEF Poll
  <2>2. lk.rx \o packet \in Seq(Bytes)
    BY DEF LinkTyped
  <2> QED
    BY <2>1, <2>2, DrainedTakes
<1>2. CASE ~lk.linked /\ ends # {}
  <2>1. r \in Drained(From(packet, first))
    BY <1>2 DEF Poll
  <2>2. \E i \in ends : \A j \in ends : i <= j
    <3>1. ends \in SUBSET Nat /\ ends # {}
      BY <1>2
    <3> HIDE DEF ends
    <3> QED
      BY <3>1, LeastOf
  <2> HIDE DEF seen
  <2>3. first \in ends
    <3> HIDE DEF ends
    <3> QED
      BY <2>2
  <2>4. first \in 0 .. Len(packet)
    BY <2>3
  <2> HIDE DEF first, ends
  <2>5. From(packet, first) \in Seq(Bytes)
    BY <2>4, FromIs
  <2>6. Takes(packet, first, r)
    BY <2>1, <2>4, <2>5, DrainedTakes, TakenBehind
  <2>7. Takes(packet, 0, r)
    <3>1. 0 \in 0 .. Len(packet) /\ first \in 0 .. Len(packet)
      BY <2>4
    <3> QED
      BY <2>6, <3>1, TakenLater
  <2>8. lk.rx \o packet = packet
    BY <1>2 DEF LinkTyped
  <2> QED
    BY <2>7, <2>8
<1>3. CASE ~lk.linked /\ ends = {}
  <2> DEFINE e == seen[Len(packet)]
  <2>1. r = [frames |-> <<>>, err |-> FALSE, link |-> [lk EXCEPT !.progress = e]]
    BY <1>3 DEF Poll
  <2> HIDE DEF e
  <2>2. [lk EXCEPT !.progress = e] = [rx |-> lk.rx, progress |-> e, linked |-> lk.linked]
    <3>1. lk = [rx |-> lk.rx, progress |-> lk.progress, linked |-> lk.linked]
      BY DEF LinkTyped
    <3>2. lk \in [rx : {lk.rx}, progress : {lk.progress}, linked : {lk.linked}]
      BY <3>1
    <3> QED
      BY <3>2
  <2>3. /\ r = [frames |-> r.frames, err |-> r.err, link |-> r.link] /\ r.frames = <<>>
        /\ r.link = [rx |-> r.link.rx, progress |-> r.link.progress, linked |-> r.link.linked]
        /\ r.link.rx = <<>> /\ lk.rx = <<>>
    <3>1. lk.rx = <<>>
      BY <1>3 DEF LinkTyped
    <3> QED
      BY <2>1, <2>2, <3>1
  <2>4. lk.rx \o packet = packet
    BY <2>3
  <2> DEFINE at == [i \in 1 .. 0 |-> 1]
  <2>5. Len(r.frames) = 0 /\ r.frames \in Seq(Frames) /\ Len(packet) \in 0 .. Len(packet)
        /\ From(packet, Len(packet)) = <<>>
    BY <2>3, FromIs
  <2>6. at \in [1 .. Len(r.frames) -> 0 + 1 .. Len(packet)]
    <3>1. 1 .. Len(r.frames) = 1 .. 0
      BY <2>5
    <3>2. at \in [1 .. 0 -> 0 + 1 .. Len(packet)]
      OBVIOUS
    <3> QED
      BY <3>1, <3>2
  <2>7. TakenAt(packet, r, at, Len(packet))
    BY <2>3, <2>5 DEF TakenAt
  <2> HIDE DEF at
  <2>8. Takes(packet, 0, r)
    BY <2>3, <2>5, <2>6, <2>7 DEF Takes
  <2> QED
    BY <2>4, <2>8
<1> QED
  BY <1>1, <1>2, <1>3

-------------------------------------------------------------------------------
(* The frames that are messages, in their order.                             *)
Picked(s, frames, b, n) ==
  /\ b \in [1 .. Len(s) -> 1 .. n]
  /\ \A i \in 1 .. Len(s) : s[i] = frames[b[i]] /\ s[i] # "magic"
  /\ \A i, j \in 1 .. Len(s) : i < j => b[i] < b[j]

LEMMA PickedNext ==
  ASSUME NEW frames \in Seq(Frames), NEW n \in Nat, n + 1 \in 1 .. Len(frames),
         NEW s \in Seq(Frames), NEW b, Picked(s, frames, b, n)
  PROVE  \E c : Picked(s \o (IF frames[n + 1] = "magic" THEN <<>> ELSE <<frames[n + 1]>>), frames, c, n + 1)
<1>1. CASE frames[n + 1] = "magic"
  <2>1. s \o <<>> = s
    OBVIOUS
  <2>2. b \in [1 .. Len(s) -> 1 .. n + 1]
    BY DEF Picked
  <2>3. Picked(s, frames, b, n + 1)
    BY <2>2 DEF Picked
  <2> QED
    BY <1>1, <2>1, <2>3
<1>2. CASE frames[n + 1] # "magic"
  <2> DEFINE L == Len(s)
             t == s \o <<frames[n + 1]>>
             c == [i \in 1 .. L + 1 |-> IF i = L + 1 THEN n + 1 ELSE b[i]]
  <2>1. L \in Nat /\ frames[n + 1] \in Frames
    OBVIOUS
  <2>2. Len(t) = L + 1 /\ t[L + 1] = frames[n + 1] /\ \A i \in 1 .. L : t[i] = s[i]
    BY <2>1
  <2>3. c[L + 1] = n + 1 /\ \A i \in 1 .. L : c[i] = b[i] /\ b[i] \in 1 .. n
    BY <2>1 DEF Picked
  <2>4. c \in [1 .. L + 1 -> 1 .. n + 1]
    <3>1. ASSUME NEW i \in 1 .. L + 1 PROVE (IF i = L + 1 THEN n + 1 ELSE b[i]) \in 1 .. n + 1
      <4>1. CASE i = L + 1
        BY <4>1
      <4>2. CASE i \in 1 .. L
        <5>1. b[i] \in 1 .. n
          BY <4>2 DEF Picked
        <5>2. i # L + 1
          BY <2>1, <4>2
        <5> QED
          BY <5>1, <5>2
      <4> QED
        BY <2>1, <4>1, <4>2
    <3> QED
      BY <3>1
  <2> HIDE DEF c, t
  <2>5. \A i \in 1 .. L + 1 : t[i] = frames[c[i]] /\ t[i] # "magic"
    <3>1. ASSUME NEW i \in 1 .. L PROVE t[i] = frames[c[i]] /\ t[i] # "magic"
      BY <2>2, <2>3 DEF Picked
    <3>2. \A i \in 1 .. L + 1 : i = L + 1 \/ i \in 1 .. L
      BY <2>1
    <3> QED
      BY <1>2, <2>2, <2>3, <3>1, <3>2
  <2>6. \A i, j \in 1 .. L + 1 : i < j => c[i] < c[j]
    <3>1. ASSUME NEW i \in 1 .. L + 1, NEW j \in 1 .. L + 1, i < j PROVE c[i] < c[j]
      <4>1. i \in 1 .. L /\ c[i] = b[i] /\ b[i] \in 1 .. n
        BY <2>1, <2>3, <3>1
      <4>2. CASE j = L + 1
        BY <2>3, <4>1, <4>2
      <4>3. CASE j \in 1 .. L
        <5>1. b[i] < b[j]
          BY <3>1, <4>1, <4>3 DEF Picked
        <5> QED
          BY <2>3, <4>1, <4>3, <5>1
      <4> QED
        BY <2>1, <4>2, <4>3
    <3> QED
      BY <3>1
  <2>7. Picked(t, frames, c, n + 1)
    BY <2>2, <2>4, <2>5, <2>6 DEF Picked
  <2> QED
    BY <1>2, <2>7 DEF t
<1> QED
  BY <1>1, <1>2

LEMMA SpokenIs ==
  ASSUME NEW frames \in Seq(Frames)
  PROVE  Spoken(frames) \in Seq(Frames) /\ \E b : Picked(Spoken(frames), frames, b, Len(frames))
<1> DEFINE L == Len(frames)
           seqs == [i \in 1 .. L |-> IF frames[i] = "magic" THEN <<>> ELSE <<frames[i]>>]
<1>0. L \in Nat
  OBVIOUS
<1>1. seqs \in Seq(Seq(Frames)) /\ Len(seqs) = L
  <2>1. <<>> \in Seq(Frames)
    OBVIOUS
  <2>2. \A i \in 1 .. L : (IF frames[i] = "magic" THEN <<>> ELSE <<frames[i]>>) \in Seq(Frames)
    BY <2>1
  <2>3. seqs \in [1 .. L -> Seq(Frames)]
    BY <2>2
  <2> HIDE DEF seqs
  <2> QED
    BY <1>0, <2>3
<1>2. \A i \in 1 .. L : seqs[i] = IF frames[i] = "magic" THEN <<>> ELSE <<frames[i]>>
  OBVIOUS
<1>3. Spoken(frames) = FlattenSeq(seqs)
  BY DEF Spoken
<1> HIDE DEF seqs
<1>4. PICK g : FlattenedBy(g, seqs) /\ \A i \in 0 .. L : g[i] \in Seq(Frames)
  BY <1>1, Flattened
<1> DEFINE T == {n \in 0 .. L : \E b : Picked(g[n], frames, b, n)}
<1>5. 0 \in T
  <2>1. g[0] = <<>> /\ Len(<<>>) = 0
    BY <1>4 DEF FlattenedBy
  <2>2. Picked(g[0], frames, [i \in 1 .. 0 |-> 1], 0)
    BY <2>1 DEF Picked
  <2>3. \E b : Picked(g[0], frames, b, 0)
    BY <2>2
  <2> QED
    BY <1>0, <2>3
<1>6. ASSUME NEW n \in 0 .. L - 1, n \in T PROVE n + 1 \in T
  <2>1. PICK b : Picked(g[n], frames, b, n)
    BY <1>6
  <2>2. n \in Nat /\ n + 1 \in 1 .. L /\ (n + 1) - 1 = n /\ n \in 0 .. L /\ n + 1 \in 0 .. L
    BY <1>0
  <2>3. g[n + 1] = g[n] \o seqs[n + 1] /\ g[n] \in Seq(Frames)
    BY <1>1, <1>4, <2>2 DEF FlattenedBy
  <2>4. \E c : Picked(g[n + 1], frames, c, n + 1)
    BY <1>2, <2>1, <2>2, <2>3, PickedNext
  <2> QED
    BY <2>2, <2>4
<1>7. L \in T
  <2> HIDE DEF T
  <2>1. 0 .. L \subseteq T
    BY <1>0, <1>5, <1>6, UpTo
  <2> QED
    BY <1>0, <2>1
<1>8. g[L] = Spoken(frames)
  BY <1>1, <1>3, <1>4 DEF FlattenedBy
<1>9. Spoken(frames) \in Seq(Frames)
  BY <1>0, <1>4, <1>8
<1> QED
  BY <1>7, <1>8, <1>9

-------------------------------------------------------------------------------
(* One order: the messages delivered and those on the wire.                  *)

\* Messages ms begin at the places b of w, none behind cut.
Begins(w, ms, b, cut) ==
  /\ b \in [1 .. Len(ms) -> 1 .. cut]
  /\ \A i \in 1 .. Len(ms) : w[b[i]] = <<ms[i], 1>> /\ ms[i] # "magic"
  /\ \A i, j \in 1 .. Len(ms) : i < j => b[i] < b[j]

LEMMA PacketIs ==
  ASSUME toDevice \in Seq(Bytes), NEW packet \in Packets \cup {<<>>}
  PROVE  /\ packet \in Seq(Bytes) /\ Len(packet) \in 0 .. Len(toDevice)
         /\ \A i \in 1 .. Len(packet) : packet[i] = toDevice[i]
<1>1. CASE packet = <<>>
  BY <1>1
<1>2. CASE packet \in Packets
  <2>1. PICK n \in 1 .. PacketSize : n <= Len(toDevice) /\ packet = SubSeq(toDevice, 1, n)
    BY <1>2 DEF Packets
  <2>2. n \in 0 .. Len(toDevice)
    BY <2>1, WireAssumption
  <2>3. SubSeq(toDevice, 1, n) \in Seq(Bytes) /\ Len(SubSeq(toDevice, 1, n)) = n
        /\ \A i \in 1 .. n : SubSeq(toDevice, 1, n)[i] = toDevice[i]
    BY <2>2
  <2> QED
    BY <2>1, <2>2, <2>3
<1> QED
  BY <1>1, <1>2

\* The frames begin at those places, in their order.
TakenFrom(w, frames, at) ==
  /\ \A i \in 1 .. Len(frames) : w[at[i]] = <<frames[i], 1>>
  /\ \A i, j \in 1 .. Len(frames) : i < j => at[i] < at[j]

LEMMA PollCuts ==
  ASSUME WireTyped, NEW packet \in Packets \cup {<<>>}, NEW r \in Poll(link, packet)
  PROVE  /\ LinkTyped(r.link) /\ Rest(packet) \in Seq(Bytes) /\ r.frames \in Seq(Frames)
         /\ r = [frames |-> r.frames, err |-> r.err, link |-> r.link]
         /\ \E cut \in 0 .. Len(Coming) : \E at \in [1 .. Len(r.frames) -> 1 .. cut] :
              TakenFrom(Coming, r.frames, at) /\ r.link.rx \o Rest(packet) = From(Coming, cut)
<1> DEFINE all == link.rx \o packet
           w == Coming
           K == Len(link.rx)  P == Len(packet)  D == Len(toDevice)
<1>1. LinkTyped(link) /\ link.rx \in Seq(Bytes) /\ toDevice \in Seq(Bytes)
  BY DEF WireTyped, LinkTyped
<1>2. /\ packet \in Seq(Bytes) /\ P \in 0 .. D
      /\ \A i \in 1 .. P : packet[i] = toDevice[i]
  BY <1>1, PacketIs
<1>3. Takes(all, 0, r)
  BY <1>1, <1>2, PollTakes
<1>4. /\ all \in Seq(Bytes) /\ Len(all) = K + P /\ K \in Nat /\ P \in Nat /\ D \in Nat
      /\ w \in Seq(Bytes) /\ Len(w) = K + D
  BY <1>1, <1>2 DEF Coming
<1>5. \A i \in 1 .. K + P : all[i] = w[i]
  <2>1. ASSUME NEW i \in 1 .. K + P PROVE all[i] = w[i]
    <3>1. CASE i <= K
      BY <1>1, <1>2, <1>4, <3>1 DEF Coming
    <3>2. CASE i > K
      <4>1. all[i] = packet[i - K] /\ w[i] = toDevice[i - K] /\ i - K \in 1 .. P
        BY <1>1, <1>2, <1>4, <3>2 DEF Coming
      <4> QED
        BY <1>2, <4>1
    <3> QED
      BY <1>4, <3>1, <3>2
  <2> QED
    BY <2>1
<1>6. Rest(packet) = From(toDevice, P)
  BY DEF Rest
<1>7. /\ Rest(packet) \in Seq(Bytes) /\ Len(Rest(packet)) = D - P
      /\ \A i \in 1 .. D - P : Rest(packet)[i] = toDevice[P + i]
  <2>1. P \in 0 .. Len(toDevice)
    BY <1>2
  <2> HIDE DEF P
  <2>2. /\ From(toDevice, P) \in Seq(Bytes) /\ Len(From(toDevice, P)) = Len(toDevice) - P
        /\ \A i \in 1 .. Len(toDevice) - P : From(toDevice, P)[i] = toDevice[P + i]
    BY <1>1, <2>1, FromIs
  <2> QED
    BY <1>6, <2>2
<1> HIDE DEF all, w, K, P, D
<1>8. PICK cut \in 0 .. Len(all) : \E at \in [1 .. Len(r.frames) -> 0 + 1 .. cut] : TakenAt(all, r, at, cut)
  BY <1>3 DEF Takes
<1>9. PICK at \in [1 .. Len(r.frames) -> 0 + 1 .. cut] : TakenAt(all, r, at, cut)
  BY <1>8
<1>10. r.link.rx = From(all, cut) /\ cut \in Nat /\ cut \in 0 .. Len(w) /\ cut <= K + P
  BY <1>2, <1>4, <1>8, <1>9 DEF TakenAt
<1>11. LinkTyped(r.link)
  <2>1. r.link.rx \in Seq(Bytes)
    BY <1>4, <1>8, <1>10, FromIs
  <2> QED
    BY <1>3, <2>1 DEF Takes, LinkTyped
<1>12. r.link.rx \o Rest(packet) = From(w, cut)
  <2>1. /\ From(all, cut) \in Seq(Bytes) /\ Len(From(all, cut)) = (K + P) - cut
        /\ \A i \in 1 .. (K + P) - cut : From(all, cut)[i] = all[cut + i]
    BY <1>4, <1>8, FromIs
  <2>2. /\ From(w, cut) \in Seq(Bytes) /\ Len(From(w, cut)) = (K + D) - cut
        /\ \A i \in 1 .. (K + D) - cut : From(w, cut)[i] = w[cut + i]
    BY <1>4, <1>10, FromIs
  <2> DEFINE x == r.link.rx
             y == Rest(packet)
  <2>3. /\ x \o y \in Seq(Bytes) /\ Len(x \o y) = (K + D) - cut
        /\ \A i \in 1 .. (K + P) - cut : (x \o y)[i] = x[i]
        /\ \A i \in (K + P) - cut + 1 .. (K + D) - cut : (x \o y)[i] = y[i - ((K + P) - cut)]
    <3>1. x \in Seq(Bytes) /\ Len(x) = (K + P) - cut /\ y \in Seq(Bytes) /\ Len(y) = D - P
      BY <1>7, <1>10, <2>1
    <3> HIDE DEF x, y
    <3> QED
      BY <1>4, <1>10, <3>1
  <2>4. ASSUME NEW i \in 1 .. (K + D) - cut PROVE (x \o y)[i] = From(w, cut)[i]
    <3>0. From(w, cut)[i] = w[cut + i]
      BY <2>2
    <3>1. CASE i \in 1 .. (K + P) - cut
      <4>1. cut + i \in 1 .. K + P
        BY <1>4, <1>10, <3>1
      <4>2. x[i] = all[cut + i]
        BY <1>10, <2>1, <3>1
      <4> QED
        BY <1>5, <2>3, <3>0, <3>1, <4>1, <4>2
    <3>2. CASE i \in (K + P) - cut + 1 .. (K + D) - cut
      <4>1. /\ i - ((K + P) - cut) \in 1 .. D - P
            /\ P + (i - ((K + P) - cut)) = (cut + i) - K
            /\ (cut + i) - K \in 1 .. D
        BY <1>4, <1>10, <3>2
      <4>2. y[i - ((K + P) - cut)] = toDevice[(cut + i) - K]
        BY <1>7, <4>1
      <4>3. w[cut + i] = toDevice[(cut + i) - K]
        <5>1. cut + i \in K + 1 .. K + D
          BY <1>4, <1>10, <3>2
        <5>2. \A k \in Len(link.rx) + 1 .. Len(link.rx) + Len(toDevice) :
                (link.rx \o toDevice)[k] = toDevice[k - Len(link.rx)]
          BY <1>1
        <5> QED
          BY <5>1, <5>2 DEF w, Coming, K, D
      <4> QED
        BY <2>3, <3>0, <3>2, <4>2, <4>3
    <3>3. i \in 1 .. (K + P) - cut \/ i \in (K + P) - cut + 1 .. (K + D) - cut
      BY <1>4, <1>10
    <3> QED
      BY <3>1, <3>2, <3>3
  <2> HIDE DEF x, y
  <2>5. x \o y = From(w, cut)
    BY <2>2, <2>3, <2>4, SeqEqual
  <2> QED
    BY <2>5 DEF x, y
<1>13. r.frames \in Seq(Frames) /\ r = [frames |-> r.frames, err |-> r.err, link |-> r.link]
  BY <1>3 DEF Takes
<1>14. at \in [1 .. Len(r.frames) -> 1 .. cut]
  BY <1>9
<1>15. TakenFrom(w, r.frames, at)
  <2>1. ASSUME NEW i \in 1 .. Len(r.frames) PROVE w[at[i]] = <<r.frames[i], 1>>
    <3>1. at[i] \in 1 .. K + P
      BY <1>4, <1>10, <1>14
    <3> QED
      BY <1>5, <1>9, <3>1 DEF TakenAt
  <2> QED
    BY <1>9, <2>1 DEF TakenAt, TakenFrom
<1>16. \E c \in 0 .. Len(w) : \E a \in [1 .. Len(r.frames) -> 1 .. c] :
          TakenFrom(w, r.frames, a) /\ r.link.rx \o Rest(packet) = From(w, c)
  BY <1>10, <1>12, <1>14, <1>15
<1> QED
  BY <1>7, <1>11, <1>13, <1>16 DEF w

LEMMA PollSpeaks ==
  ASSUME WireTyped, NEW packet \in Packets \cup {<<>>}, NEW r \in Poll(link, packet)
  PROVE  /\ LinkTyped(r.link) /\ Rest(packet) \in Seq(Bytes)
         /\ \E cut \in 0 .. Len(Coming) : \E b :
              /\ Begins(Coming, Spoken(r.frames), b, cut)
              /\ r.link.rx \o Rest(packet) = From(Coming, cut)
<1> DEFINE ms == Spoken(r.frames)
           w == Coming
<1>1. /\ LinkTyped(r.link) /\ Rest(packet) \in Seq(Bytes) /\ r.frames \in Seq(Frames)
      /\ \E cut \in 0 .. Len(w) : \E at \in [1 .. Len(r.frames) -> 1 .. cut] :
           TakenFrom(w, r.frames, at) /\ r.link.rx \o Rest(packet) = From(w, cut)
  BY PollCuts
<1> HIDE DEF w
<1>2. PICK cut \in 0 .. Len(w) : \E at \in [1 .. Len(r.frames) -> 1 .. cut] :
        TakenFrom(w, r.frames, at) /\ r.link.rx \o Rest(packet) = From(w, cut)
  BY <1>1
<1>3. PICK at \in [1 .. Len(r.frames) -> 1 .. cut] :
        TakenFrom(w, r.frames, at) /\ r.link.rx \o Rest(packet) = From(w, cut)
  BY <1>2
<1>14. PICK p : Picked(ms, r.frames, p, Len(r.frames))
  BY <1>1, SpokenIs
<1>15. ms \in Seq(Frames) /\ Len(ms) \in Nat
  BY <1>1, SpokenIs
<1> HIDE DEF ms
<1> DEFINE L == Len(ms)
           b == [i \in 1 .. L |-> at[p[i]]]
<1>16. ASSUME NEW i \in 1 .. L PROVE b[i] = at[p[i]] /\ p[i] \in 1 .. Len(r.frames) /\ at[p[i]] \in 1 .. cut
  <2>1. p[i] \in 1 .. Len(r.frames)
    BY <1>14 DEF Picked
  <2> QED
    BY <1>3, <2>1
<1>17. b \in [1 .. L -> 1 .. cut]
  BY <1>16
<1> HIDE DEF b
<1>18. ASSUME NEW i \in 1 .. L PROVE w[b[i]] = <<ms[i], 1>> /\ ms[i] # "magic"
  <2>1. w[at[p[i]]] = <<r.frames[p[i]], 1>>
    BY <1>3, <1>16 DEF TakenFrom
  <2>2. ms[i] = r.frames[p[i]] /\ ms[i] # "magic"
    BY <1>14 DEF Picked
  <2> QED
    BY <1>16, <2>1, <2>2
<1>19. ASSUME NEW i \in 1 .. L, NEW j \in 1 .. L, i < j PROVE b[i] < b[j]
  <2>1. p[i] < p[j]
    BY <1>14, <1>19 DEF Picked
  <2> QED
    BY <1>3, <1>16, <2>1 DEF TakenFrom
<1>20. Begins(w, ms, b, cut)
  BY <1>17, <1>18, <1>19 DEF Begins
<1>21. \E c \in 0 .. Len(w) : \E q : Begins(w, ms, q, c) /\ r.link.rx \o Rest(packet) = From(w, c)
  BY <1>3, <1>20
<1> QED
  BY <1>1, <1>21 DEF w, ms

\* The messages that begin before the cut are delivered, the rest is still to come.
LEMMA InTurnTaken ==
  ASSUME NEW a, NEW g \in Seq(Frames), NEW w \in Seq(Bytes), NEW ms \in Seq(Frames),
         NEW cut \in 0 .. Len(w), NEW b, Begins(w, ms, b, cut), InTurn(a, g, w)
  PROVE  InTurn(a, g \o ms, From(w, cut))
<1> DEFINE G == Len(g)  L == Len(ms)  W == Len(w)
           h == g \o ms
           v == From(w, cut)
<1>1. G \in Nat /\ L \in Nat /\ W \in Nat /\ cut \in 0 .. W
  OBVIOUS
<1>2. /\ Len(h) = G + L /\ \A i \in 1 .. G : h[i] = g[i]
      /\ \A i \in G + 1 .. G + L : h[i] = ms[i - G]
  OBVIOUS
<1>3. Len(v) = W - cut /\ \A i \in 1 .. W - cut : v[i] = w[cut + i]
  BY FromIs
<1>4. /\ \A i \in 1 .. L : b[i] \in 1 .. cut /\ b[i] \in 1 .. W /\ w[b[i]] = <<ms[i], 1>> /\ ms[i] # "magic"
      /\ \A i, j \in 1 .. L : i < j => b[i] < b[j]
  BY <1>1 DEF Begins
<1>5. \A i \in 1 .. L : IsHead(w[b[i]]) /\ w[b[i]][1] = ms[i]
  BY <1>4 DEF IsHead
<1> DEFINE Headed == {i \in 1 .. W : IsHead(w[i])}
<1>6. /\ \A i \in 1 .. G : Sent(a, g[i])
      /\ \A i \in Headed : Sent(a, w[i][1])
      /\ \A i, j \in 1 .. G : i < j => Earlier(a, g[i], g[j])
      /\ \A i, j \in Headed : i < j => Earlier(a, w[i][1], w[j][1])
      /\ \A i \in 1 .. G, j \in Headed : Earlier(a, g[i], w[j][1])
  BY DEF InTurn
<1>7. \A i \in 1 .. L : b[i] \in Headed /\ w[b[i]][1] = ms[i] /\ b[i] <= cut /\ b[i] \in Nat
  BY <1>1, <1>4, <1>5
<1>8. \A i \in 1 .. W - cut : cut + i \in 1 .. W /\ (IsHead(v[i]) => cut + i \in Headed)
  BY <1>1, <1>3
<1>9. \A i \in G + 1 .. G + L : i - G \in 1 .. L
  BY <1>1
<1>10. ASSUME NEW i \in 1 .. G + L PROVE i \in 1 .. G \/ i \in G + 1 .. G + L
  BY <1>1
<1> HIDE DEF G, L, W, h, v, Headed
<1>11. ASSUME NEW i \in 1 .. G + L PROVE Sent(a, h[i])
  <2>1. CASE i \in 1 .. G
    BY <1>2, <1>6, <2>1
  <2>2. CASE i \in G + 1 .. G + L
    BY <1>2, <1>6, <1>7, <1>9, <2>2
  <2> QED
    BY <1>10, <2>1, <2>2
<1>12. ASSUME NEW i \in 1 .. W - cut, IsHead(v[i]) PROVE Sent(a, v[i][1])
  BY <1>3, <1>6, <1>8, <1>12
<1>13. ASSUME NEW i \in 1 .. G + L, NEW j \in 1 .. G + L, i < j PROVE Earlier(a, h[i], h[j])
  <2>1. CASE i \in 1 .. G /\ j \in 1 .. G
    BY <1>2, <1>6, <1>13, <2>1
  <2>2. CASE i \in 1 .. G /\ j \in G + 1 .. G + L
    <3>1. b[j - G] \in Headed /\ w[b[j - G]][1] = ms[j - G] /\ h[j] = ms[j - G] /\ h[i] = g[i]
      BY <1>2, <1>7, <1>9, <2>2
    <3> QED
      BY <1>6, <2>2, <3>1
  <2>3. CASE i \in G + 1 .. G + L /\ j \in G + 1 .. G + L
    <3>1. /\ b[j - G] \in Headed /\ w[b[j - G]][1] = ms[j - G] /\ h[j] = ms[j - G]
          /\ b[i - G] \in Headed /\ w[b[i - G]][1] = ms[i - G] /\ h[i] = ms[i - G]
      BY <1>2, <1>7, <1>9, <2>3
    <3>2. b[i - G] < b[j - G]
      <4>1. i - G \in 1 .. L /\ j - G \in 1 .. L
        BY <1>9, <2>3
      <4>2. i - G < j - G
        BY <1>1, <1>13
      <4> QED
        BY <1>4, <4>1, <4>2
    <3> QED
      BY <1>6, <3>1, <3>2
  <2>4. CASE i \in G + 1 .. G + L /\ j \in 1 .. G
    BY <1>1, <1>13, <2>4
  <2> QED
    BY <1>10, <2>1, <2>2, <2>3, <2>4
<1>14. ASSUME NEW i \in 1 .. W - cut, NEW j \in 1 .. W - cut, i < j, IsHead(v[i]), IsHead(v[j])
       PROVE  Earlier(a, v[i][1], v[j][1])
  <2>1. cut + i < cut + j
    BY <1>1, <1>14
  <2>2. cut + i \in Headed /\ cut + j \in Headed /\ v[i] = w[cut + i] /\ v[j] = w[cut + j]
    BY <1>3, <1>8, <1>14
  <2> QED
    BY <1>6, <2>1, <2>2
<1>15. ASSUME NEW i \in 1 .. G + L, NEW j \in 1 .. W - cut, IsHead(v[j])
       PROVE  Earlier(a, h[i], v[j][1])
  <2>1. cut + j \in Headed /\ v[j] = w[cut + j]
    BY <1>3, <1>8, <1>15
  <2>2. CASE i \in 1 .. G
    BY <1>2, <1>6, <2>1, <2>2
  <2>3. CASE i \in G + 1 .. G + L
    <3>1. b[i - G] \in Headed /\ w[b[i - G]][1] = h[i] /\ b[i - G] <= cut /\ b[i - G] \in Nat
      BY <1>2, <1>7, <1>9, <2>3
    <3>2. b[i - G] < cut + j
      BY <1>1, <3>1
    <3> QED
      BY <1>6, <2>1, <3>1, <3>2
  <2> QED
    BY <1>10, <2>2, <2>3
<1>16. InTurn(a, h, v)
  BY <1>2, <1>3, <1>11, <1>12, <1>13, <1>14, <1>15 DEF InTurn
<1> QED
  BY <1>16 DEF h, v

\* What is lost from the end of the wire changes no order.
LEMMA InTurnCut ==
  ASSUME NEW a, NEW g, NEW w \in Seq(Bytes), NEW v \in Seq(Bytes), Len(v) <= Len(w),
         \A i \in 1 .. Len(v) : v[i] = w[i], InTurn(a, g, w)
  PROVE  InTurn(a, g, v)
<1>1. \A i \in 1 .. Len(v) : i \in 1 .. Len(w) /\ v[i] = w[i]
  OBVIOUS
<1> QED
  BY <1>1 DEF InTurn

LEMMA EncodedIs ==
  ASSUME NEW f \in Frames
  PROVE  /\ Encoded(f) \in Seq(Bytes) /\ Len(Encoded(f)) = Length[f]
         /\ \A i \in 1 .. Length[f] : Encoded(f)[i] = <<f, i>>
<1>1. Length[f] \in Nat
  BY FramesAssumption
<1>2. \A i \in 1 .. Length[f] : <<f, i>> \in Bytes
  <2>1. ASSUME NEW i \in 1 .. Length[f] PROVE <<f, i>> \in Bytes
    <3>1. <<f, i>> \in (Frames \cup DOMAIN Declared) \X Nat /\ <<f, i>>[1] = f /\ <<f, i>>[2] = i
      BY <1>1
    <3> QED
      BY <3>1 DEF Bytes
  <2> QED
    BY <2>1
<1>3. Encoded(f) \in [1 .. Length[f] -> Bytes]
  BY <1>2 DEF Encoded
<1>4. \A i \in 1 .. Length[f] : Encoded(f)[i] = <<f, i>>
  BY DEF Encoded
<1> QED
  BY <1>1, <1>3, <1>4

\* One frame more on the wire: the magic bytes, or the message sent last.
LEMMA InTurnEncoded ==
  ASSUME NEW a, NEW c, NEW g, NEW w \in Seq(Bytes), NEW f \in Frames, InTurn(a, g, w),
         \A x : Sent(a, x) => Sent(c, x),
         \A x, y : Earlier(a, x, y) => Earlier(c, x, y),
         f # "magic" => Sent(c, f) /\ \A x : Sent(a, x) => Earlier(c, x, f)
  PROVE  InTurn(c, g, w \o Encoded(f))
<1> DEFINE v == w \o Encoded(f)
           W == Len(w)
           F == Length[f]
<1>1. W \in Nat /\ F \in Nat /\ Len(v) = W + F
  <2>1. Encoded(f) \in Seq(Bytes) /\ Len(Encoded(f)) = F
    BY EncodedIs
  <2>2. F \in Nat
    BY FramesAssumption
  <2> QED
    BY <2>1, <2>2
<1>2. \A i \in 1 .. W : v[i] = w[i]
  BY EncodedIs
<1>3. \A i \in W + 1 .. W + F : v[i] = <<f, i - W>>
  <2>1. ASSUME NEW i \in W + 1 .. W + F PROVE v[i] = <<f, i - W>>
    <3>1. v[i] = Encoded(f)[i - W]
      BY EncodedIs
    <3>2. i - W \in 1 .. F
      BY <1>1
    <3> HIDE DEF v, W
    <3> QED
      BY <3>1, <3>2, EncodedIs
  <2> QED
    BY <2>1
<1> HIDE DEF v, W, F
<1>4. ASSUME NEW i \in W + 1 .. W + F, IsHead(v[i]) PROVE i = W + 1 /\ f # "magic" /\ v[i][1] = f
  <2>1. i - W = 1 /\ f # "magic" /\ v[i][1] = f
    BY <1>3, <1>4 DEF IsHead
  <2> QED
    BY <1>1, <2>1
<1>5. ASSUME NEW i \in 1 .. W + F PROVE i \in 1 .. W \/ i \in W + 1 .. W + F
  BY <1>1
<1>6. /\ \A i \in 1 .. Len(g) : Sent(a, g[i])
      /\ \A i \in 1 .. W : IsHead(v[i]) => Sent(a, v[i][1])
      /\ \A i, j \in 1 .. Len(g) : i < j => Earlier(a, g[i], g[j])
      /\ \A i, j \in 1 .. W : i < j /\ IsHead(v[i]) /\ IsHead(v[j]) => Earlier(a, v[i][1], v[j][1])
      /\ \A i \in 1 .. Len(g), j \in 1 .. W : IsHead(v[j]) => Earlier(a, g[i], v[j][1])
  BY <1>2 DEF InTurn, W
<1>7. ASSUME NEW i \in 1 .. W + F, IsHead(v[i]) PROVE Sent(c, v[i][1])
  BY <1>4, <1>5, <1>6, <1>7
<1>8. ASSUME NEW i \in 1 .. W + F, NEW j \in 1 .. W + F, i < j, IsHead(v[i]), IsHead(v[j])
      PROVE  Earlier(c, v[i][1], v[j][1])
  <2>1. CASE i \in 1 .. W /\ j \in 1 .. W
    BY <1>6, <1>8, <2>1
  <2>2. CASE i \in 1 .. W /\ j \in W + 1 .. W + F
    BY <1>4, <1>6, <1>8, <2>2
  <2>3. CASE i \in W + 1 .. W + F
    <3>1. i = W + 1
      BY <1>4, <1>8, <2>3
    <3>2. j \in W + 1 .. W + F
      BY <1>1, <1>8, <3>1
    <3>3. j = W + 1
      BY <1>4, <1>8, <3>2
    <3> QED
      BY <1>1, <1>8, <3>1, <3>3
  <2> QED
    BY <1>5, <2>1, <2>2, <2>3
<1>9. ASSUME NEW i \in 1 .. Len(g), NEW j \in 1 .. W + F, IsHead(v[j]) PROVE Earlier(c, g[i], v[j][1])
  BY <1>4, <1>5, <1>6, <1>9
<1>10. InTurn(c, g, v)
  BY <1>1, <1>6, <1>7, <1>8, <1>9 DEF InTurn
<1> QED
  BY <1>10 DEF v

-------------------------------------------------------------------------------
(* The order of messages, action by action.                                  *)
LEMMA ComingTyped ==
  ASSUME WireTyped
  PROVE  /\ Coming \in Seq(Bytes) /\ Len(Coming) = Len(link.rx) + Len(toDevice)
         /\ LinkTyped(link)
BY DEF WireTyped, Coming, LinkTyped

LEMMA OrderStarts == CommsInit => InOrder
<1> SUFFICES ASSUME CommsInit PROVE InOrder
  OBVIOUS
<1>1. /\ link = [rx |-> <<>>, progress |-> 0, linked |-> FALSE] /\ toDevice = <<>>
      /\ asked = <<>> /\ got = <<>>
  BY DEF CommsInit, WireInit, LinkInit, Unlinked
<1>2. link.rx = <<>> /\ link.progress = 0 /\ link.linked = FALSE
  BY <1>1
<1>3. <<>> \in Seq(Bytes) /\ <<>> \in Seq(Messages) /\ Coming = <<>>
  BY <1>1, <1>2 DEF Coming
<1>4. WireTyped
  BY <1>1, <1>2, <1>3 DEF WireTyped
<1>5. InTurn(asked, got, Coming)
  BY <1>1, <1>3 DEF InTurn
<1> QED
  BY <1>1, <1>3, <1>4, <1>5 DEF InOrder

LEMMA SpokenAreMessages ==
  ASSUME InOrder, NEW ms \in Seq(Frames), NEW cut \in 0 .. Len(Coming), NEW b, Begins(Coming, ms, b, cut)
  PROVE  ms \in Seq(Messages)
<1>1. Coming \in Seq(Bytes) /\ Len(Coming) \in Nat
  BY ComingTyped DEF InOrder
<1>2. ASSUME NEW i \in 1 .. Len(ms) PROVE ms[i] \in Messages
  <2>1. b[i] \in 1 .. Len(Coming) /\ Coming[b[i]] = <<ms[i], 1>> /\ ms[i] # "magic"
    BY <1>1 DEF Begins
  <2>2. IsHead(Coming[b[i]]) /\ Coming[b[i]][1] = ms[i]
    BY <2>1 DEF IsHead
  <2>3. Sent(asked, ms[i])
    BY <2>1, <2>2 DEF InOrder, InTurn
  <2>4. asked \in Seq(Messages)
    BY DEF InOrder
  <2> QED
    BY <2>3, <2>4 DEF Sent
<1> QED
  BY <1>2

\* What one iteration makes of the wire, whatever the device writes.
Took(packet, r) ==
  /\ r \in Poll(link, packet)
  /\ link' = r.link /\ toDevice' = Rest(packet) /\ got' = got \o Spoken(r.frames)

LEMMA OrderKeptByTaking ==
  ASSUME InOrder, NEW packet \in Packets \cup {<<>>}, NEW r, Took(packet, r), asked' = asked
  PROVE  InOrder' /\ Spoken(r.frames) \in Seq(Messages)
<1>0. WireTyped /\ got \in Seq(Messages)
  BY DEF InOrder
<1>1. Coming \in Seq(Bytes) /\ Len(Coming) \in Nat
  BY <1>0, ComingTyped
<1>2. /\ LinkTyped(r.link) /\ Rest(packet) \in Seq(Bytes)
      /\ \E cut \in 0 .. Len(Coming) : \E b :
           /\ Begins(Coming, Spoken(r.frames), b, cut)
           /\ r.link.rx \o Rest(packet) = From(Coming, cut)
  BY <1>0, PollSpeaks DEF Took
<1>c. PICK cut \in 0 .. Len(Coming) : \E b :
        /\ Begins(Coming, Spoken(r.frames), b, cut)
        /\ r.link.rx \o Rest(packet) = From(Coming, cut)
  BY <1>2
<1>3. PICK b :
        /\ Begins(Coming, Spoken(r.frames), b, cut)
        /\ r.link.rx \o Rest(packet) = From(Coming, cut)
  BY <1>c
<1>4. Spoken(r.frames) \in Seq(Frames)
  <2>1. link.rx \o packet \in Seq(Bytes) /\ packet \in Seq(Bytes) /\ LinkTyped(link)
    BY <1>0, PacketIs, ComingTyped DEF WireTyped
  <2>2. r.frames \in Seq(Frames)
    BY <2>1, PollTakes DEF Took, Takes
  <2> QED
    BY <2>2, SpokenIs
<1>5. Spoken(r.frames) \in Seq(Messages)
  BY <1>3, <1>4, SpokenAreMessages
<1>6. got \in Seq(Frames)
  <2>1. Messages \subseteq Frames
    BY MessagesAssumption
  <2> QED
    BY <1>0, <2>1
<1>7. InTurn(asked, got \o Spoken(r.frames), From(Coming, cut))
  BY <1>1, <1>3, <1>4, <1>6, InTurnTaken DEF InOrder
<1>8. /\ link' = r.link /\ toDevice' = Rest(packet) /\ got' = got \o Spoken(r.frames)
  BY DEF Took
<1>9. Coming' = From(Coming, cut)
  BY <1>3, <1>8 DEF Coming
<1>10. WireTyped'
  BY <1>2, <1>8 DEF WireTyped, LinkTyped
<1>11. got' \in Seq(Messages)
  BY <1>0, <1>5, <1>8
<1>12. InTurn(asked', got', Coming')
  BY <1>7, <1>8, <1>9
<1>13. asked' \in Seq(Messages) /\ \A i, j \in 1 .. Len(asked') : asked'[i] = asked'[j] => i = j
  BY DEF InOrder
<1> QED
  BY <1>5, <1>10, <1>11, <1>12, <1>13 DEF InOrder

LEMMA IterationTakes ==
  ASSUME NEW packet, Iteration(packet)
  PROVE  \E r : Took(packet, r)
BY DEF Iteration, Took

LEMMA ShorterTail ==
  ASSUME NEW S, NEW x \in Seq(S), NEW y \in Seq(S), NEW z \in Seq(S), Len(z) <= Len(y),
         \A i \in 1 .. Len(z) : z[i] = y[i]
  PROVE  \A i \in 1 .. Len(x \o z) : (x \o z)[i] = (x \o y)[i]
<1> SUFFICES ASSUME NEW i \in 1 .. Len(x \o z) PROVE (x \o z)[i] = (x \o y)[i]
  OBVIOUS
<1>1. Len(x) \in Nat /\ Len(z) \in Nat /\ i \in 1 .. Len(x) + Len(z)
  OBVIOUS
<1>2. CASE i <= Len(x)
  BY <1>1, <1>2
<1>3. CASE i > Len(x)
  <2>1. i - Len(x) \in 1 .. Len(z) /\ i \in Len(x) + 1 .. Len(x) + Len(y)
    BY <1>1, <1>3
  <2>2. (x \o z)[i] = z[i - Len(x)] /\ (x \o y)[i] = y[i - Len(x)]
    BY <1>1, <1>3, <2>1
  <2> QED
    BY <2>1, <2>2
<1> QED
  BY <1>1, <1>2, <1>3

\* Nothing but the end of the wire is lost.
LEMMA OrderKeptByLoss ==
  ASSUME InOrder, link' = link, asked' = asked, got' = got,
         NEW n \in 0 .. Len(toDevice), toDevice' = SubSeq(toDevice, 1, n)
  PROVE  InOrder'
<1>1. /\ link.rx \in Seq(Bytes) /\ toDevice \in Seq(Bytes) /\ WireTyped
  BY DEF InOrder, WireTyped
<1>2. /\ toDevice' \in Seq(Bytes) /\ Len(toDevice') = n
      /\ \A i \in 1 .. n : toDevice'[i] = toDevice[i]
  BY <1>1
<1>3. WireTyped'
  BY <1>1, <1>2 DEF WireTyped
<1>4. Coming' = link.rx \o toDevice'
  BY DEF Coming
<1>5. Coming \in Seq(Bytes) /\ Coming' \in Seq(Bytes) /\ Len(Coming') <= Len(Coming)
  BY <1>1, <1>2, <1>4 DEF Coming
<1>6. ASSUME NEW i \in 1 .. Len(Coming') PROVE Coming'[i] = Coming[i]
  <2>1. Coming'[i] = (link.rx \o toDevice')[i] /\ i \in 1 .. Len(link.rx \o toDevice')
    BY <1>4
  <2>2. (link.rx \o toDevice')[i] = (link.rx \o toDevice)[i]
    <3>1. Len(toDevice') <= Len(toDevice) /\ \A k \in 1 .. Len(toDevice') : toDevice'[k] = toDevice[k]
      BY <1>1, <1>2
    <3>2. \A k \in 1 .. Len(link.rx \o toDevice') : (link.rx \o toDevice')[k] = (link.rx \o toDevice)[k]
      <4> DEFINE z == toDevice'
      <4>1. z \in Seq(Bytes) /\ link.rx \in Seq(Bytes) /\ toDevice \in Seq(Bytes)
        BY <1>1, <1>2
      <4>2. Len(z) <= Len(toDevice) /\ \A k \in 1 .. Len(z) : z[k] = toDevice[k]
        BY <3>1
      <4> HIDE DEF z
      <4>3. \A k \in 1 .. Len(link.rx \o z) : (link.rx \o z)[k] = (link.rx \o toDevice)[k]
        BY ONLY <4>1, <4>2, ShorterTail
      <4> QED
        BY <4>3 DEF z
    <3> QED
      BY <2>1, <3>2
  <2> QED
    BY <2>1, <2>2 DEF Coming
<1>7. InTurn(asked, got, Coming')
  BY <1>5, <1>6, InTurnCut DEF InOrder
<1> QED
  BY <1>3, <1>7 DEF InOrder

\* A frame more on the wire.
LEMMA OrderKeptByWriting ==
  ASSUME InOrder, link' = link, got' = got, NEW f \in Frames, toDevice' = toDevice \o Encoded(f),
         \/ f = "magic" /\ asked' = asked
         \/ f \in Messages /\ f \notin Range(asked) /\ asked' = Append(asked, f)
  PROVE  InOrder'
<1>1. /\ link.rx \in Seq(Bytes) /\ toDevice \in Seq(Bytes) /\ WireTyped /\ asked \in Seq(Messages)
      /\ \A i, j \in 1 .. Len(asked) : asked[i] = asked[j] => i = j
  BY DEF InOrder, WireTyped
<1>2. toDevice' \in Seq(Bytes)
  BY <1>1, EncodedIs
<1>3. WireTyped'
  BY <1>1, <1>2 DEF WireTyped
<1>4. Coming' = Coming \o Encoded(f)
  <2>1. Encoded(f) \in Seq(Bytes)
    BY EncodedIs
  <2>2. link.rx \o (toDevice \o Encoded(f)) = (link.rx \o toDevice) \o Encoded(f)
    <3>1. \A x, y, z \in Seq(Bytes) : x \o (y \o z) = (x \o y) \o z
      BY ConcatAssociative
    <3> QED
      BY <1>1, <2>1, <3>1
  <2> QED
    BY <2>2 DEF Coming
<1>5. /\ asked' \in Seq(Messages)
      /\ \A i, j \in 1 .. Len(asked') : asked'[i] = asked'[j] => i = j
      /\ \A i \in 1 .. Len(asked) : i \in 1 .. Len(asked') /\ asked'[i] = asked[i]
      /\ f # "magic" => asked' = Append(asked, f)
  <2>1. CASE f = "magic" /\ asked' = asked
    BY <1>1, <2>1
  <2>2. CASE f \in Messages /\ f \notin Range(asked) /\ asked' = Append(asked, f)
    <3>1. /\ asked' \in Seq(Messages) /\ Len(asked') = Len(asked) + 1 /\ asked'[Len(asked) + 1] = f
          /\ \A i \in 1 .. Len(asked) : i \in 1 .. Len(asked') /\ asked'[i] = asked[i]
      BY <1>1, <2>2
    <3>2. \A i \in 1 .. Len(asked) : asked[i] # f
      BY <1>1, <2>2 DEF Range
    <3>3. ASSUME NEW i \in 1 .. Len(asked'), NEW j \in 1 .. Len(asked'), asked'[i] = asked'[j] PROVE i = j
      <4>0. Len(asked) \in Nat
        BY <1>1
      <4>1. CASE i \in 1 .. Len(asked) /\ j \in 1 .. Len(asked)
        BY <1>1, <3>1, <3>3, <4>1
      <4>2. CASE i = Len(asked) + 1 /\ j \in 1 .. Len(asked)
        BY <3>1, <3>2, <3>3, <4>2
      <4>3. CASE j = Len(asked) + 1 /\ i \in 1 .. Len(asked)
        BY <3>1, <3>2, <3>3, <4>3
      <4> QED
        BY <3>1, <4>0, <4>1, <4>2, <4>3
    <3> QED
      BY <2>2, <3>1, <3>3
  <2> QED
    BY <2>1, <2>2
<1>6. \A x : Sent(asked, x) => Sent(asked', x)
  BY <1>5 DEF Sent
<1>7. \A x, y : Earlier(asked, x, y) => Earlier(asked', x, y)
  BY <1>5 DEF Earlier
<1>8. ASSUME f # "magic" PROVE Sent(asked', f) /\ \A x : Sent(asked, x) => Earlier(asked', x, f)
  <2>1. Len(asked) \in Nat /\ asked' = Append(asked, f)
    BY <1>1, <1>5, <1>8
  <2>2. Len(asked') = Len(asked) + 1 /\ asked'[Len(asked) + 1] = f
    BY <1>1, <2>1
  <2>3. Len(asked) + 1 \in 1 .. Len(asked')
    BY <2>1, <2>2
  <2>4. Sent(asked', f)
    BY <2>2, <2>3 DEF Sent
  <2>5. ASSUME NEW x, Sent(asked, x) PROVE Earlier(asked', x, f)
    <3>1. PICK k \in 1 .. Len(asked) : asked[k] = x
      BY <2>5 DEF Sent
    <3>2. k < Len(asked) + 1 /\ k \in 1 .. Len(asked') /\ asked'[k] = x
      BY <1>5, <2>1, <3>1
    <3> QED
      BY <2>2, <2>3, <3>2 DEF Earlier
  <2> QED
    BY <2>4, <2>5
<1>9. InTurn(asked', got, Coming \o Encoded(f))
  <2>1. Coming \in Seq(Bytes) /\ InTurn(asked, got, Coming)
    BY <1>1, ComingTyped DEF InOrder
  <2> QED
    BY <1>6, <1>7, <1>8, <2>1, InTurnEncoded
<1>10. got' \in Seq(Messages)
  BY DEF InOrder
<1> QED
  BY <1>3, <1>4, <1>5, <1>9, <1>10 DEF InOrder

LEMMA OrderUntouched ==
  ASSUME InOrder, UNCHANGED <<link, toDevice, asked, got>>
  PROVE  InOrder'
BY DEF InOrder, WireTyped, Coming

LEMMA OrderKept ==
  ASSUME InOrder, LinkNext
  PROVE  InOrder'
<1>1. CASE IteratePacket
  <2>1. PICK packet \in Packets : Iteration(packet)
    BY <1>1 DEF IteratePacket
  <2>2. asked' = asked /\ packet \in Packets \cup {<<>>}
    BY <1>1 DEF IteratePacket, hostVars
  <2> QED
    BY <2>1, <2>2, IterationTakes, OrderKeptByTaking
<1>2. CASE Iterate
  <2>1. Iteration(<<>>) /\ asked' = asked /\ <<>> \in Packets \cup {<<>>}
    BY <1>2 DEF Iterate, hostVars
  <2> QED
    BY <2>1, IterationTakes, OrderKeptByTaking
<1>3. CASE Connect
  <2>1. got' = got /\ asked' = asked /\ link' = link
    BY <1>3 DEF Connect, OpenPort, SendMagic, AwaitReply, deviceVars, hostVars
  <2>2. CASE SendMagic
    BY <2>1, <2>2, OrderKeptByWriting, FramesAssumption DEF SendMagic
  <2>3. CASE OpenPort \/ AwaitReply
    BY <2>1, <2>3, OrderUntouched DEF OpenPort, AwaitReply
  <2> QED
    BY <1>3, <2>2, <2>3 DEF Connect
<1>4. CASE Hear
  BY <1>4, OrderUntouched DEF Hear, deviceVars
<1>5. CASE Lost
  <2>1. got' = got /\ asked' = asked /\ link' = link
    BY <1>5 DEF Lost, PortLost, ClosePort, BusReset, deviceVars
  <2>2. \E n \in 0 .. Len(toDevice) : toDevice' = SubSeq(toDevice, 1, n)
    <3>1. CASE ClosePort
      BY <3>1 DEF ClosePort
    <3>2. CASE BusReset
      <4>1. toDevice \in Seq(Bytes)
        BY DEF InOrder, WireTyped
      <4>2. SubSeq(toDevice, 1, 0) = <<>> /\ 0 \in 0 .. Len(toDevice)
        BY <4>1
      <4> QED
        BY <3>2, <4>2 DEF BusReset
    <3> QED
      BY <1>5, <3>1, <3>2 DEF Lost, PortLost
  <2> QED
    BY <2>1, <2>2, OrderKeptByLoss
<1>6. CASE \E m \in Messages : Ask(m)
  <2>1. PICK m \in Messages : Ask(m)
    BY <1>6
  <2>2. m \in Frames
    BY MessagesAssumption
  <2> QED
    BY <2>1, <2>2, OrderKeptByWriting DEF Ask, deviceVars
<1> QED
  BY <1>1, <1>2, <1>3, <1>4, <1>5, <1>6 DEF LinkNext

-------------------------------------------------------------------------------
(* Answers without gaps.                                                     *)
Unbroken(q) == q \in Seq(Items) /\ Seamless(q) /\ Fresh(q)

LEMMA ItemIs ==
  ASSUME NEW x \in Items
  PROVE  /\ x = <<x[1], x[2]>> /\ x[2] \in Nat \ {0}
         /\ x[2] > 1 => x[1] \in Messages
BY DEF Items, MagicReply, Announcement

LEMMA SeamlessConcat ==
  ASSUME NEW p \in Seq(Items), Seamless(p), NEW q, Unbroken(q)
  PROVE  p \o q \in Seq(Items) /\ Seamless(p \o q) /\ (Fresh(p) => Fresh(p \o q))
<1> DEFINE P == Len(p)  Q == Len(q)  s == p \o q
<1>1. P \in Nat /\ Q \in Nat /\ q \in Seq(Items)
  BY DEF Unbroken
<1>2. /\ s \in Seq(Items) /\ Len(s) = P + Q
      /\ \A i \in 1 .. P : s[i] = p[i]
      /\ \A i \in P + 1 .. P + Q : s[i] = q[i - P]
  BY <1>1
<1>3. p # <<>> => P # 0
  OBVIOUS
<1>4. q # <<>> => Q # 0
  BY <1>1
<1> HIDE DEF P, Q, s
<1>5. ASSUME NEW i \in 2 .. P + Q, s[i][2] > 1 PROVE s[i - 1] = <<s[i][1], s[i][2] - 1>>
  <2>1. CASE i \in 2 .. P
    <3>1. i - 1 \in 1 .. P /\ i \in 1 .. P
      BY <1>1, <2>1
    <3>2. s[i - 1] = p[i - 1] /\ s[i] = p[i]
      BY <1>2, <3>1
    <3> QED
      BY <1>5, <2>1, <3>2 DEF Seamless, P
  <2>2. CASE i = P + 1
    <3>1. Q # 0 /\ i \in P + 1 .. P + Q /\ i - P = 1 /\ 1 \in 1 .. Q
      BY <1>1, <2>2
    <3>2. s[i] = q[1] /\ q # <<>>
      BY <1>2, <3>1 DEF Q
    <3>3. q[1][2] = 1
      BY <3>2 DEF Unbroken, Fresh
    <3> QED
      BY <1>5, <3>2, <3>3
  <2>3. CASE i \in P + 2 .. P + Q
    <3>1. i - P \in 2 .. Q /\ i \in P + 1 .. P + Q /\ i - 1 \in P + 1 .. P + Q /\ (i - 1) - P = (i - P) - 1
      BY <1>1, <2>3
    <3>2. s[i] = q[i - P] /\ s[i - 1] = q[(i - P) - 1]
      BY <1>2, <3>1
    <3> QED
      BY <1>5, <3>1, <3>2 DEF Seamless, Unbroken, Q
  <2> QED
    BY <1>1, <2>1, <2>2, <2>3
<1>6. Seamless(s)
  BY <1>2, <1>5 DEF Seamless
<1>7. ASSUME Fresh(p), s # <<>> PROVE s[1][2] = 1
  <2>1. CASE P # 0
    <3>1. 1 \in 1 .. P /\ p # <<>>
      BY <1>1, <2>1 DEF P
    <3> QED
      BY <1>2, <1>7, <3>1 DEF Fresh
  <2>2. CASE P = 0 /\ Q # 0
    <3>1. 1 \in P + 1 .. P + Q /\ 1 - P = 1 /\ q # <<>>
      BY <1>1, <2>2 DEF Q
    <3> QED
      BY <1>2, <3>1 DEF Unbroken, Fresh
  <2>3. CASE P = 0 /\ Q = 0
    <3>1. Len(s) = 0
      BY <1>2, <2>3
    <3> QED
      BY <1>2, <1>7, <3>1
  <2> QED
    BY <2>1, <2>2, <2>3
<1>8. Fresh(p) => Fresh(s)
  BY <1>7 DEF Fresh
<1> QED
  BY <1>2, <1>6, <1>8 DEF s

LEMMA UnbrokenConcat ==
  ASSUME NEW p, Unbroken(p), NEW q, Unbroken(q)
  PROVE  Unbroken(p \o q)
BY SeamlessConcat DEF Unbroken

LEMMA UnbrokenOne ==
  ASSUME NEW x \in Items, x[2] = 1
  PROVE  Unbroken(<<x>>)
BY DEF Unbroken, Seamless, Fresh

LEMMA UnbrokenNone == Unbroken(<<>>)
<1>1. <<>> \in Seq(Items) /\ Len(<<>>) = 0
  OBVIOUS
<1> QED
  BY <1>1 DEF Unbroken, Seamless, Fresh

LEMMA UnbrokenPrefix ==
  ASSUME NEW q, Unbroken(q), NEW n \in 0 .. Len(q)
  PROVE  Unbroken(SubSeq(q, 1, n))
<1> DEFINE s == SubSeq(q, 1, n)
<1>1. q \in Seq(Items) /\ Len(q) \in Nat
  BY DEF Unbroken
<1>2. s \in Seq(Items) /\ Len(s) = n /\ \A i \in 1 .. n : s[i] = q[i]
  BY <1>1
<1> HIDE DEF s
<1>3. ASSUME NEW i \in 2 .. n, s[i][2] > 1 PROVE s[i - 1] = <<s[i][1], s[i][2] - 1>>
  <2>1. i \in 1 .. n /\ i - 1 \in 1 .. n /\ i \in 2 .. Len(q)
    BY <1>1
  <2>2. s[i] = q[i] /\ s[i - 1] = q[i - 1]
    BY <1>2, <2>1
  <2> QED
    BY <1>3, <2>1, <2>2 DEF Unbroken, Seamless
<1>4. ASSUME s # <<>> PROVE s[1][2] = 1
  <2>1. n # 0
    BY <1>2, <1>4
  <2>2. 1 \in 1 .. n /\ q # <<>>
    BY <1>1, <2>1
  <2>3. s[1] = q[1]
    BY <1>2, <2>2
  <2> QED
    BY <2>2, <2>3 DEF Unbroken, Fresh
<1>5. Unbroken(s)
  BY <1>2, <1>3, <1>4 DEF Unbroken, Seamless, Fresh
<1> QED
  BY <1>5 DEF s

LEMMA WrittenIs ==
  ASSUME NEW q, Unbroken(q), NEW w \in Written(q)
  PROVE  Unbroken(w)
<1>1. w = <<>> \/ w = q \/ \E n \in 0 .. Len(q) : w = SubSeq(q, 1, n)
  BY DEF Written
<1> QED
  BY <1>1, UnbrokenNone, UnbrokenPrefix

LEMMA GreatestOf ==
  ASSUME NEW N \in Nat, NEW X \in SUBSET (0 .. N), X # {}
  PROVE  \E i \in X : \A j \in X : j <= i
<1> DEFINE Y == {N - i : i \in X}
<1>1. Y \in SUBSET Nat /\ Y # {}
  OBVIOUS
<1>2. \A j \in X : N - j \in Y
  OBVIOUS
<1>3. PICK y \in Y : \A z \in Y : y <= z
  <2> HIDE DEF Y
  <2> QED
    BY <1>1, LeastOf
<1>4. PICK i \in X : y = N - i
  BY <1>3
<1>5. ASSUME NEW j \in X PROVE j <= i
  <2>1. y <= N - j
    BY <1>2, <1>3
  <2>2. i \in 0 .. N /\ j \in 0 .. N
    OBVIOUS
  <2> QED
    BY <1>4, <2>1, <2>2
<1> QED
  BY <1>5

\* An answer is a beginning of its parts, and whole.
LEMMA PushedIs ==
  ASSUME NEW m \in Messages
  PROVE  Unbroken(Pushed(m))
<1> DEFINE fits == {n \in 0 .. Len(Parts[m]) : \A i \in 1 .. n : Parts[m][i] <= FrameLimit}
           last == CHOOSE n \in fits : \A k \in fits : k <= n
           q == [i \in 1 .. last |-> <<m, i>>]
<1>1. Len(Parts[m]) \in Nat
  BY MessagesAssumption
<1>2. fits \in SUBSET (0 .. Len(Parts[m])) /\ fits # {}
  <2>1. 0 \in fits
    BY <1>1
  <2> QED
    BY <2>1
<1>3. last \in fits
  <2> HIDE DEF fits
  <2>1. \E i \in fits : \A j \in fits : j <= i
    BY <1>1, <1>2, GreatestOf
  <2> QED
    BY <2>1
<1>4. last \in Nat
  <2> HIDE DEF fits, last
  <2> QED
    BY <1>1, <1>2, <1>3
<1>5. Pushed(m) = q
  BY DEF Pushed
<1> HIDE DEF fits, last
<1>6. \A i \in 1 .. last : q[i] = <<m, i>>
  OBVIOUS
<1>10. \A i \in 1 .. last : <<m, i>> \in Items
  BY <1>4 DEF Items
<1>7. q \in Seq(Items) /\ Len(q) = last
  <2>1. q \in [1 .. last -> Items]
    BY <1>10
  <2> HIDE DEF q
  <2> QED
    BY <1>4, <2>1
<1> HIDE DEF q
<1>8. Seamless(q)
  <2>1. ASSUME NEW i \in 2 .. last PROVE q[i - 1] = <<q[i][1], q[i][2] - 1>>
    <3>1. i - 1 \in 1 .. last /\ i \in 1 .. last
      BY <1>4
    <3>2. q[i - 1] = <<m, i - 1>> /\ q[i] = <<m, i>>
      BY <1>6, <3>1
    <3>3. q[i][1] = m /\ q[i][2] = i
      BY <3>2
    <3> QED
      BY <3>2, <3>3
  <2> QED
    BY <1>7, <2>1 DEF Seamless
<1>9. Fresh(q)
  <2>1. q # <<>> => 1 \in 1 .. last
    BY <1>4, <1>7
  <2>2. q # <<>> => q[1] = <<m, 1>>
    BY <1>6, <2>1
  <2>3. q # <<>> => q[1][2] = 1
    BY <2>2
  <2> QED
    BY <2>3 DEF Fresh
<1> QED
  BY <1>5, <1>7, <1>8, <1>9 DEF Unbroken

LEMMA AnswersAreUnbroken ==
  ASSUME NEW ms \in Seq(Messages)
  PROVE  Unbroken(Answers(ms))
<1> DEFINE L == Len(ms)
           seqs == [i \in 1 .. L |-> Pushed(ms[i])]
<1>0. L \in Nat
  OBVIOUS
<1>1. \A i \in 1 .. L : seqs[i] = Pushed(ms[i]) /\ Unbroken(seqs[i])
  BY PushedIs
<1>2. seqs \in Seq(Seq(Items)) /\ Len(seqs) = L
  <2>1. \A i \in 1 .. L : Pushed(ms[i]) \in Seq(Items)
    BY <1>1 DEF Unbroken
  <2>2. seqs \in [1 .. L -> Seq(Items)]
    BY <2>1
  <2> HIDE DEF seqs
  <2> QED
    BY <1>0, <2>2
<1>3. Answers(ms) = FlattenSeq(seqs)
  BY DEF Answers
<1> HIDE DEF seqs
<1>4. PICK g : FlattenedBy(g, seqs)
  BY <1>2, Flattened
<1> DEFINE T == {n \in 0 .. L : Unbroken(g[n])}
<1>5. 0 \in T
  BY <1>0, <1>4, UnbrokenNone DEF FlattenedBy
<1>6. ASSUME NEW n \in 0 .. L - 1, n \in T PROVE n + 1 \in T
  <2>1. n + 1 \in 1 .. L /\ (n + 1) - 1 = n /\ n + 1 \in 0 .. L
    BY <1>0
  <2>2. g[n + 1] = g[n] \o seqs[n + 1]
    BY <1>2, <1>4, <2>1 DEF FlattenedBy
  <2>3. Unbroken(g[n]) /\ Unbroken(seqs[n + 1])
    BY <1>1, <1>6, <2>1
  <2>4. Unbroken(g[n + 1])
    BY <2>2, <2>3, UnbrokenConcat
  <2> QED
    BY <2>1, <2>4
<1>7. L \in T
  <2> HIDE DEF T
  <2>1. 0 .. L \subseteq T
    BY <1>0, <1>5, <1>6, UpTo
  <2> QED
    BY <1>0, <2>1
<1> QED
  BY <1>2, <1>3, <1>4, <1>7 DEF FlattenedBy

LEMMA ReplyIsUnbroken == Unbroken(<<MagicReply>>) /\ Unbroken(<<Announcement>>)
<1>1. MagicReply \in Items /\ MagicReply[2] = 1
  BY DEF Items, MagicReply
<1>2. Announcement \in Items /\ Announcement[2] = 1
  BY DEF Items, Announcement
<1> QED
  BY <1>1, <1>2, UnbrokenOne

\* What one iteration leaves queued and what it writes.
Spoke(ms) ==
  \/ /\ outbox' = outbox \o Answers(ms) /\ toHost' = toHost
  \/ /\ outbox' = <<>>
     /\ \E reply, edge \in {<<>>, <<MagicReply>>, <<Announcement>>} :
          \E w \in Written(reply \o (outbox \o Answers(ms) \o edge)) : toHost' = toHost \o w

LEMMA IterationWrites ==
  ASSUME NEW packet, Iteration(packet)
  PROVE  \E r : Took(packet, r) /\ Spoke(Spoken(r.frames))
<1>1. PICK r \in Poll(link, packet) :
        LET messages == Spoken(r.frames)
            reply == owesReply \/ Len(messages) < Len(r.frames)
            edge == ~link.linked /\ r.link.linked
            out == outbox \o Answers(messages) \o (IF edge THEN <<Announcement>> ELSE <<>>)
        IN  /\ link' = r.link
            /\ got' = got \o messages
            /\ toDevice' = Rest(packet)
            /\ IF r.err
               THEN /\ outbox' = outbox \o Answers(messages)
                    /\ owesReply' = reply
                    /\ UNCHANGED toHost
               ELSE /\ outbox' = <<>> /\ owesReply' = FALSE
                    /\ \E w \in Written((IF reply THEN <<MagicReply>> ELSE <<>>) \o out) :
                           toHost' = toHost \o w
  BY DEF Iteration
<1> DEFINE ms == Spoken(r.frames)
           reply == owesReply \/ Len(ms) < Len(r.frames)
           edge == ~link.linked /\ r.link.linked
           x == IF reply THEN <<MagicReply>> ELSE <<>>
           y == IF edge THEN <<Announcement>> ELSE <<>>
<1>2. Took(packet, r)
  BY <1>1 DEF Took
<1>3. CASE r.err
  BY <1>1, <1>2, <1>3 DEF Spoke
<1>4. CASE ~r.err
  <2>1. outbox' = <<>> /\ \E w \in Written(x \o (outbox \o Answers(ms) \o y)) : toHost' = toHost \o w
    BY <1>1, <1>4
  <2>2. x \in {<<>>, <<MagicReply>>, <<Announcement>>} /\ y \in {<<>>, <<MagicReply>>, <<Announcement>>}
    OBVIOUS
  <2> HIDE DEF x, y, ms
  <2>3. Spoke(ms)
    BY <2>1, <2>2 DEF Spoke
  <2> QED
    BY <1>2, <2>3 DEF ms
<1> QED
  BY <1>3, <1>4

\* More behind what is on its way: the first item stays, or is a first part.
LEMMA StillGoesOn ==
  ASSUME NoGaps, NEW w, Unbroken(w), port' = port, heard' = heard, toHost' = toHost \o w
  PROVE  /\ toHost' \in Seq(Items) /\ Seamless(toHost')
         /\ port' = "linked" /\ toHost' # <<>> => GoesOn(heard', toHost'[1])
<1>1. toHost \in Seq(Items) /\ Seamless(toHost) /\ w \in Seq(Items)
  BY DEF NoGaps, Unbroken
<1>2. toHost \o w \in Seq(Items) /\ Seamless(toHost \o w)
  BY <1>1, SeamlessConcat
<1>3. ASSUME port = "linked", toHost \o w # <<>> PROVE GoesOn(heard, (toHost \o w)[1])
  <2>1. CASE toHost = <<>>
    <3>1. toHost \o w = w
      BY <1>1, <2>1
    <3>2. w[1][2] = 1
      BY <1>3, <3>1 DEF Unbroken, Fresh
    <3> QED
      BY <3>1, <3>2 DEF GoesOn
  <2>2. CASE toHost # <<>>
    <3>1. (toHost \o w)[1] = toHost[1]
      BY <1>1, <2>2
    <3> QED
      BY <1>3, <2>2, <3>1 DEF NoGaps
  <2> QED
    BY <2>1, <2>2
<1> QED
  BY <1>2, <1>3

LEMMA NoGapsKeptByWriting ==
  ASSUME NoGaps, NEW ms \in Seq(Messages), Spoke(ms), port' = port, heard' = heard
  PROVE  NoGaps'
<1>1. Unbroken(outbox) /\ Unbroken(Answers(ms)) /\ Unbroken(outbox \o Answers(ms)) /\ Unbroken(heard)
  <2>1. Unbroken(outbox) /\ Unbroken(heard)
    BY DEF NoGaps, Unbroken
  <2> QED
    BY <2>1, AnswersAreUnbroken, UnbrokenConcat
<1>2. CASE outbox' = outbox \o Answers(ms) /\ toHost' = toHost
  BY <1>1, <1>2 DEF NoGaps, Unbroken
<1>3. CASE /\ outbox' = <<>>
           /\ \E reply, edge \in {<<>>, <<MagicReply>>, <<Announcement>>} :
                \E w \in Written(reply \o (outbox \o Answers(ms) \o edge)) : toHost' = toHost \o w
  <2>1. PICK reply \in {<<>>, <<MagicReply>>, <<Announcement>>},
             edge \in {<<>>, <<MagicReply>>, <<Announcement>>} :
                \E w \in Written(reply \o (outbox \o Answers(ms) \o edge)) : toHost' = toHost \o w
    BY <1>3
  <2>2. PICK w \in Written(reply \o (outbox \o Answers(ms) \o edge)) : toHost' = toHost \o w
    BY <2>1
  <2>3. Unbroken(reply) /\ Unbroken(edge)
    BY <2>1, ReplyIsUnbroken, UnbrokenNone
  <2>4. Unbroken((outbox \o Answers(ms)) \o edge)
    BY <1>1, <2>3, UnbrokenConcat
  <2>5. Unbroken(reply \o ((outbox \o Answers(ms)) \o edge))
    BY <2>3, <2>4, UnbrokenConcat
  <2>6. Unbroken(w)
    BY <2>2, <2>5, WrittenIs
  <2>7. /\ toHost' \in Seq(Items) /\ Seamless(toHost')
        /\ port' = "linked" /\ toHost' # <<>> => GoesOn(heard', toHost'[1])
    BY <2>2, <2>6, StillGoesOn
  <2>8. outbox' \in Seq(Items) /\ Seamless(outbox') /\ Fresh(outbox')
    BY <1>3, UnbrokenNone DEF Unbroken
  <2> QED
    BY <1>1, <2>7, <2>8 DEF NoGaps, Unbroken
<1> QED
  BY <1>2, <1>3 DEF Spoke

LEMMA NoGapsUntouched ==
  ASSUME NoGaps, UNCHANGED <<toHost, outbox, heard, port>>
  PROVE  NoGaps'
BY DEF NoGaps

LEMMA TailIs ==
  ASSUME NEW q \in Seq(Items), Seamless(q), q # <<>>
  PROVE  /\ Tail(q) \in Seq(Items) /\ Seamless(Tail(q)) /\ Head(q) = q[1] /\ Head(q) \in Items
         /\ Tail(q) # <<>> => /\ Tail(q)[1] = q[2] /\ Tail(q)[1] \in Items
                              /\ Tail(q)[1][2] > 1 => Head(q) = <<Tail(q)[1][1], Tail(q)[1][2] - 1>>
<1> DEFINE t == Tail(q)  L == Len(q)
<1>1. /\ t \in Seq(Items) /\ Len(t) = L - 1 /\ \A i \in 1 .. L - 1 : t[i] = q[i + 1]
      /\ L \in Nat /\ L # 0 /\ Head(q) = q[1] /\ Head(q) \in Items
  OBVIOUS
<1> HIDE DEF t, L
<1>2. \A i \in 2 .. L : q[i][2] > 1 => q[i - 1] = <<q[i][1], q[i][2] - 1>>
  BY DEF Seamless, L
<1>3. ASSUME NEW i \in 2 .. L - 1, t[i][2] > 1 PROVE t[i - 1] = <<t[i][1], t[i][2] - 1>>
  <2>1. i - 1 \in 1 .. L - 1 /\ i \in 1 .. L - 1 /\ i + 1 \in 2 .. L /\ (i + 1) - 1 = i /\ (i - 1) + 1 = i
    BY <1>1
  <2>2. t[i] = q[i + 1] /\ t[i - 1] = q[i]
    BY <1>1, <2>1
  <2> QED
    BY <1>2, <1>3, <2>1, <2>2
<1>4. Seamless(t)
  BY <1>1, <1>3 DEF Seamless
<1>5. ASSUME t # <<>> PROVE /\ t[1] = q[2] /\ t[1] \in Items
                            /\ t[1][2] > 1 => q[1] = <<t[1][1], t[1][2] - 1>>
  <2>1. Len(t) # 0
    BY <1>1, <1>5
  <2>2. 1 \in 1 .. L - 1 /\ 2 \in 2 .. L
    BY <1>1, <2>1
  <2>3. t[1] = q[2] /\ t[1] \in Items
    BY <1>1, <2>2
  <2>4. q[2][2] > 1 => q[2 - 1] = <<q[2][1], q[2][2] - 1>>
    BY <1>2, <2>2
  <2> QED
    BY <2>3, <2>4
<1> QED
  BY <1>1, <1>4, <1>5 DEF t

LEMMA NoGapsKeptByHearing ==
  ASSUME NoGaps, Hear
  PROVE  NoGaps'
<1>1. /\ port = "linked" /\ toHost # <<>> /\ toHost' = Tail(toHost) /\ port' = port /\ outbox' = outbox
      /\ heard' = IF Head(toHost)[1] \in Messages THEN Append(heard, Head(toHost)) ELSE heard
  BY DEF Hear, deviceVars
<1>2. /\ toHost \in Seq(Items) /\ Seamless(toHost) /\ heard \in Seq(Items) /\ Seamless(heard) /\ Fresh(heard)
      /\ GoesOn(heard, toHost[1])
  BY <1>1 DEF NoGaps
<1> DEFINE h == Head(toHost)  t == Tail(toHost)
<1>3. /\ t \in Seq(Items) /\ Seamless(t) /\ h = toHost[1] /\ h \in Items
      /\ t # <<>> => /\ t[1] \in Items /\ t[1][2] > 1 => h = <<t[1][1], t[1][2] - 1>>
  BY <1>1, <1>2, TailIs
<1>4. GoesOn(heard, h)
  BY <1>2, <1>3
<1> HIDE DEF h, t
<1>5. CASE h[1] \in Messages
  <2> DEFINE L == Len(heard)  n == Append(heard, h)
  <2>1. heard' = n
    BY <1>1, <1>5 DEF h
  <2>2. /\ n \in Seq(Items) /\ Len(n) = L + 1 /\ n[L + 1] = h /\ L \in Nat /\ n # <<>>
        /\ \A i \in 1 .. L : n[i] = heard[i]
    BY <1>2, <1>3
  <2>3. heard # <<>> => L # 0
    BY <1>2
  <2> HIDE DEF L, n
  <2>4. ASSUME NEW i \in 2 .. L + 1, n[i][2] > 1 PROVE n[i - 1] = <<n[i][1], n[i][2] - 1>>
    <3>1. CASE i \in 2 .. L
      <4>1. i \in 1 .. L /\ i - 1 \in 1 .. L
        BY <2>2, <3>1
      <4>2. n[i] = heard[i] /\ n[i - 1] = heard[i - 1]
        BY <2>2, <4>1
      <4> QED
        BY <1>2, <2>4, <3>1, <4>2 DEF Seamless, L
    <3>2. CASE i = L + 1
      <4>1. heard # <<>> /\ heard[L] = <<h[1], h[2] - 1>>
        BY <1>4, <2>2, <2>4, <3>2 DEF GoesOn, L
      <4>2. L \in 1 .. L /\ i - 1 = L
        BY <2>2, <2>3, <3>2, <4>1
      <4> QED
        BY <2>2, <3>2, <4>1, <4>2
    <3> QED
      BY <2>2, <3>1, <3>2
  <2>5. Seamless(n)
    BY <2>2, <2>4 DEF Seamless
  <2>6. n[1][2] = 1
    <3>1. CASE L = 0
      <4>1. heard = <<>>
        BY <1>2, <3>1 DEF L
      <4>2. ~(h[2] > 1) /\ h[2] \in Nat \ {0}
        BY <1>3, <1>4, <4>1, ItemIs DEF GoesOn
      <4>3. h[2] = 1
        BY <4>2
      <4> QED
        BY <2>2, <3>1, <4>3
    <3>2. CASE L # 0
      <4>1. 1 \in 1 .. L /\ heard # <<>>
        BY <2>2, <3>2 DEF L
      <4> QED
        BY <1>2, <2>2, <4>1 DEF Fresh
    <3> QED
      BY <3>1, <3>2
  <2>7. GoesOn(n, t[1]) \/ t = <<>>
    <3>1. n[Len(n)] = h
      BY <2>2
    <3> QED
      BY <1>3, <2>2, <3>1 DEF GoesOn
  <2> QED
    BY <1>1, <1>3, <2>1, <2>2, <2>5, <2>6, <2>7 DEF NoGaps, Fresh, t
<1>6. CASE h[1] \notin Messages
  <2>1. heard' = heard
    BY <1>1, <1>6 DEF h
  <2>2. t # <<>> => ~(t[1][2] > 1)
    <3>1. ASSUME t # <<>>, t[1][2] > 1 PROVE FALSE
      <4>1. h = <<t[1][1], t[1][2] - 1>> /\ t[1][1] \in Messages
        BY <1>3, <3>1, ItemIs
      <4>2. h[1] = t[1][1]
        BY <4>1
      <4> QED
        BY <1>6, <4>1, <4>2
    <3> QED
      BY <3>1
  <2> QED
    BY <1>1, <1>2, <1>3, <2>1, <2>2 DEF NoGaps, GoesOn, t
<1> QED
  BY <1>5, <1>6

LEMMA NoGapsKept ==
  ASSUME InOrder, NoGaps, LinkNext
  PROVE  NoGaps'
<1>1. ASSUME NEW packet \in Packets \cup {<<>>}, Iteration(packet), UNCHANGED <<port, hostVars>> PROVE NoGaps'
  <2>1. PICK r : Took(packet, r) /\ Spoke(Spoken(r.frames))
    BY <1>1, IterationWrites
  <2>2. asked' = asked /\ heard' = heard /\ port' = port
    BY <1>1 DEF hostVars
  <2>3. Spoken(r.frames) \in Seq(Messages)
    BY <2>1, <2>2, OrderKeptByTaking
  <2> QED
    BY <2>1, <2>2, <2>3, NoGapsKeptByWriting
<1>2. CASE IteratePacket
  <2>1. PICK packet \in Packets : Iteration(packet)
    BY <1>2 DEF IteratePacket
  <2>2. packet \in Packets \cup {<<>>} /\ UNCHANGED <<port, hostVars>>
    BY <1>2, <2>1 DEF IteratePacket
  <2> QED
    BY <1>1, <2>1, <2>2
<1>3. CASE Iterate
  <2>1. Iteration(<<>>) /\ <<>> \in Packets \cup {<<>>} /\ UNCHANGED <<port, hostVars>>
    BY <1>3 DEF Iterate
  <2> QED
    BY <1>1, <2>1
<1>4. CASE Connect
  <2>1. outbox' = outbox /\ heard' = heard
    BY <1>4 DEF Connect, deviceVars, hostVars
  <2>2. CASE OpenPort
    BY <2>1, <2>2 DEF OpenPort, NoGaps
  <2>3. CASE SendMagic
    BY <2>1, <2>3, NoGapsUntouched DEF SendMagic
  <2>4. CASE AwaitReply
    <3>1. /\ toHost # <<>> /\ toHost' = Tail(toHost)
          /\ port' = IF Head(toHost) = MagicReply THEN "linked" ELSE port
          /\ port = "waiting"
      BY <2>4 DEF AwaitReply
    <3>2. toHost \in Seq(Items) /\ Seamless(toHost)
      BY DEF NoGaps
    <3> DEFINE t == Tail(toHost)
    <3>3. /\ t \in Seq(Items) /\ Seamless(t)
          /\ t # <<>> => /\ t[1] \in Items /\ t[1][2] > 1 => Head(toHost) = <<t[1][1], t[1][2] - 1>>
      BY <3>1, <3>2, TailIs
    <3> HIDE DEF t
    <3>4. ASSUME port' = "linked", t # <<>> PROVE ~(t[1][2] > 1)
      <4>1. Head(toHost) = <<"reply", 1>>
        BY <3>1, <3>4 DEF MagicReply
      <4>2. SUFFICES ASSUME t[1][2] > 1 PROVE FALSE
        OBVIOUS
      <4>3. <<"reply", 1>> = <<t[1][1], t[1][2] - 1>> /\ t[1][1] \in Messages
        BY <3>3, <3>4, <4>1, <4>2, ItemIs
      <4>4. t[1][1] = "reply"
        BY <4>3
      <4> QED
        BY <4>3, <4>4, MessagesAssumption
    <3> QED
      BY <2>1, <3>1, <3>3, <3>4 DEF NoGaps, GoesOn, t
  <2> QED
    BY <1>4, <2>2, <2>3, <2>4 DEF Connect
<1>5. CASE Hear
  BY <1>5, NoGapsKeptByHearing
<1>6. CASE Lost
  <2>1. outbox' = outbox /\ heard' = heard /\ port' = "closed" /\ (toHost' = toHost \/ toHost' = <<>>)
    BY <1>6 DEF Lost, PortLost, ClosePort, BusReset, deviceVars
  <2>2. toHost' \in Seq(Items) /\ Seamless(toHost')
    BY <2>1, UnbrokenNone DEF NoGaps, Unbroken
  <2> QED
    BY <2>1, <2>2 DEF NoGaps
<1>7. CASE \E m \in Messages : Ask(m)
  BY <1>7, NoGapsUntouched DEF Ask, deviceVars
<1> QED
  BY <1>2, <1>3, <1>4, <1>5, <1>6, <1>7 DEF LinkNext
-------------------------------------------------------------------------------
(* The theorems.                                                             *)
LEMMA LinkStarts == CommsInit => LinkInv
<1> SUFFICES ASSUME CommsInit PROVE LinkInv
  OBVIOUS
<1>1. InOrder
  BY OrderStarts
<1>2. /\ toHost = <<>> /\ outbox = <<>> /\ heard = <<>> /\ got = <<>> /\ port = "closed"
      /\ mode \in {"session", "upgrade"}
  BY DEF CommsInit, WireInit, LinkInit
<1>3. NoGaps
  BY <1>2, UnbrokenNone DEF NoGaps, Unbroken
<1> QED
  BY <1>1, <1>2, <1>3 DEF LinkInv

LEMMA LinkKept == LinkInv /\ [CommsNext]_commsVars => LinkInv'
<1> SUFFICES ASSUME LinkInv, [CommsNext]_commsVars PROVE LinkInv'
  OBVIOUS
<1>1. CASE Session /\ LinkNext
  <2>1. mode = "session" /\ mode' = mode
    BY <1>1 DEF Session
  <2>2. InOrder' /\ NoGaps'
    BY <1>1, <2>1, OrderKept, NoGapsKept DEF LinkInv
  <2> QED
    BY <2>1, <2>2 DEF LinkInv
<1>2. CASE Listener /\ UpgradeNext
  BY <1>2 DEF Listener, LinkInv, deviceVars, hostVars
<1>3. CASE UNCHANGED commsVars
  <2>1. UNCHANGED <<link, toDevice, asked, got, toHost, outbox, heard, port, mode>>
    BY <1>3 DEF commsVars, wireVars, deviceVars, hostVars
  <2> QED
    BY <2>1, OrderUntouched, NoGapsUntouched DEF LinkInv
<1> QED
  BY <1>1, <1>2, <1>3 DEF CommsNext

LEMMA LinkHolds == CommsSpec => []LinkInv
<1> QED
  BY LinkStarts, LinkKept, PTL DEF CommsSpec

LEMMA OrderIsDelivery == LinkInv => DeliveredWasSent
<1> SUFFICES ASSUME LinkInv PROVE DeliveredWasSent
  OBVIOUS
<1>1. CASE got = <<>>
  <2> DEFINE at == [i \in 1 .. 0 |-> 1]
  <2>1. Len(got) = 0 /\ 1 .. Len(got) = 1 .. 0
    BY <1>1
  <2>2. at \in [1 .. Len(got) -> 1 .. Len(asked)]
    BY <2>1
  <2>3. \A i \in 1 .. Len(got) : FALSE
    BY <2>1
  <2> HIDE DEF at
  <2> QED
    BY <2>2, <2>3 DEF DeliveredWasSent
<1>2. CASE got # <<>>
  <2>1. InOrder
    BY <1>2 DEF LinkInv
  <2>2. /\ \A i \in 1 .. Len(got) : Sent(asked, got[i])
        /\ \A i, j \in 1 .. Len(got) : i < j => Earlier(asked, got[i], got[j])
        /\ \A i, j \in 1 .. Len(asked) : asked[i] = asked[j] => i = j
        /\ Len(got) \in Nat /\ Len(asked) \in Nat
    BY <2>1 DEF InOrder, InTurn
  <2> DEFINE at == [i \in 1 .. Len(got) |-> CHOOSE k \in 1 .. Len(asked) : asked[k] = got[i]]
  <2>3. ASSUME NEW i \in 1 .. Len(got) PROVE at[i] \in 1 .. Len(asked) /\ asked[at[i]] = got[i]
    <3>1. \E k \in 1 .. Len(asked) : asked[k] = got[i]
      BY <2>2 DEF Sent
    <3> QED
      BY <3>1
  <2>4. at \in [1 .. Len(got) -> 1 .. Len(asked)]
    BY <2>3
  <2> HIDE DEF at
  <2>5. ASSUME NEW i \in 1 .. Len(got), NEW j \in 1 .. i - 1 PROVE at[j] < at[i]
    <3>1. j \in 1 .. Len(got) /\ j < i
      BY <2>2
    <3>2. PICK k \in 1 .. Len(asked), l \in 1 .. Len(asked) : k < l /\ asked[k] = got[j] /\ asked[l] = got[i]
      BY <2>2, <3>1 DEF Earlier
    <3>3. k = at[j]
      <4>1. at[j] \in 1 .. Len(asked) /\ asked[at[j]] = got[j]
        BY <2>3, <3>1
      <4> QED
        BY ONLY <2>2, <3>2, <4>1
    <3>4. l = at[i]
      <4>1. at[i] \in 1 .. Len(asked) /\ asked[at[i]] = got[i]
        BY <2>3
      <4> QED
        BY ONLY <2>2, <3>2, <4>1
    <3> QED
      BY ONLY <3>2, <3>3, <3>4
  <2> QED
    BY <2>3, <2>4, <2>5 DEF DeliveredWasSent
<1> QED
  BY <1>1, <1>2

LEMMA SeamlessHasNoGaps == LinkInv => AnswersHaveNoGaps
<1> SUFFICES ASSUME LinkInv PROVE AnswersHaveNoGaps
  OBVIOUS
<1>1. CASE heard = <<>>
  BY <1>1 DEF AnswersHaveNoGaps
<1>2. CASE heard # <<>>
  <2>1. heard \in Seq(Items) /\ Seamless(heard) /\ Fresh(heard)
    BY <1>2 DEF LinkInv, NoGaps
  <2>2. ASSUME NEW i \in 1 .. Len(heard), heard[i][2] > 1
        PROVE  i > 1 /\ heard[i - 1] = <<heard[i][1], heard[i][2] - 1>>
    <3>1. heard[1][2] = 1
      BY <1>2, <2>1 DEF Fresh
    <3>2. i \in 2 .. Len(heard)
      BY <2>1, <2>2, <3>1
    <3> QED
      BY <2>1, <2>2, <3>2 DEF Seamless
  <2> QED
    BY <2>2 DEF AnswersHaveNoGaps
<1> QED
  BY <1>1, <1>2

\* The session is handed what the coordinator sent, each message once and in the order sent,
\* however the stream is cut, refused, held over or begun again. (Link::poll and drain, comms.rs)
THEOREM DeliveryInOrder == CommsSpec => []DeliveredWasSent
<1> QED
  BY LinkHolds, OrderIsDelivery, PTL

\* Of each answer the coordinator hears a beginning: no part comes without the one before it,
\* whatever is cut, lost or kept in the outbox over a lost connection. (Outbox::push, lib.rs)
THEOREM NoGapIsHeard == CommsSpec => []AnswersHaveNoGaps
<1> QED
  BY LinkHolds, SeamlessHasNoGaps, PTL

-------------------------------------------------------------------------------
(* The upgrade: what its driver may know.  At rest a driver that sees a magic *)
(* reply faces a device that waits, with nothing but magic before it; so what *)
(* it sends next is read in its order or not at all, and every ack it counts  *)
(* is of the image it offered.  The last of them is owed for a verdict alone. *)
AllMagic(w) == \A i \in 1 .. Len(w) : w[i][1] = "magic"
NoMagic(w) == \A i \in 1 .. Len(w) : w[i][1] # "magic"

\* No frame but magic ends in w, and nothing but magic follows magic.
Murk(w) ==
  /\ \A i \in 1 .. Len(w) : \A f \in Frames \ {"magic"} : w[i] # <<f, Length[f]>>
  /\ \A i, j \in 1 .. Len(w) : i < j /\ w[i][1] = "magic" => w[j][1] = "magic"

\* Of magic bytes no more than the beginning of one frame is held.
HeldWell(lk) ==
  /\ lk.rx # <<>> /\ lk.rx[1][1] = "magic" => lk.rx[1][2] = 1 /\ Len(lk.rx) < Length["magic"]
  /\ lk.progress \in 0 .. MagicLen - 1

Silent == stager.state \notin {"Streaming", "Staged"}
Hushed == Silent /\ AllMagic(Coming)

\* An offer and the order to enter, of which what remains is on the wire.
Convo == Encoded(offer) \o Encoded("enter")
ToOffer(n) ==
  link.linked /\ n <= Len(Convo) /\ Coming = SubSeq(Convo, 1, n) /\ Len(link.rx) < Length[offer]
ToEnter(n) ==
  /\ link.linked /\ n <= Length["enter"] /\ Coming = SubSeq(Encoded("enter"), 1, n)
  /\ Len(link.rx) < Length["enter"]

\* A cut magic frame is held in front of something else: the stream will be refused.
Doomed ==
  /\ link.linked /\ link.rx # <<>> /\ link.rx[1] = <<"magic", 1>> /\ Len(link.rx) < Length["magic"]
  /\ \E i \in 1 .. Len(Coming) : /\ i <= Length["magic"] /\ Coming[i][1] # "magic"
                                 /\ \A j \in 1 .. i - 1 : Coming[j][1] = "magic"

Deaf == ~link.linked /\ NoMagic(toDevice)

Replied == \E i \in 1 .. Len(toHost) : toHost[i] = MagicReply

\* What the stager keeps, whatever it has been told.
OkStager(st) ==
  /\ st = [state |-> st.state, size |-> st.size, received |-> st.received,
           expected |-> st.expected, psram |-> st.psram, carry |-> st.carry]
  /\ st.size \in Nat /\ st.received \in Nat
  /\ st.state \in {"Prepared", "Streaming"} => HeaderByte <= st.size
  /\ st.state = "Streaming" => st.received < st.size

\* What may be on the wire when the driver is not linked.
Between ==
  \/ Murk(Coming)
  \/ /\ Silent
     /\ \/ port = "closed" /\ (Deaf \/ \E n \in 0 .. Len(Convo) : ToOffer(n) \/ ToEnter(n))
        \/ Doomed /\ (AllMagic(toDevice) \/ (port = "closed" /\ NoMagic(toDevice)))

\* A reply is on its way only if nothing but magic was sent since.
AtRest == Between /\ (Replied \/ port = "linked" => Hushed)

Matches == stager.size = Offers[offer].size /\ stager.expected = Offers[offer].digest

\* The offer and the order to enter are read in their order, or neither is.
Offering ==
  /\ toHost = <<>> /\ acked = 0
  /\ \/ Silent /\ ToOffer(IF step = "entered" THEN Len(Convo) ELSE Length[offer])
     \/ /\ ToEnter(IF step = "entered" THEN Length["enter"] ELSE 0)
        /\ Silent /\ (stager.state = "Prepared" => Matches)
     \/ /\ step = "entered" /\ Coming = <<>> /\ link.linked
        /\ Silent \/ (stager.state = "Streaming" /\ Matches /\ stager.received = 0)
     \/ Silent /\ Doomed /\ NoMagic(toDevice)
     \/ Silent /\ Deaf

\* The image is not being staged, and nothing answers.
Unheard ==
  /\ Silent /\ acked = 0 /\ toHost = <<>>
  /\ \/ Murk(Coming) /\ NoMagic(Coming)
     \/ Doomed /\ NoMagic(toDevice)
     \/ Deaf

Verified ==
  /\ stager.state = "Staged" /\ stager.psram = Image(stager.expected, stager.size)
  /\ Declared[stager.expected] = stager.size

\* The acks under way and counted are those the device owes for what it has received.
Taking ==
  /\ link.linked /\ link.rx = <<>> /\ Matches
  /\ \A i \in 1 .. Len(toHost) : toHost[i] = Ack
  /\ \/ /\ stager.state = "Streaming"
        /\ stager.received + Len(toDevice) = sent /\ Murk(toDevice) /\ NoMagic(toDevice)
        /\ acked + Len(toHost) = stager.received \div Chunk
     \/ /\ Verified /\ toDevice = <<>> /\ sent = Offers[offer].size
        /\ acked + Len(toHost) = Chunks(stager.size)
     \/ /\ Silent /\ toDevice = <<>> /\ sent = Offers[offer].size
        /\ acked + Len(toHost) < Chunks(stager.size)

TurnedDown == Silent /\ link.linked /\ Coming = <<>> /\ toHost = <<>>
Done == Verified /\ Matches /\ Coming = <<>> /\ ~Replied

StagerTyped ==
  /\ step \in {"idle", "offered", "entered", "refused", "failed", "done"}
  /\ step # "idle" => port = "linked"
  /\ step \in {"offered", "failed"} => (sent > 0 <=> step = "failed")
  /\ sent \in Nat /\ acked \in Nat /\ offer \in DOMAIN Offers /\ sent <= Offers[offer].size
  /\ port # "closed" => configured
  /\ toHost \in Seq({MagicReply, Ack})
  /\ WireTyped /\ HeldWell(link) /\ OkStager(stager)

StagerInv ==
  /\ StagerTyped
  /\ step = "idle" => AtRest
  /\ step \in {"offered", "entered"} /\ sent = 0 => Offering
  /\ step \in {"entered", "failed"} /\ sent > 0 => Unheard \/ Taking
  /\ step = "refused" => TurnedDown
  /\ step = "done" => Done

UpgradeInv ==
  /\ mode \in {"session", "upgrade"}
  /\ mode = "session" => step = "idle"
  /\ mode = "upgrade" => StagerInv

LEMMA Backwards ==
  ASSUME NEW L \in Nat, NEW T, \A n \in 0 .. L : n + 1 .. L \subseteq T => n \in T
  PROVE  0 .. L \subseteq T
<1> DEFINE U == {d \in 0 .. L : L - d .. L \subseteq T}
<1>1. 0 \in U
  <2>1. L \in 0 .. L /\ L + 1 .. L \subseteq T
    OBVIOUS
  <2>2. L \in T
    BY <2>1
  <2> QED
    BY <2>2
<1>2. ASSUME NEW d \in 0 .. L - 1, d \in U PROVE d + 1 \in U
  <2>1. L - (d + 1) \in 0 .. L /\ (L - (d + 1)) + 1 = L - d /\ d + 1 \in 0 .. L
    OBVIOUS
  <2>2. L - (d + 1) \in T
    BY <1>2, <2>1
  <2>3. \A n \in L - (d + 1) .. L : n = L - (d + 1) \/ n \in L - d .. L
    OBVIOUS
  <2> QED
    BY <1>2, <2>1, <2>2, <2>3
<1>3. 0 .. L \subseteq U
  <2> HIDE DEF U
  <2> QED
    BY <1>1, <1>2, UpTo
<1> QED
  BY <1>3

\* The frames that are taken end in the bytes, and what is held is held well.
Ends(bytes, frames) ==
  \A i \in 1 .. Len(frames) : \E j \in 1 .. Len(bytes) : bytes[j] = <<frames[i], Length[frames[i]]>>

WellTaken(bytes, r) == Ends(bytes, r.frames) /\ HeldWell(r.link)

LEMMA FrameEnds ==
  ASSUME NEW bytes \in Seq(Bytes), NEW n \in 0 .. Len(bytes), NEW f \in FrameAt(bytes, n)
  PROVE  bytes[n + Length[f]] = <<f, Length[f]>>
<1>1. f \in Frames /\ n + Length[f] <= Len(bytes) /\ SubSeq(bytes, n + 1, n + Length[f]) = Encoded(f)
  BY DEF FrameAt
<1>2. Length[f] \in Nat \ {0}
  BY <1>1, FramesAssumption
<1> DEFINE k == Length[f]
<1>3. SubSeq(bytes, n + 1, n + k)[k] = bytes[n + k]
  BY <1>1, <1>2
<1>4. Encoded(f)[k] = <<f, k>>
  BY <1>2 DEF Encoded
<1> QED
  BY <1>1, <1>3, <1>4

LEMMA MagicLenIs == MagicLen = Length["magic"] - 1 /\ MagicLen \in Nat \ {0} /\ Length["magic"] \in Nat
                    /\ Length["magic"] <= FrameLimit /\ FrameLimit \in Nat
BY FramesAssumption DEF MagicLen

\* What may be held: nothing, the beginning of a frame, or what is misread and held.
LEMMA WaitsWell ==
  ASSUME NEW bytes \in Seq(Bytes),
         bytes # <<>> /\ bytes[1][1] = "magic" => bytes[1][2] = 1 /\ Len(bytes) < Length["magic"]
  PROVE  WellTaken(bytes, Waiting(<<>>, bytes))
<1>1. CASE Len(bytes) <= FrameLimit
  <2> DEFINE r == Held(<<>>, bytes)
  <2>1. r.frames = <<>> /\ r.link.rx = bytes /\ r.link.progress = 0
    BY DEF Held
  <2>2. WellTaken(bytes, r)
    BY <2>1, MagicLenIs DEF WellTaken, Ends, HeldWell
  <2> QED
    BY <1>1, <2>2 DEF Waiting
<1>2. CASE ~(Len(bytes) <= FrameLimit)
  <2> DEFINE r == Desync(<<>>)
  <2>1. r.frames = <<>> /\ r.link.rx = <<>> /\ r.link.progress = 0
    BY DEF Desync, Unlinked
  <2>2. WellTaken(bytes, r)
    BY <2>1, MagicLenIs DEF WellTaken, Ends, HeldWell
  <2> QED
    BY <1>2, <2>2 DEF Waiting
<1> QED
  BY <1>1, <1>2

LEMMA DesyncIsWell ==
  ASSUME NEW bytes
  PROVE  WellTaken(bytes, Desync(<<>>))
<1> DEFINE r == Desync(<<>>)
<1>1. r.frames = <<>> /\ r.link.rx = <<>> /\ r.link.progress = 0
  BY DEF Desync, Unlinked
<1> QED
  BY <1>1, MagicLenIs DEF WellTaken, Ends, HeldWell

LEMMA WellWaiting ==
  ASSUME NEW bytes \in Seq(Bytes), NEW n \in 0 .. Len(bytes),
         WellTaken(From(bytes, n), Waiting(<<>>, From(bytes, n)))
  PROVE  WellTaken(bytes, Waiting(<<>>, From(bytes, n)))
<1> DEFINE r == Waiting(<<>>, From(bytes, n))
<1>1. r.frames = <<>>
  BY DEF Waiting, Held, Desync
<1>2. Ends(bytes, r.frames)
  BY <1>1 DEF Ends
<1> QED
  BY <1>2 DEF WellTaken

\* A partial frame that begins like magic is a magic frame, and shorter than one.
LEMMA PartialMagic ==
  ASSUME NEW bytes \in Seq(Bytes), bytes # <<>>, bytes[1][1] = "magic", IsPartial(bytes)
  PROVE  bytes[1][2] = 1 /\ Len(bytes) < Length["magic"]
<1>1. PICK f \in Frames : Len(bytes) < Length[f] /\ bytes = SubSeq(Encoded(f), 1, Len(bytes))
  BY DEF IsPartial
<1>2. Length[f] \in Nat \ {0} /\ Len(bytes) \in Nat \ {0}
  BY <1>1, FramesAssumption
<1>3. bytes[1] = <<f, 1>>
  <2>1. Encoded(f) \in Seq(Bytes) /\ Len(Encoded(f)) = Length[f] /\ Encoded(f)[1] = <<f, 1>>
    BY <1>2, EncodedIs DEF Encoded
  <2>2. SubSeq(Encoded(f), 1, Len(bytes))[1] = Encoded(f)[1]
    BY <1>1, <1>2, <2>1
  <2> QED
    BY <1>1, <2>1, <2>2
<1> QED
  BY <1>1, <1>3

LEMMA PatternIs ==
  ASSUME NEW i \in 2 .. Length["magic"]
  PROVE  <<"magic", i>> \in Range(Pattern)
<1>1. i - 1 \in 1 .. MagicLen /\ (i - 1) + 1 = i
  BY MagicLenIs
<1>2. Pattern[i - 1] = <<"magic", i>> /\ DOMAIN Pattern = 1 .. MagicLen
  BY <1>1 DEF Pattern
<1> QED
  BY <1>1, <1>2 DEF Range

LEMMA DrainedFromWell ==
  ASSUME NEW bytes \in Seq(Bytes), NEW n \in 0 .. Len(bytes), NEW after,
         \A k \in n + 1 .. Len(bytes) : \A r \in after[k] : Takes(bytes, k, r) /\ WellTaken(bytes, r)
  PROVE  \A r \in DrainedFrom(after, bytes, n) : WellTaken(bytes, r)
<1> SUFFICES ASSUME NEW r \in DrainedFrom(after, bytes, n) PROVE WellTaken(bytes, r)
  OBVIOUS
<1> DEFINE rest == From(bytes, n)
<1>0. /\ rest \in Seq(Bytes) /\ Len(rest) = Len(bytes) - n /\ Len(bytes) \in Nat /\ n \in Nat
      /\ \A i \in 1 .. Len(bytes) - n : rest[i] = bytes[n + i]
  <2>1. bytes \in Seq(Bytes) /\ n \in 0 .. Len(bytes)
    OBVIOUS
  <2>2. /\ From(bytes, n) \in Seq(Bytes) /\ Len(From(bytes, n)) = Len(bytes) - n
        /\ \A i \in 1 .. Len(bytes) - n : From(bytes, n)[i] = bytes[n + i]
    BY ONLY <2>1, FromIs
  <2> QED
    BY ONLY <2>1, <2>2
<1>1. CASE FrameAt(bytes, n) # {}
  <2> DEFINE f == CHOOSE f \in FrameAt(bytes, n) : TRUE
  <2>1. f \in FrameAt(bytes, n)
    BY <1>1
  <2>2. r \in {[q EXCEPT !.frames = <<f>> \o @] : q \in after[n + Length[f]]}
    BY <1>1 DEF DrainedFrom
  <2> HIDE DEF f
  <2>3. PICK q \in after[n + Length[f]] : r = [q EXCEPT !.frames = <<f>> \o @]
    BY <2>2
  <2>4. n + Length[f] \in n + 1 .. Len(bytes) /\ f \in Frames
    BY <2>1, FrameAtIs
  <2>5. Takes(bytes, n + Length[f], q) /\ WellTaken(bytes, q)
    BY <2>3, <2>4
  <2>6. r.frames = <<f>> \o q.frames /\ r.link = q.link
    <3>1. q = [frames |-> q.frames, err |-> q.err, link |-> q.link]
      BY <2>5 DEF Takes
    <3>2. q \in [frames : {q.frames}, err : {q.err}, link : {q.link}]
      BY <3>1
    <3>3. \A e : [q EXCEPT !.frames = e] = [frames |-> e, err |-> q.err, link |-> q.link]
      BY <3>2
    <3>4. r = [q EXCEPT !.frames = <<f>> \o q.frames]
      BY <2>3, Zenon
    <3>5. r = [frames |-> <<f>> \o q.frames, err |-> q.err, link |-> q.link]
      BY <3>3, <3>4
    <3> QED
      BY <3>5
  <2>7. q.frames \in Seq(Frames)
    BY <2>5 DEF Takes
  <2>8. /\ Len(r.frames) = Len(q.frames) + 1 /\ r.frames[1] = f
        /\ \A i \in 2 .. Len(q.frames) + 1 : r.frames[i] = q.frames[i - 1] /\ i - 1 \in 1 .. Len(q.frames)
    BY <2>4, <2>6, <2>7
  <2>9. ASSUME NEW i \in 1 .. Len(r.frames)
        PROVE  \E j \in 1 .. Len(bytes) : bytes[j] = <<r.frames[i], Length[r.frames[i]]>>
    <3>1. CASE i = 1
      <4>1. bytes[n + Length[f]] = <<f, Length[f]>> /\ n + Length[f] \in 1 .. Len(bytes)
        BY <1>0, <2>1, <2>4, FrameEnds
      <4> QED
        BY <2>8, <3>1, <4>1
    <3>2. CASE i # 1
      <4>1. i \in 2 .. Len(q.frames) + 1
        BY <2>7, <2>8, <3>2
      <4>2. \E j \in 1 .. Len(bytes) : bytes[j] = <<q.frames[i - 1], Length[q.frames[i - 1]]>>
        BY <2>5, <2>8, <4>1 DEF WellTaken, Ends
      <4> QED
        BY <2>8, <4>1, <4>2
    <3> QED
      BY <3>1, <3>2
  <2> QED
    BY <2>5, <2>6, <2>9 DEF WellTaken, Ends
<1>2. CASE FrameAt(bytes, n) = {} /\ IsPartial(rest)
  <2>1. r = Waiting(<<>>, rest)
    BY <1>2 DEF DrainedFrom
  <2>2. rest # <<>> /\ rest[1][1] = "magic" => rest[1][2] = 1 /\ Len(rest) < Length["magic"]
    BY <1>0, <1>2, PartialMagic
  <2> QED
    BY <1>0, <2>1, <2>2, WaitsWell, WellWaiting
<1>3. CASE FrameAt(bytes, n) = {} /\ ~IsPartial(rest)
  <2> DEFINE may == Misread(bytes, n)
  <2>1. \/ r = Desync(<<>>)
        \/ may.held /\ r = Waiting(<<>>, rest)
        \/ \E m \in may.dropped : r \in after[m]
    BY <1>3 DEF DrainedFrom
  <2>2. CASE may.held /\ r = Waiting(<<>>, rest)
    <3>1. rest # <<>>
      <4>1. SUFFICES ASSUME rest = <<>> PROVE FALSE
        OBVIOUS
      <4>2. "magic" \in Frames /\ Length["magic"] \in Nat \ {0} /\ Encoded("magic") \in Seq(Bytes)
        BY FramesAssumption, EncodedIs
      <4>3. Len(<<>>) = 0 /\ SubSeq(Encoded("magic"), 1, 0) = <<>>
        BY <4>2
      <4>4. IsPartial(<<>>)
        BY <4>2, <4>3 DEF IsPartial
      <4> QED
        BY <1>3, <4>1, <4>4
    <3>2. rest[1] = bytes[n + 1] /\ n + 1 \in 1 .. Len(bytes) /\ bytes[n + 1] \in Bytes
      BY <1>0, <3>1
    <3>3. CASE bytes[n + 1] = <<"magic", 1>>
      <4>1. Len(bytes) - n < Length["magic"]
        BY <2>2, <3>3 DEF Misread
      <4> QED
        BY <1>0, <2>2, <3>2, <3>3, <4>1, WaitsWell, WellWaiting
    <3>4. CASE bytes[n + 1] # <<"magic", 1>>
      <4>1. bytes[n + 1] \notin Range(Pattern)
        BY <2>2, <3>4 DEF Misread
      <4>2. bytes[n + 1][1] # "magic"
        <5>1. SUFFICES ASSUME bytes[n + 1][1] = "magic" PROVE FALSE
          OBVIOUS
        <5>2. bytes[n + 1] = <<bytes[n + 1][1], bytes[n + 1][2]>> /\ bytes[n + 1][2] \in 1 .. Length["magic"]
          BY <3>2, <5>1 DEF Bytes
        <5>3. bytes[n + 1][2] \in 2 .. Length["magic"]
          BY <3>4, <5>1, <5>2, MagicLenIs
        <5> QED
          BY <4>1, <5>1, <5>2, <5>3, PatternIs
      <4> QED
        BY <1>0, <2>2, <3>2, <4>2, WaitsWell, WellWaiting
    <3> QED
      BY <3>3, <3>4
  <2>3. CASE \E m \in may.dropped : r \in after[m]
    BY <2>3, DroppedIsLater
  <2> QED
    BY <2>1, <2>2, <2>3, DesyncIsWell
<1> QED
  BY <1>1, <1>2, <1>3

LEMMA DrainedIsWell ==
  ASSUME NEW bytes \in Seq(Bytes)
  PROVE  \A r \in Drained(bytes) : WellTaken(bytes, r)
<1>1. PICK g : Draining(g, bytes) /\ Drained(bytes) = g[0]
  BY DrainingExists, DrainedIs
<1> DEFINE L == Len(bytes)
           T == {n \in 0 .. L : \A r \in g[n] : Takes(bytes, n, r) /\ WellTaken(bytes, r)}
<1>0. L \in Nat
  OBVIOUS
<1>2. ASSUME NEW n \in 0 .. L, n + 1 .. L \subseteq T PROVE n \in T
  <2>1. g[n] = DrainedFrom(g, bytes, n)
    BY <1>1 DEF Draining
  <2>2. \A k \in n + 1 .. L : \A r \in g[k] : Takes(bytes, k, r) /\ WellTaken(bytes, r)
    BY <1>2
  <2>3. \A r \in g[n] : Takes(bytes, n, r)
    BY <2>1, <2>2, DrainedFromTakes
  <2>4. \A r \in g[n] : WellTaken(bytes, r)
    BY <2>1, <2>2, DrainedFromWell
  <2> QED
    BY <2>3, <2>4
<1>3. 0 .. L \subseteq T
  <2> HIDE DEF T, L
  <2> QED
    BY <1>0, <1>2, Backwards
<1> QED
  BY <1>0, <1>1, <1>3

\* The gate: how much of the pattern was seen after each byte.
Seen(g, bytes, progress, i) == IF i = 0 THEN progress ELSE SeenAfter(g[i - 1], bytes[i])

Scanning(g, bytes, progress) == g = [i \in 0 .. Len(bytes) |-> Seen(g, bytes, progress, i)]

LEMMA ScanMagicIs ==
  ASSUME NEW bytes, NEW progress, \E g : Scanning(g, bytes, progress)
  PROVE  Scanning(ScanMagic(bytes, progress), bytes, progress)
<1> DEFINE c == CHOOSE g : g = [i \in 0 .. Len(bytes) |->
                              IF i = 0 THEN progress ELSE SeenAfter(g[i - 1], bytes[i])]
<1>1. ScanMagic(bytes, progress) = c
  BY DEF ScanMagic
<1>2. Scanning(c, bytes, progress)
  BY DEF Scanning, Seen
<1> QED
  BY <1>1, <1>2

LEMMA SeenIs ==
  ASSUME NEW g, NEW bytes, NEW progress, NEW i \in Nat \ {0}, g[i - 1] \in 0 .. MagicLen
  PROVE  Seen(g, bytes, progress, i) =
           IF g[i - 1] = MagicLen THEN MagicLen
           ELSE IF bytes[i] = Pattern[g[i - 1] + 1] THEN g[i - 1] + 1 ELSE 0
<1> QED
  BY MagicLenIs DEF Seen, SeenAfter

LEMMA ScanningExists ==
  ASSUME NEW bytes \in Seq(Bytes), NEW progress \in 0 .. MagicLen
  PROVE  \E g : Scanning(g, bytes, progress) /\ g \in [0 .. Len(bytes) -> 0 .. MagicLen]
<1> DEFINE L == Len(bytes)
           Up(h, n) == \A i \in 0 .. n : h[i] = Seen(h, bytes, progress, i) /\ h[i] \in 0 .. MagicLen
           T == {n \in 0 .. L : \E h : Up(h, n)}
<1>0. L \in Nat /\ MagicLen \in Nat
  BY MagicLenIs
<1>1. 0 \in T
  <2> DEFINE h == [i \in 0 .. 0 |-> progress]
  <2>1. h[0] = progress /\ Seen(h, bytes, progress, 0) = progress
    BY DEF Seen
  <2> HIDE DEF h
  <2>2. Up(h, 0)
    BY <2>1
  <2> HIDE DEF Up
  <2> QED
    BY <1>0, <2>2
<1>2. ASSUME NEW n \in 0 .. L - 1, n \in T PROVE n + 1 \in T
  <2>1. PICK h : Up(h, n)
    BY <1>2
  <2> DEFINE v == IF h[n] = MagicLen THEN MagicLen
                  ELSE IF bytes[n + 1] = Pattern[h[n] + 1] THEN h[n] + 1 ELSE 0
             k == [i \in 0 .. n + 1 |-> IF i = n + 1 THEN v ELSE h[i]]
  <2>2. h[n] \in 0 .. MagicLen
    BY <2>1
  <2>3. v \in 0 .. MagicLen
    BY <1>0, <2>2
  <2>4. k[n + 1] = v /\ \A i \in 0 .. n : k[i] = h[i]
    OBVIOUS
  <2> HIDE DEF k
  <2>5. Seen(k, bytes, progress, n + 1) = v
    <3>1. (n + 1) - 1 = n /\ n + 1 \in Nat \ {0} /\ k[n] = h[n]
      BY <2>4
    <3> QED
      BY <2>2, <3>1, SeenIs
  <2>6. ASSUME NEW i \in 0 .. n PROVE k[i] = Seen(k, bytes, progress, i) /\ k[i] \in 0 .. MagicLen
    <3>1. CASE i = 0
      BY <2>1, <2>4, <3>1 DEF Seen
    <3>2. CASE i # 0
      <4>1. i \in Nat \ {0} /\ i - 1 \in 0 .. n
        BY <3>2
      <4>2. k[i - 1] = h[i - 1] /\ h[i - 1] \in 0 .. MagicLen /\ k[i] = h[i]
        BY <2>1, <2>4, <4>1
      <4>3. Seen(k, bytes, progress, i) = Seen(h, bytes, progress, i)
        BY <4>1, <4>2, SeenIs
      <4> QED
        BY <2>1, <4>2, <4>3
    <3> QED
      BY <3>1, <3>2
  <2>7. \A i \in 0 .. n + 1 : i \in 0 .. n \/ i = n + 1
    OBVIOUS
  <2> HIDE DEF v
  <2>8. Up(k, n + 1)
    BY <2>3, <2>4, <2>5, <2>6, <2>7
  <2>9. n + 1 \in 0 .. L
    BY <1>0
  <2> HIDE DEF Up
  <2> QED
    BY <2>8, <2>9
<1>3. L \in T
  <2> HIDE DEF T, L
  <2>1. 0 .. L \subseteq T
    BY <1>0, <1>1, <1>2, UpTo
  <2> QED
    BY <1>0, <2>1
<1>4. PICK h : Up(h, L)
  BY <1>3
<1> DEFINE g == [i \in 0 .. L |-> h[i]]
<1>5. \A i \in 0 .. L : g[i] = h[i] /\ g[i] \in 0 .. MagicLen
  BY <1>4
<1>6. g = [i \in 0 .. L |-> g[i]] /\ DOMAIN g = 0 .. L
  OBVIOUS
<1> HIDE DEF g
<1>7. ASSUME NEW i \in 0 .. L PROVE g[i] = Seen(g, bytes, progress, i)
  <2>1. CASE i = 0
    BY <1>4, <1>5, <2>1 DEF Seen
  <2>2. CASE i # 0
    <3>1. i \in Nat \ {0} /\ i - 1 \in 0 .. L
      BY <2>2
    <3>2. Seen(g, bytes, progress, i) = Seen(h, bytes, progress, i)
      BY <1>5, <3>1, SeenIs
    <3> QED
      BY <1>4, <1>5, <3>2
  <2> QED
    BY <2>1, <2>2
<1>8. Scanning(g, bytes, progress)
  BY <1>6, <1>7 DEF Scanning
<1>9. g \in [0 .. Len(bytes) -> 0 .. MagicLen]
  BY <1>5, <1>6
<1> QED
  BY <1>8, <1>9

LEMMA ScanIs ==
  ASSUME NEW bytes \in Seq(Bytes), NEW progress \in 0 .. MagicLen
  PROVE  LET seen == ScanMagic(bytes, progress) IN
         /\ seen[0] = progress
         /\ \A i \in 0 .. Len(bytes) : seen[i] \in 0 .. MagicLen
         /\ \A i \in 1 .. Len(bytes) :
              seen[i] = IF seen[i - 1] = MagicLen THEN MagicLen
                        ELSE IF bytes[i] = Pattern[seen[i - 1] + 1] THEN seen[i - 1] + 1 ELSE 0
<1> DEFINE seen == ScanMagic(bytes, progress)
           L == Len(bytes)
<1>0. L \in Nat /\ MagicLen \in Nat
  BY MagicLenIs
<1>1. Scanning(seen, bytes, progress)
  BY ScanningExists, ScanMagicIs
<1> HIDE DEF seen
<1>2. \A i \in 0 .. L : seen[i] = Seen(seen, bytes, progress, i)
  BY <1>1 DEF Scanning
<1>3. seen[0] = progress
  <2>1. 0 \in 0 .. L
    BY <1>0
  <2>2. seen[0] = Seen(seen, bytes, progress, 0)
    BY <1>2, <2>1
  <2> QED
    BY <2>2 DEF Seen
<1> DEFINE T == {i \in 0 .. L : seen[i] \in 0 .. MagicLen}
<1>4. 0 \in T
  BY <1>0, <1>3
<1>5. ASSUME NEW n \in 0 .. L - 1, n \in T PROVE n + 1 \in T
  <2>1. n + 1 \in 0 .. L /\ n + 1 \in Nat \ {0} /\ (n + 1) - 1 = n /\ seen[n] \in 0 .. MagicLen
    BY <1>0, <1>5
  <2>2. seen[n + 1] = IF seen[n] = MagicLen THEN MagicLen
                      ELSE IF bytes[n + 1] = Pattern[seen[n] + 1] THEN seen[n] + 1 ELSE 0
    BY <1>2, <2>1, SeenIs
  <2>3. seen[n + 1] \in 0 .. MagicLen
    BY <1>0, <2>1, <2>2
  <2> QED
    BY <2>1, <2>3
<1>6. 0 .. L \subseteq T
  <2> HIDE DEF T, L
  <2> QED
    BY <1>0, <1>4, <1>5, UpTo
<1>7. ASSUME NEW i \in 1 .. L
      PROVE seen[i] = IF seen[i - 1] = MagicLen THEN MagicLen
                      ELSE IF bytes[i] = Pattern[seen[i - 1] + 1] THEN seen[i - 1] + 1 ELSE 0
  <2>1. i \in 0 .. L /\ i \in Nat \ {0} /\ i - 1 \in 0 .. L /\ seen[i - 1] \in 0 .. MagicLen
    BY <1>0, <1>6
  <2> QED
    BY <1>2, <2>1, SeenIs
<1> QED
  BY <1>3, <1>6, <1>7 DEF seen

\* Bytes that are not magic do not open the gate.
LEMMA GateStaysShut ==
  ASSUME NEW bytes \in Seq(Bytes), NEW progress \in 0 .. MagicLen - 1, NoMagic(bytes)
  PROVE  \A i \in 0 .. Len(bytes) : ScanMagic(bytes, progress)[i] # MagicLen
<1> DEFINE seen == ScanMagic(bytes, progress)
           L == Len(bytes)
           T == {i \in 0 .. L : seen[i] # MagicLen}
<1>0. L \in Nat /\ MagicLen \in Nat \ {0} /\ progress \in 0 .. MagicLen /\ progress # MagicLen
  BY MagicLenIs
<1>1. /\ seen[0] = progress
      /\ \A i \in 0 .. L : seen[i] \in 0 .. MagicLen
      /\ \A i \in 1 .. L :
           seen[i] = IF seen[i - 1] = MagicLen THEN MagicLen
                     ELSE IF bytes[i] = Pattern[seen[i - 1] + 1] THEN seen[i - 1] + 1 ELSE 0
  BY <1>0, ScanIs
<1> HIDE DEF seen
<1>2. 0 \in T
  BY <1>0, <1>1
<1>3. ASSUME NEW n \in 0 .. L - 1, n \in T PROVE n + 1 \in T
  <2>1. n + 1 \in 1 .. L /\ (n + 1) - 1 = n /\ n \in 0 .. L
    BY <1>0
  <2>2. seen[n] \in 0 .. MagicLen /\ seen[n] # MagicLen
    BY <1>1, <1>3, <2>1
  <2>3. seen[n] + 1 \in 1 .. MagicLen
    BY <1>0, <2>2
  <2>4. Pattern[seen[n] + 1][1] = "magic"
    BY <2>3 DEF Pattern
  <2>5. bytes[n + 1] # Pattern[seen[n] + 1]
    BY <2>1, <2>4 DEF NoMagic
  <2>6. seen[n + 1] = 0
    BY <1>1, <2>1, <2>2, <2>5
  <2> QED
    BY <1>0, <2>1, <2>6
<1>4. 0 .. L \subseteq T
  <2> HIDE DEF T, L
  <2> QED
    BY <1>0, <1>2, <1>3, UpTo
<1> QED
  BY <1>4 DEF seen

LEMMA JoinIs ==
  ASSUME NEW S, NEW x \in Seq(S), NEW y \in Seq(S)
  PROVE  /\ x \o y \in Seq(S) /\ Len(x \o y) = Len(x) + Len(y)
         /\ \A i \in 1 .. Len(x) : (x \o y)[i] = x[i]
         /\ \A i \in Len(x) + 1 .. Len(x) + Len(y) : (x \o y)[i] = y[i - Len(x)]
OBVIOUS

\* With nothing held, what is joined to it is all there is.
LEMMA NothingBefore ==
  ASSUME NEW S, NEW y \in Seq(S)
  PROVE  <<>> \o y = y
OBVIOUS

\* A packet is read behind what is held: the beginning of what is coming.
LEMMA PacketAhead ==
  ASSUME WireTyped, NEW packet \in Packets
  PROVE  LET all == link.rx \o packet IN
         /\ all \in Seq(Bytes) /\ Coming \in Seq(Bytes) /\ packet \in Seq(Bytes)
         /\ Rest(packet) \in Seq(Bytes)
         /\ Len(packet) \in Nat \ {0} /\ Len(all) = Len(link.rx) + Len(packet)
         /\ Len(all) \in 1 .. Len(Coming)
         /\ \A i \in 1 .. Len(all) : all[i] = Coming[i]
         /\ \A n \in 0 .. Len(all) : From(all, n) \o Rest(packet) = From(Coming, n)
<1> DEFINE all == link.rx \o packet
           rest == Rest(packet)
           K == Len(link.rx)  P == Len(packet)  D == Len(toDevice)
<1>1. link.rx \in Seq(Bytes) /\ toDevice \in Seq(Bytes)
  BY DEF WireTyped
<1>2. /\ packet \in Seq(Bytes) /\ P \in 0 .. D
      /\ \A i \in 1 .. P : packet[i] = toDevice[i]
  BY <1>1, PacketIs
<1>3. P # 0
  <2>1. PICK n \in 1 .. PacketSize : n <= Len(toDevice) /\ packet = SubSeq(toDevice, 1, n)
    BY DEF Packets
  <2> QED
    BY <1>1, <2>1, WireAssumption
<1>4. Coming \in Seq(Bytes) /\ Len(Coming) = K + D
  BY <1>1 DEF Coming
<1>5. /\ \A i \in 1 .. K : Coming[i] = link.rx[i]
      /\ \A i \in K + 1 .. K + D : Coming[i] = toDevice[i - K]
  BY <1>1 DEF Coming
<1>6. /\ all \in Seq(Bytes) /\ Len(all) = K + P
      /\ \A i \in 1 .. K : all[i] = link.rx[i]
      /\ \A i \in K + 1 .. K + P : all[i] = packet[i - K]
  BY <1>1, <1>2
<1>7. K \in Nat /\ P \in Nat \ {0} /\ D \in Nat /\ P <= D
  BY <1>1, <1>2, <1>3
<1>8. /\ rest \in Seq(Bytes) /\ Len(rest) = D - P
      /\ \A i \in 1 .. D - P : rest[i] = toDevice[P + i]
  <2>1. P \in 0 .. Len(toDevice)
    BY <1>2
  <2> HIDE DEF P
  <2>2. /\ From(toDevice, P) \in Seq(Bytes) /\ Len(From(toDevice, P)) = Len(toDevice) - P
        /\ \A i \in 1 .. Len(toDevice) - P : From(toDevice, P)[i] = toDevice[P + i]
    BY <1>1, <2>1, FromIs
  <2> QED
    BY <2>2 DEF Rest, P
<1> HIDE DEF all, rest, K, P, D
<1>9. ASSUME NEW i \in 1 .. K + P PROVE all[i] = Coming[i]
  <2>1. CASE i \in 1 .. K
    BY <1>5, <1>6, <2>1
  <2>2. CASE i \in K + 1 .. K + P
    <3>1. i - K \in 1 .. P /\ i \in K + 1 .. K + D
      BY <1>7, <2>2
    <3> QED
      BY <1>2, <1>5, <1>6, <2>2, <3>1
  <2> QED
    BY <1>7, <2>1, <2>2
<1>10. ASSUME NEW n \in 0 .. K + P PROVE From(all, n) \o rest = From(Coming, n)
  <2>1. /\ From(all, n) \in Seq(Bytes) /\ Len(From(all, n)) = (K + P) - n
        /\ \A i \in 1 .. (K + P) - n : From(all, n)[i] = all[n + i]
    <3>1. all \in Seq(Bytes) /\ n \in 0 .. Len(all) /\ Len(all) = K + P
      BY <1>6
    <3>2. /\ From(all, n) \in Seq(Bytes) /\ Len(From(all, n)) = Len(all) - n
          /\ \A i \in 1 .. Len(all) - n : From(all, n)[i] = all[n + i]
      BY ONLY <3>1, FromIs
    <3> QED
      BY ONLY <3>1, <3>2
  <2>2. /\ From(Coming, n) \in Seq(Bytes) /\ Len(From(Coming, n)) = (K + D) - n
        /\ \A i \in 1 .. (K + D) - n : From(Coming, n)[i] = Coming[n + i]
    <3>1. n \in 0 .. Len(Coming)
      BY <1>4, <1>7
    <3> QED
      BY <1>4, <3>1, FromIs
  <2> DEFINE x == From(all, n)
             y == From(Coming, n)
             X == (K + P) - n
  <2>3. X \in Nat /\ x \in Seq(Bytes) /\ Len(x) = X /\ y \in Seq(Bytes) /\ Len(y) = X + (D - P)
    BY <1>7, <2>1, <2>2
  <2>4. \A i \in 1 .. X : x[i] = all[n + i]
    BY <2>1
  <2>5. \A i \in 1 .. X + (D - P) : y[i] = Coming[n + i]
    BY <1>7, <2>2
  <2> HIDE DEF x, y
  <2>6. /\ x \o rest \in Seq(Bytes) /\ Len(x \o rest) = X + (D - P)
        /\ \A i \in 1 .. X : (x \o rest)[i] = x[i]
        /\ \A i \in X + 1 .. X + (D - P) : (x \o rest)[i] = rest[i - X]
    <3> DEFINE R == D - P
    <3>1. Len(rest) = R /\ rest \in Seq(Bytes) /\ R \in Nat
      BY <1>7, <1>8
    <3> HIDE DEF X, R
    <3>2. /\ x \o rest \in Seq(Bytes) /\ Len(x \o rest) = X + R
          /\ \A i \in 1 .. X : (x \o rest)[i] = x[i]
          /\ \A i \in X + 1 .. X + R : (x \o rest)[i] = rest[i - X]
      <4>1. /\ x \o rest \in Seq(Bytes) /\ Len(x \o rest) = Len(x) + Len(rest)
            /\ \A i \in 1 .. Len(x) : (x \o rest)[i] = x[i]
            /\ \A i \in Len(x) + 1 .. Len(x) + Len(rest) : (x \o rest)[i] = rest[i - Len(x)]
        BY <2>3, <3>1, JoinIs
      <4> QED
        BY <2>3, <3>1, <4>1
    <3> QED
      BY <3>2 DEF R
  <2>7. ASSUME NEW i \in 1 .. X + (D - P) PROVE (x \o rest)[i] = y[i]
    <3>1. CASE i \in 1 .. X
      <4>1. n + i \in 1 .. K + P /\ i \in 1 .. X + (D - P)
        BY <1>7, <3>1
      <4> QED
        BY <1>9, <2>4, <2>5, <2>6, <3>1, <4>1
    <3>2. CASE i \in X + 1 .. X + (D - P)
      <4>1. i - X \in 1 .. D - P /\ n + i \in K + 1 .. K + D /\ P + (i - X) = (n + i) - K
        BY <1>7, <3>2
      <4>2. (x \o rest)[i] = toDevice[(n + i) - K]
        BY <1>8, <2>6, <3>2, <4>1
      <4>3. y[i] = toDevice[(n + i) - K]
        BY <1>5, <2>5, <4>1
      <4> QED
        BY <4>2, <4>3
    <3>3. i \in 1 .. X \/ i \in X + 1 .. X + (D - P)
      <4> HIDE DEF X
      <4> QED
        BY <1>7, <2>3
    <3> QED
      BY <3>1, <3>2, <3>3
  <2>8. x \o rest = y
    BY <2>3, <2>6, <2>7, SeqEqual
  <2> QED
    BY <2>8 DEF x, y
<1>11. Len(all) \in 1 .. Len(Coming)
  BY <1>4, <1>6, <1>7
<1>12. /\ all \in Seq(Bytes) /\ Coming \in Seq(Bytes) /\ packet \in Seq(Bytes) /\ rest \in Seq(Bytes)
       /\ Len(packet) \in Nat \ {0} /\ Len(all) = Len(link.rx) + Len(packet)
  BY <1>2, <1>4, <1>6, <1>7, <1>8 DEF K, P
<1>13. /\ \A i \in 1 .. Len(all) : all[i] = Coming[i]
       /\ \A n \in 0 .. Len(all) : From(all, n) \o rest = From(Coming, n)
  BY <1>6, <1>9, <1>10
<1> QED
  BY <1>11, <1>12, <1>13 DEF all, rest

LEMMA EndsFurther ==
  ASSUME NEW w, NEW v, Len(w) \in Nat, Len(v) \in Nat, Len(w) <= Len(v),
         NEW k \in Nat, k + Len(w) <= Len(v),
         \A i \in 1 .. Len(w) : w[i] = v[k + i], NEW frames, Ends(w, frames)
  PROVE  Ends(v, frames)
<1> SUFFICES ASSUME NEW i \in 1 .. Len(frames)
             PROVE  \E j \in 1 .. Len(v) : v[j] = <<frames[i], Length[frames[i]]>>
  BY DEF Ends
<1>1. PICK j \in 1 .. Len(w) : w[j] = <<frames[i], Length[frames[i]]>>
  BY DEF Ends
<1>2. k + j \in 1 .. Len(v)
  OBVIOUS
<1> QED
  BY <1>1, <1>2

LEMMA PollIsWell ==
  ASSUME WireTyped, HeldWell(link), NEW packet \in Packets, NEW r \in Poll(link, packet)
  PROVE  Ends(Coming, r.frames) /\ HeldWell(r.link)
<1> DEFINE all == link.rx \o packet
           seen == ScanMagic(packet, link.progress)
           ends == {i \in 1 .. Len(packet) : seen[i] = MagicLen}
           first == CHOOSE i \in ends : \A j \in ends : i <= j
<1>0. /\ all \in Seq(Bytes) /\ Coming \in Seq(Bytes) /\ packet \in Seq(Bytes)
      /\ Len(packet) \in Nat \ {0} /\ Len(all) = Len(link.rx) + Len(packet)
      /\ Len(all) \in 1 .. Len(Coming)
      /\ \A i \in 1 .. Len(all) : all[i] = Coming[i]
  BY PacketAhead
<1>s. /\ ~link.linked => link.rx = <<>>
      /\ link.progress \in 0 .. MagicLen /\ link.progress \in 0 .. MagicLen - 1 /\ MagicLen \in Nat
  BY MagicLenIs DEF HeldWell, WireTyped
<1> HIDE DEF all
<1>1. CASE link.linked
  <2>1. r \in Drained(all)
    BY <1>1 DEF Poll, all
  <2>2. WellTaken(all, r)
    BY <1>0, <2>1, DrainedIsWell
  <2>3. Ends(Coming, r.frames)
    <3>1. \A i \in 1 .. Len(all) : all[i] = Coming[0 + i]
      BY <1>0
    <3>2. Len(all) \in Nat /\ Len(Coming) \in Nat /\ Len(all) <= Len(Coming) /\ 0 + Len(all) <= Len(Coming)
      BY <1>0
    <3> QED
      BY <2>2, <3>1, <3>2, EndsFurther DEF WellTaken
  <2> QED
    BY <2>2, <2>3 DEF WellTaken
<1>2. CASE ~link.linked /\ ends # {}
  <2>1. r \in Drained(From(packet, first))
    BY <1>2 DEF Poll
  <2>2. \E i \in ends : \A j \in ends : i <= j
    <3>1. ends \in SUBSET Nat /\ ends # {}
      BY <1>2
    <3> HIDE DEF ends
    <3> QED
      BY <3>1, LeastOf
  <2> HIDE DEF seen
  <2>3. first \in ends
    <3> HIDE DEF ends
    <3> QED
      BY <2>2
  <2>4. first \in 0 .. Len(packet)
    BY <2>3
  <2> HIDE DEF first, ends
  <2>5. /\ From(packet, first) \in Seq(Bytes) /\ Len(From(packet, first)) = Len(packet) - first
        /\ \A i \in 1 .. Len(packet) - first : From(packet, first)[i] = packet[first + i]
    BY <1>0, <2>4, FromIs
  <2>6. WellTaken(From(packet, first), r)
    BY <2>1, <2>5, DrainedIsWell
  <2>7. all = packet
    <3>1. link.rx = <<>>
      BY <1>2, <1>s
    <3>2. packet \in Seq(Bytes)
      BY <1>0
    <3> QED
      BY ONLY <3>1, <3>2, NothingBefore DEF all
  <2>8. Ends(Coming, r.frames)
    <3> DEFINE w == From(packet, first)
    <3>1. \A i \in 1 .. Len(w) : w[i] = Coming[first + i]
      <4>1. ASSUME NEW i \in 1 .. Len(packet) - first PROVE w[i] = Coming[first + i]
        <5>1. first + i \in 1 .. Len(all)
          BY <2>4, <2>7, <1>0
        <5> QED
          BY <1>0, <2>5, <2>7, <5>1
      <4> QED
        BY <2>5, <4>1
    <3>2. Len(w) \in Nat /\ Len(Coming) \in Nat /\ Len(w) <= Len(Coming) /\ first + Len(w) <= Len(Coming) /\ first \in Nat
      BY <1>0, <2>4, <2>5, <2>7
    <3> HIDE DEF w
    <3>3. Ends(w, r.frames)
      BY <2>6 DEF WellTaken, w
    <3> QED
      BY <3>1, <3>2, <3>3, EndsFurther
  <2> QED
    BY <2>6, <2>8 DEF WellTaken
<1>3. CASE ~link.linked /\ ends = {}
  <2> DEFINE e == seen[Len(packet)]
  <2>1. r = [frames |-> <<>>, err |-> FALSE, link |-> [link EXCEPT !.progress = e]]
    BY <1>3 DEF Poll
  <2>2. e \in 0 .. MagicLen
    <3>1. Len(packet) \in 0 .. Len(packet)
      BY <1>0
    <3> QED
      BY <1>0, <1>s, <3>1, ScanIs
  <2>3. e # MagicLen
    <3>1. Len(packet) \in 1 .. Len(packet)
      BY <1>0
    <3> QED
      BY <1>3, <3>1
  <2> HIDE DEF e
  <2>4. [link EXCEPT !.progress = e] = [rx |-> link.rx, progress |-> e, linked |-> link.linked]
    <3>1. link = [rx |-> link.rx, progress |-> link.progress, linked |-> link.linked]
      BY DEF WireTyped
    <3>2. link \in [rx : {link.rx}, progress : {link.progress}, linked : {link.linked}]
      BY <3>1
    <3> QED
      BY <3>2
  <2>5. r.frames = <<>> /\ r.link.rx = <<>> /\ r.link.progress = e
    BY <1>3, <1>s, <2>1, <2>4
  <2> QED
    BY <1>s, <2>2, <2>3, <2>5 DEF HeldWell, Ends
<1> QED
  BY <1>1, <1>2, <1>3

LEMMA MurkFrom ==
  ASSUME NEW w \in Seq(Bytes), NEW n \in 0 .. Len(w)
  PROVE  /\ Murk(w) => Murk(From(w, n))
         /\ AllMagic(w) => AllMagic(From(w, n))
         /\ NoMagic(w) => NoMagic(From(w, n))
<1>1. /\ Len(From(w, n)) = Len(w) - n /\ Len(w) \in Nat /\ n \in Nat
      /\ \A i \in 1 .. Len(w) - n : From(w, n)[i] = w[n + i] /\ n + i \in 1 .. Len(w)
  BY FromIs
<1>2. ASSUME Murk(w) PROVE Murk(From(w, n))
  <2>1. ASSUME NEW i \in 1 .. Len(From(w, n)), NEW f \in Frames \ {"magic"}
        PROVE  From(w, n)[i] # <<f, Length[f]>>
    <3>1. n + i \in 1 .. Len(w) /\ From(w, n)[i] = w[n + i]
      BY <1>1
    <3> QED
      BY <1>2, <3>1 DEF Murk
  <2>2. ASSUME NEW i \in 1 .. Len(From(w, n)), NEW j \in 1 .. Len(From(w, n)), i < j, From(w, n)[i][1] = "magic"
        PROVE  From(w, n)[j][1] = "magic"
    <3>1. n + i < n + j /\ n + i \in 1 .. Len(w) /\ n + j \in 1 .. Len(w) /\ w[n + i][1] = "magic"
      BY <1>1, <2>2
    <3>2. w[n + j][1] = "magic"
      BY <1>2, <3>1 DEF Murk
    <3> QED
      BY <1>1, <2>2, <3>2
  <2> QED
    BY <2>1, <2>2 DEF Murk
<1> QED
  BY <1>1, <1>2 DEF AllMagic, NoMagic

\* In murk only magic is read, and behind it nothing but magic is left.
LEMMA MurkPoll ==
  ASSUME WireTyped, HeldWell(link), Murk(Coming), NEW packet \in Packets, NEW r \in Poll(link, packet)
  PROVE  LET next == r.link.rx \o Rest(packet) IN
         /\ Murk(next) /\ (AllMagic(Coming) => AllMagic(next))
         /\ \A i \in 1 .. Len(r.frames) : r.frames[i] = "magic"
         /\ r.frames # <<>> => AllMagic(next)
         /\ NoMagic(Coming) => r.frames = <<>> /\ NoMagic(next)
<1> DEFINE w == Coming
           next == r.link.rx \o Rest(packet)
<1>0. w \in Seq(Bytes) /\ packet \in Packets \cup {<<>>}
  BY PacketAhead
<1>1. /\ r.frames \in Seq(Frames)
      /\ \E cut \in 0 .. Len(w) : \E at \in [1 .. Len(r.frames) -> 1 .. cut] :
           TakenFrom(w, r.frames, at) /\ next = From(w, cut)
  BY <1>0, PollCuts
<1>m. Murk(w)
  OBVIOUS
<1>e. Ends(w, r.frames)
  BY PollIsWell
<1> HIDE DEF w, next
<1>2. PICK cut \in 0 .. Len(w) : \E at \in [1 .. Len(r.frames) -> 1 .. cut] :
        TakenFrom(w, r.frames, at) /\ next = From(w, cut)
  BY <1>1
<1>3. PICK at \in [1 .. Len(r.frames) -> 1 .. cut] : TakenFrom(w, r.frames, at) /\ next = From(w, cut)
  BY <1>2
<1>4. ASSUME NEW i \in 1 .. Len(r.frames) PROVE r.frames[i] = "magic"
  <2>1. PICK j \in 1 .. Len(w) : w[j] = <<r.frames[i], Length[r.frames[i]]>>
    BY <1>e DEF Ends
  <2>2. r.frames[i] \in Frames
    BY <1>1
  <2> QED
    BY <1>m, <2>1, <2>2 DEF Murk
<1>5. ASSUME r.frames # <<>> PROVE AllMagic(next) /\ ~NoMagic(w)
  <2>1. 1 \in 1 .. Len(r.frames)
    BY <1>1, <1>5
  <2>2. at[1] \in 1 .. cut /\ at[1] \in 1 .. Len(w) /\ w[at[1]] = <<"magic", 1>>
    BY <1>0, <1>3, <1>4, <2>1 DEF TakenFrom
  <2>3. /\ Len(next) = Len(w) - cut /\ Len(w) \in Nat
        /\ \A i \in 1 .. Len(w) - cut : next[i] = w[cut + i]
    <3>1. w \in Seq(Bytes) /\ cut \in 0 .. Len(w)
      BY <1>0
    <3>2. /\ Len(From(w, cut)) = Len(w) - cut
          /\ \A i \in 1 .. Len(w) - cut : From(w, cut)[i] = w[cut + i]
      BY ONLY <3>1, FromIs
    <3> QED
      BY <1>3, <3>1, <3>2
  <2>4. ASSUME NEW i \in 1 .. Len(w) - cut PROVE next[i][1] = "magic"
    <3>1. cut + i \in 1 .. Len(w) /\ at[1] < cut + i
      BY <2>2, <2>3
    <3>2. w[cut + i][1] = "magic"
      BY <1>m, <2>2, <3>1 DEF Murk
    <3> QED
      BY <2>3, <3>2
  <2> QED
    BY <2>2, <2>3, <2>4 DEF AllMagic, NoMagic
<1>6. Murk(next) /\ (AllMagic(w) => AllMagic(next)) /\ (NoMagic(w) => NoMagic(next))
  BY <1>0, <1>m, <1>3, MurkFrom
<1> QED
  BY <1>4, <1>5, <1>6 DEF w, next

-------------------------------------------------------------------------------
(* Streams whose fate is known.                                              *)
LEMMA DeafPoll ==
  ASSUME WireTyped, HeldWell(link), ~link.linked, NEW packet \in Packets, NoMagic(packet),
         NEW r \in Poll(link, packet)
  PROVE  r.frames = <<>> /\ ~r.link.linked
<1> DEFINE seen == ScanMagic(packet, link.progress)
           ends == {i \in 1 .. Len(packet) : seen[i] = MagicLen}
           e == seen[Len(packet)]
<1>0. packet \in Seq(Bytes) /\ Len(packet) \in Nat /\ link.progress \in 0 .. MagicLen - 1
  BY PacketAhead DEF HeldWell
<1>1. ends = {}
  <2>1. \A i \in 0 .. Len(packet) : seen[i] # MagicLen
    BY <1>0, GateStaysShut
  <2>2. 1 .. Len(packet) \subseteq 0 .. Len(packet)
    BY <1>0
  <2> HIDE DEF seen
  <2> QED
    BY <2>1, <2>2
<1>2. r = [frames |-> <<>>, err |-> FALSE, link |-> [link EXCEPT !.progress = e]]
  BY <1>1 DEF Poll
<1> HIDE DEF e
<1>3. [link EXCEPT !.progress = e] = [rx |-> link.rx, progress |-> e, linked |-> link.linked]
  <2>1. link = [rx |-> link.rx, progress |-> link.progress, linked |-> link.linked]
    BY DEF WireTyped
  <2>2. link \in [rx : {link.rx}, progress : {link.progress}, linked : {link.linked}]
    BY <2>1
  <2> QED
    BY <2>2
<1> QED
  BY <1>2, <1>3

LEMMA DrainedFirst ==
  ASSUME NEW bytes \in Seq(Bytes)
  PROVE  \E g : /\ Drained(bytes) = g[0]
                /\ \A n \in 0 .. Len(bytes) : g[n] = DrainedFrom(g, bytes, n)
                /\ \A n \in 0 .. Len(bytes) : \A r \in g[n] : Takes(bytes, n, r)
<1>1. PICK g : Draining(g, bytes) /\ Drained(bytes) = g[0]
  BY DrainingExists, DrainedIs
<1> DEFINE L == Len(bytes)
           T == {n \in 0 .. L : \A r \in g[n] : Takes(bytes, n, r)}
<1>0. L \in Nat
  OBVIOUS
<1>2. \A n \in 0 .. L : g[n] = DrainedFrom(g, bytes, n)
  BY <1>1 DEF Draining
<1>3. ASSUME NEW n \in 0 .. L, n + 1 .. L \subseteq T PROVE n \in T
  BY <1>2, <1>3, DrainedFromTakes
<1>4. 0 .. L \subseteq T
  <2> HIDE DEF T, L
  <2> QED
    BY <1>0, <1>3, Backwards
<1> QED
  BY <1>1, <1>2, <1>4

LEMMA BeginsAlone ==
  ASSUME NEW bytes \in Seq(Bytes), NEW n \in 0 .. Len(bytes), NEW f, n < Len(bytes) => bytes[n + 1] = <<f, 1>>
  PROVE  FrameAt(bytes, n) \subseteq {f} /\ (FrameAt(bytes, n) # {} => n < Len(bytes))
<1> SUFFICES ASSUME NEW h \in FrameAt(bytes, n) PROVE h = f /\ n < Len(bytes)
  OBVIOUS
<1>1. n + Length[h] \in n + 1 .. Len(bytes) /\ bytes[n + 1] = <<h, 1>>
  BY FrameAtIs
<1> QED
  BY <1>1

LEMMA PartialBegins ==
  ASSUME NEW rest \in Seq(Bytes), rest # <<>>, IsPartial(rest)
  PROVE  \E f \in Frames : rest[1] = <<f, 1>> /\ Len(rest) < Length[f]
<1>1. PICK f \in Frames : Len(rest) < Length[f] /\ rest = SubSeq(Encoded(f), 1, Len(rest))
  BY DEF IsPartial
<1>2. Length[f] \in Nat \ {0} /\ Len(rest) \in Nat \ {0}
  BY <1>1, FramesAssumption
<1>3. rest[1] = <<f, 1>>
  <2>1. Encoded(f) \in Seq(Bytes) /\ Len(Encoded(f)) = Length[f] /\ Encoded(f)[1] = <<f, 1>>
    BY <1>2, EncodedIs DEF Encoded
  <2>2. SubSeq(Encoded(f), 1, Len(rest))[1] = Encoded(f)[1]
    BY <1>1, <1>2, <2>1
  <2> QED
    BY <1>1, <2>1, <2>2
<1> QED
  BY <1>1, <1>3

LEMMA FromNone ==
  ASSUME NEW S, NEW s \in Seq(S)
  PROVE  From(s, 0) = s
<1>1. 0 \in 0 .. Len(s) /\ Len(s) \in Nat
  OBVIOUS
<1>2. From(s, 0) \in Seq(S) /\ Len(From(s, 0)) = Len(s) - 0 /\ \A i \in 1 .. Len(s) - 0 : From(s, 0)[i] = s[0 + i]
  BY <1>1, FromIs
<1>3. Len(From(s, 0)) = Len(s) /\ \A i \in 1 .. Len(s) : From(s, 0)[i] = s[i]
  BY <1>1, <1>2
<1> QED
  BY <1>2, <1>3, SeqEqual

\* A cut magic frame and something else: held while short, then refused.
LEMMA DoomedDrained ==
  ASSUME NEW bytes \in Seq(Bytes), bytes # <<>>, bytes[1] = <<"magic", 1>>,
         \/ Len(bytes) < Length["magic"]
         \/ \E i \in 1 .. Len(bytes) : i <= Length["magic"] /\ bytes[i][1] # "magic",
         NEW r \in Drained(bytes)
  PROVE  \/ r = Held(<<>>, bytes) /\ Len(bytes) < Length["magic"]
         \/ r = Desync(<<>>)
<1>1. PICK g : Drained(bytes) = g[0] /\ \A n \in 0 .. Len(bytes) : g[n] = DrainedFrom(g, bytes, n)
  BY DrainedFirst
<1>2. /\ Len(bytes) \in Nat \ {0} /\ 0 \in 0 .. Len(bytes) /\ From(bytes, 0) = bytes /\ 0 + 1 = 1
      /\ Length["magic"] \in Nat /\ Length["magic"] <= FrameLimit /\ FrameLimit \in Nat /\ Len(bytes) - 0 = Len(bytes)
  BY FromNone, MagicLenIs
<1>3. r \in DrainedFrom(g, bytes, 0)
  BY <1>1, <1>2
<1>4. FrameAt(bytes, 0) = {}
  <2>1. FrameAt(bytes, 0) \subseteq {"magic"}
    BY <1>2, BeginsAlone
  <2>2. SUFFICES ASSUME "magic" \in FrameAt(bytes, 0) PROVE FALSE
    BY <2>1
  <2>3. 0 + Length["magic"] <= Len(bytes) /\ SubSeq(bytes, 0 + 1, 0 + Length["magic"]) = Encoded("magic")
    BY <2>2 DEF FrameAt
  <2>4. PICK i \in 1 .. Len(bytes) : i <= Length["magic"] /\ bytes[i][1] # "magic"
    BY <1>2, <2>3
  <2>5. i \in 1 .. Length["magic"] /\ 0 + Length["magic"] = Length["magic"]
    BY <1>2, <2>4
  <2>6. SubSeq(bytes, 1, Length["magic"])[i] = bytes[i]
    BY <1>2, <2>3, <2>5
  <2>7. Encoded("magic")[i] = <<"magic", i>>
    BY <2>5 DEF Encoded
  <2> QED
    BY <1>2, <2>3, <2>4, <2>5, <2>6, <2>7
<1>5. CASE IsPartial(bytes)
  <2>1. r = Waiting(<<>>, bytes)
    BY <1>2, <1>3, <1>4, <1>5 DEF DrainedFrom
  <2>2. Len(bytes) < Length["magic"]
    <3>1. bytes[1][1] = "magic"
      OBVIOUS
    <3> QED
      BY <1>5, <3>1, PartialMagic
  <2>3. Len(bytes) <= FrameLimit
    BY <1>2, <2>2
  <2> QED
    BY <2>1, <2>2, <2>3 DEF Waiting
<1>6. CASE ~IsPartial(bytes)
  <2> DEFINE may == Misread(bytes, 0)
  <2>1. /\ may.refused = ~(Len(bytes) < Length["magic"]) /\ may.held = (Len(bytes) < Length["magic"])
        /\ may.dropped = {}
    <3>1. bytes[0 + 1] = <<"magic", 1>>
      BY <1>2
    <3>2. may = [refused |-> ~(Len(bytes) - 0 < Length["magic"]), held |-> Len(bytes) - 0 < Length["magic"],
                 dropped |-> {}]
      <4>1. \A k \in 1 .. MagicLen : Pattern[k] = <<"magic", k + 1>> /\ <<"magic", k + 1>> # <<"magic", 1>>
        BY DEF Pattern
      <4>2. <<"magic", 1>> \notin Range(Pattern)
        BY <4>1 DEF Range, Pattern
      <4> QED
        BY <3>1, <4>2 DEF Misread
    <3> HIDE DEF may
    <3> QED
      BY <1>2, <3>2
  <2>2. \/ may.refused /\ r = Desync(<<>>)
        \/ may.held /\ r = Waiting(<<>>, bytes)
        \/ \E m \in may.dropped : r \in g[m]
    BY <1>2, <1>3, <1>4, <1>6 DEF DrainedFrom
  <2> HIDE DEF may
  <2>3. CASE may.held /\ r = Waiting(<<>>, bytes)
    BY <1>2, <2>1, <2>3 DEF Waiting
  <2> QED
    BY <2>1, <2>2, <2>3
<1> QED
  BY <1>5, <1>6

LEMMA DoomedPoll ==
  ASSUME WireTyped, Doomed, NEW packet \in Packets, NEW r \in Poll(link, packet)
  PROVE  /\ r.frames = <<>>
         /\ \/ /\ r.link.linked /\ r.link.rx = link.rx \o packet
               /\ Len(r.link.rx) < Length["magic"] /\ r.link.rx \o Rest(packet) = Coming
            \/ ~r.link.linked
<1> DEFINE all == link.rx \o packet
<1>0. /\ all \in Seq(Bytes) /\ Coming \in Seq(Bytes)
      /\ Len(all) \in 1 .. Len(Coming)
      /\ \A i \in 1 .. Len(all) : all[i] = Coming[i]
      /\ \A n \in 0 .. Len(all) : From(all, n) \o Rest(packet) = From(Coming, n)
  BY PacketAhead
<1>1. all \o Rest(packet) = Coming
  <2>1. 0 \in 0 .. Len(all)
    BY <1>0
  <2> HIDE DEF all
  <2>2. From(all, 0) = all /\ From(Coming, 0) = Coming
    <3>1. all \in Seq(Bytes) /\ Coming \in Seq(Bytes)
      BY <1>0 DEF all
    <3> QED
      BY ONLY <3>1, FromNone
  <2>3. From(all, 0) \o Rest(packet) = From(Coming, 0)
    BY <1>0, <2>1 DEF all
  <2> QED
    BY <2>2, <2>3
<1>2. all # <<>> /\ all[1] = <<"magic", 1>>
  BY PacketAhead DEF Doomed, WireTyped
<1>3. r \in Drained(all)
  BY DEF Poll, Doomed
<1>4. \/ Len(all) < Length["magic"]
      \/ \E i \in 1 .. Len(all) : i <= Length["magic"] /\ all[i][1] # "magic"
  <2>1. PICK i \in 1 .. Len(Coming) : i <= Length["magic"] /\ Coming[i][1] # "magic"
    BY DEF Doomed
  <2>4. Len(all) \in Nat /\ \A k \in 1 .. Len(all) : all[k] = Coming[k]
    BY <1>0
  <2> HIDE DEF all
  <2>2. CASE i <= Len(all)
    <3>1. i \in 1 .. Len(all) /\ all[i] = Coming[i]
      BY <2>1, <2>2, <2>4
    <3> QED
      BY <2>1, <3>1
  <2>3. CASE ~(i <= Len(all))
    BY <2>1, <2>3, <2>4, MagicLenIs
  <2> QED
    BY <2>2, <2>3
<1> HIDE DEF all
<1>5. \/ r = Held(<<>>, all) /\ Len(all) < Length["magic"]
      \/ r = Desync(<<>>)
  BY <1>0, <1>2, <1>3, <1>4, DoomedDrained
<1>6. CASE r = Held(<<>>, all) /\ Len(all) < Length["magic"]
  <2>1. r.frames = <<>> /\ r.link.linked /\ r.link.rx = all
    BY <1>6 DEF Held
  <2> QED
    BY <1>1, <1>6, <2>1 DEF all
<1>7. CASE r = Desync(<<>>)
  BY <1>7 DEF Desync, Unlinked
<1> QED
  BY <1>5, <1>6, <1>7

\* A whole frame is read, and the beginning of one is held.
LEMMA FrameFirst ==
  ASSUME NEW bytes \in Seq(Bytes), NEW g, NEW n \in 0 .. Len(bytes), NEW f \in Frames,
         Length[f] <= FrameLimit, n + Length[f] <= Len(bytes),
         \A i \in 1 .. Length[f] : bytes[n + i] = <<f, i>>,
         g[n] = DrainedFrom(g, bytes, n),
         \A q \in g[n + Length[f]] : Takes(bytes, n + Length[f], q), NEW r \in g[n]
  PROVE  \E q \in g[n + Length[f]] : r.frames = <<f>> \o q.frames /\ r.link = q.link
<1>1. Length[f] \in Nat \ {0} /\ Len(bytes) \in Nat /\ n \in Nat
  BY FramesAssumption
<1>2. f \in FrameAt(bytes, n)
  <2> DEFINE x == SubSeq(bytes, n + 1, n + Length[f])
  <2>1. x \in Seq(Bytes) /\ Len(x) = Length[f] /\ \A i \in 1 .. Length[f] : x[i] = bytes[n + i]
    <3> DEFINE k == n + Length[f]
    <3>1. k \in n .. Len(bytes) /\ k - n = Length[f]
      BY <1>1
    <3> HIDE DEF k
    <3>2. /\ SubSeq(bytes, n + 1, k) \in Seq(Bytes) /\ Len(SubSeq(bytes, n + 1, k)) = k - n
          /\ \A i \in 1 .. k - n : SubSeq(bytes, n + 1, k)[i] = bytes[n + i]
      BY <1>1, <3>1
    <3> QED
      BY <3>1, <3>2 DEF k
  <2>2. /\ Encoded(f) \in Seq(Bytes) /\ Len(Encoded(f)) = Length[f]
        /\ \A i \in 1 .. Length[f] : Encoded(f)[i] = <<f, i>>
    BY EncodedIs
  <2> HIDE DEF x
  <2>3. x = Encoded(f)
    <3>1. Len(x) = Len(Encoded(f)) /\ \A i \in 1 .. Len(x) : x[i] = Encoded(f)[i]
      BY <2>1, <2>2
    <3> QED
      BY <2>1, <2>2, <3>1, SeqEqual
  <2> QED
    BY <2>3 DEF FrameAt, x
<1>3. (CHOOSE h \in FrameAt(bytes, n) : TRUE) = f
  <2>1. n < Len(bytes) /\ 1 \in 1 .. Length[f]
    BY <1>1
  <2>2. bytes[n + 1] = <<f, 1>>
    BY <2>1
  <2>3. FrameAt(bytes, n) \subseteq {f}
    BY <2>2, BeginsAlone
  <2> QED
    BY <1>2, <2>3
<1>4. r \in {[q EXCEPT !.frames = <<f>> \o @] : q \in g[n + Length[f]]}
  <2>1. DrainedFrom(g, bytes, n) =
          LET h == CHOOSE h \in FrameAt(bytes, n) : TRUE
          IN  {[q EXCEPT !.frames = <<h>> \o @] : q \in g[n + Length[h]]}
    BY <1>2 DEF DrainedFrom
  <2> QED
    BY <1>3, <2>1
<1>5. PICK q \in g[n + Length[f]] : r = [q EXCEPT !.frames = <<f>> \o @]
  BY <1>4
<1>6. r.frames = <<f>> \o q.frames /\ r.link = q.link
  <2>1. q = [frames |-> q.frames, err |-> q.err, link |-> q.link]
    BY <1>5 DEF Takes
  <2>2. q \in [frames : {q.frames}, err : {q.err}, link : {q.link}]
    BY <2>1
  <2>3. \A e : [q EXCEPT !.frames = e] = [frames |-> e, err |-> q.err, link |-> q.link]
    BY <2>2
  <2>4. r = [q EXCEPT !.frames = <<f>> \o q.frames]
    BY <1>5, Zenon
  <2>5. r = [frames |-> <<f>> \o q.frames, err |-> q.err, link |-> q.link]
    BY <2>3, <2>4
  <2> QED
    BY <2>5
<1> QED
  BY <1>5, <1>6

LEMMA PartialLast ==
  ASSUME NEW bytes \in Seq(Bytes), NEW g, NEW n \in 0 .. Len(bytes), NEW f \in Frames,
         Length[f] <= FrameLimit, Len(bytes) - n < Length[f],
         \A i \in 1 .. Len(bytes) - n : bytes[n + i] = <<f, i>>,
         g[n] = DrainedFrom(g, bytes, n), NEW r \in g[n]
  PROVE  r = Held(<<>>, From(bytes, n))
<1> DEFINE rest == From(bytes, n)
           k == Len(bytes) - n
<1>1. Length[f] \in Nat \ {0} /\ Len(bytes) \in Nat /\ n \in Nat /\ k \in Nat /\ FrameLimit \in Nat
  BY FramesAssumption
<1>2. rest \in Seq(Bytes) /\ Len(rest) = k /\ \A i \in 1 .. k : rest[i] = bytes[n + i]
  <2>1. bytes \in Seq(Bytes) /\ n \in 0 .. Len(bytes)
    OBVIOUS
  <2> QED
    BY ONLY <2>1, FromIs
<1>3. FrameAt(bytes, n) = {}
  <2>1. n < Len(bytes) => bytes[n + 1] = <<f, 1>>
    BY <1>1
  <2>2. FrameAt(bytes, n) \subseteq {f}
    BY <2>1, BeginsAlone
  <2>3. f \notin FrameAt(bytes, n)
    BY <1>1 DEF FrameAt
  <2> QED
    BY <2>2, <2>3
<1>4. IsPartial(rest)
  <2>1. /\ Encoded(f) \in Seq(Bytes) /\ Len(Encoded(f)) = Length[f]
        /\ \A i \in 1 .. Length[f] : Encoded(f)[i] = <<f, i>>
    BY EncodedIs
  <2> DEFINE x == SubSeq(Encoded(f), 1, k)
  <2> HIDE DEF k, rest
  <2>2. k \in 0 .. Len(Encoded(f)) /\ k < Length[f]
    BY <1>1, <2>1 DEF k
  <2>3. x \in Seq(Bytes) /\ Len(x) = k /\ \A i \in 1 .. k : x[i] = Encoded(f)[i]
    BY <2>1, <2>2
  <2> HIDE DEF x
  <2>4. \A i \in 1 .. k : rest[i] = x[i]
    <3>1. ASSUME NEW i \in 1 .. k PROVE rest[i] = x[i]
      <4>1. i \in 1 .. Length[f] /\ bytes[n + i] = <<f, i>>
        BY <1>1, <2>2 DEF k
      <4> QED
        BY <1>2, <2>1, <2>3, <4>1
    <3> QED
      BY <3>1
  <2>5. rest = x
    BY <1>2, <2>3, <2>4, SeqEqual
  <2> QED
    BY <1>2, <2>2, <2>5 DEF IsPartial, x
<1>5. r = Waiting(<<>>, rest)
  BY <1>3, <1>4 DEF DrainedFrom
<1>6. Len(rest) <= FrameLimit
  BY <1>1, <1>2
<1> QED
  BY <1>5, <1>6 DEF Waiting

\* At the end of the bytes nothing is left.
LEMMA NoneLast ==
  ASSUME NEW bytes \in Seq(Bytes), NEW g, g[Len(bytes)] = DrainedFrom(g, bytes, Len(bytes)),
         NEW r \in g[Len(bytes)]
  PROVE  r.frames = <<>> /\ r.link.linked /\ r.link.rx = <<>>
<1> DEFINE L == Len(bytes)
<1>1. /\ "magic" \in Frames /\ Length["magic"] \in Nat \ {0} /\ Length["magic"] <= FrameLimit
      /\ L \in Nat /\ L \in 0 .. Len(bytes) /\ L - L = 0
  BY MagicLenIs, FramesAssumption
<1>2. From(bytes, L) = <<>>
  <2>1. bytes \in Seq(Bytes) /\ L \in 0 .. Len(bytes)
    BY <1>1
  <2> QED
    BY ONLY <2>1, FromIs
<1>3. Len(bytes) - L < Length["magic"] /\ \A i \in 1 .. Len(bytes) - L : bytes[L + i] = <<"magic", i>>
  BY <1>1
<1>4. r = Held(<<>>, From(bytes, L))
  BY <1>1, <1>3, PartialLast
<1> QED
  BY <1>2, <1>4 DEF Held

LEMMA Together ==
  ASSUME NEW f, NEW h
  PROVE  <<f>> \o <<h>> = <<f, h>> /\ <<h>> \o <<>> = <<h>>
<1> DEFINE S == {f, h}
           x == <<f>> \o <<h>>
           y == <<h>> \o <<>>
<1>1. <<f>> \in Seq(S) /\ <<h>> \in Seq(S) /\ <<f, h>> \in Seq(S) /\ <<>> \in Seq(S)
  OBVIOUS
<1>2. x \in Seq(S) /\ Len(x) = 2 /\ x[1] = f /\ x[2] = h
  BY <1>1
<1>3. y \in Seq(S) /\ Len(y) = 1 /\ y[1] = h
  BY <1>1
<1> HIDE DEF x, y, S
<1>4. Len(<<f, h>>) = 2 /\ <<f, h>>[1] = f /\ <<f, h>>[2] = h /\ Len(<<h>>) = 1 /\ <<h>>[1] = h
  OBVIOUS
<1>5. \A i \in 1 .. 2 : x[i] = <<f, h>>[i]
  BY <1>2, <1>4
<1>6. x = <<f, h>>
  BY <1>1, <1>2, <1>4, <1>5, SeqEqual
<1>7. y = <<h>>
  BY <1>1, <1>3, <1>4, SeqEqual
<1> QED
  BY <1>6, <1>7 DEF x, y

LEMMA OneDrained ==
  ASSUME NEW bytes \in Seq(Bytes), NEW f \in Frames, Length[f] <= FrameLimit, Len(bytes) <= Length[f],
         \A i \in 1 .. Len(bytes) : bytes[i] = <<f, i>>, NEW r \in Drained(bytes)
  PROVE  /\ r.link.linked
         /\ \/ Len(bytes) < Length[f] /\ r.frames = <<>> /\ r.link.rx = bytes
            \/ Len(bytes) = Length[f] /\ r.frames = <<f>> /\ r.link.rx = <<>>
<1>1. PICK g : /\ Drained(bytes) = g[0]
               /\ \A n \in 0 .. Len(bytes) : g[n] = DrainedFrom(g, bytes, n)
               /\ \A n \in 0 .. Len(bytes) : \A q \in g[n] : Takes(bytes, n, q)
  BY DrainedFirst
<1>2. /\ Length[f] \in Nat \ {0} /\ Len(bytes) \in Nat /\ 0 \in 0 .. Len(bytes) /\ Len(bytes) \in 0 .. Len(bytes)
      /\ Len(bytes) - 0 = Len(bytes) /\ From(bytes, 0) = bytes /\ \A i \in Nat : 0 + i = i
  BY FramesAssumption, FromNone
<1>3. CASE Len(bytes) < Length[f]
  <2>1. /\ Len(bytes) - 0 < Length[f] /\ \A i \in 1 .. Len(bytes) - 0 : bytes[0 + i] = <<f, i>>
        /\ g[0] = DrainedFrom(g, bytes, 0) /\ r \in g[0]
    BY <1>1, <1>2, <1>3
  <2>2. r = Held(<<>>, bytes)
    BY <1>2, <2>1, PartialLast
  <2> QED
    BY <1>3, <2>2 DEF Held
<1>4. CASE Len(bytes) = Length[f]
  <2>1. /\ 0 + Length[f] = Len(bytes) /\ 0 + Length[f] <= Len(bytes)
        /\ \A i \in 1 .. Length[f] : bytes[0 + i] = <<f, i>>
        /\ g[0] = DrainedFrom(g, bytes, 0) /\ r \in g[0]
        /\ \A q \in g[0 + Length[f]] : Takes(bytes, 0 + Length[f], q)
    BY <1>1, <1>2, <1>4
  <2>2. PICK q \in g[0 + Length[f]] : r.frames = <<f>> \o q.frames /\ r.link = q.link
    <3>1. bytes \in Seq(Bytes) /\ 0 \in 0 .. Len(bytes) /\ f \in Frames /\ Length[f] <= FrameLimit
      BY <1>2
    <3>2. /\ 0 + Length[f] <= Len(bytes) /\ \A i \in 1 .. Length[f] : bytes[0 + i] = <<f, i>>
          /\ g[0] = DrainedFrom(g, bytes, 0) /\ r \in g[0]
      BY <2>1
    <3>3. \A q \in g[0 + Length[f]] : Takes(bytes, 0 + Length[f], q)
      BY <2>1
    <3> QED
      BY ONLY <3>1, <3>2, <3>3, FrameFirst
  <2>3. q \in g[Len(bytes)] /\ g[Len(bytes)] = DrainedFrom(g, bytes, Len(bytes))
    BY <1>1, <1>2, <2>1, <2>2
  <2>4. q.frames = <<>> /\ q.link.linked /\ q.link.rx = <<>>
    BY <2>3, NoneLast
  <2> QED
    BY <1>4, <2>2, <2>4
<1> QED
  BY <1>2, <1>3, <1>4

LEMMA TwoDrained ==
  ASSUME NEW bytes \in Seq(Bytes), NEW f \in Frames, NEW h \in Frames,
         Length[f] <= FrameLimit, Length[h] <= FrameLimit, Len(bytes) <= Length[f] + Length[h],
         \A i \in 1 .. Len(bytes) : bytes[i] = IF i <= Length[f] THEN <<f, i>> ELSE <<h, i - Length[f]>>,
         NEW r \in Drained(bytes)
  PROVE  /\ r.link.linked
         /\ \/ Len(bytes) < Length[f] /\ r.frames = <<>> /\ r.link.rx = bytes
            \/ /\ Length[f] <= Len(bytes) /\ Len(bytes) < Length[f] + Length[h]
               /\ r.frames = <<f>> /\ r.link.rx = From(bytes, Length[f])
            \/ Len(bytes) = Length[f] + Length[h] /\ r.frames = <<f, h>> /\ r.link.rx = <<>>
<1> DEFINE F == Length[f]
           H == Length[h]
           L == Len(bytes)
<1>1. PICK g : /\ Drained(bytes) = g[0]
               /\ \A n \in 0 .. Len(bytes) : g[n] = DrainedFrom(g, bytes, n)
               /\ \A n \in 0 .. Len(bytes) : \A q \in g[n] : Takes(bytes, n, q)
  BY DrainedFirst
<1>2. F \in Nat \ {0} /\ H \in Nat \ {0} /\ L \in Nat /\ 0 \in 0 .. L
  BY FramesAssumption
<1>3. CASE L < F
  <2>0. Len(bytes) <= Length[f]
    BY <1>2, <1>3
  <2>1. \A i \in 1 .. Len(bytes) : bytes[i] = <<f, i>>
    <3>1. ASSUME NEW i \in 1 .. Len(bytes) PROVE bytes[i] = <<f, i>>
      <4>1. i <= Length[f]
        BY <1>2, <1>3
      <4> QED
        BY <4>1
    <3> QED
      BY <3>1
  <2>2. \/ Len(bytes) < Length[f] /\ r.frames = <<>> /\ r.link.rx = bytes
        \/ Len(bytes) = Length[f] /\ r.frames = <<f>> /\ r.link.rx = <<>>
    BY <2>0, <2>1, OneDrained
  <2>3. r.link.linked
    BY <2>0, <2>1, OneDrained
  <2> QED
    BY <1>2, <1>3, <2>2, <2>3
<1>4. CASE F <= L
  <2>0. ASSUME NEW i \in 1 .. Length[f] PROVE bytes[0 + i] = <<f, i>>
    <3>1. i \in 1 .. Len(bytes) /\ i <= Length[f] /\ 0 + i = i
      BY <1>2, <1>4
    <3> QED
      BY <3>1
  <2>1. /\ 0 + Length[f] = F /\ 0 + Length[f] <= Len(bytes) /\ F \in 0 .. Len(bytes)
        /\ \A i \in 1 .. Length[f] : bytes[0 + i] = <<f, i>>
        /\ g[0] = DrainedFrom(g, bytes, 0) /\ r \in g[0]
    BY <1>1, <1>2, <1>4, <2>0
  <2>2. \A q \in g[0 + Length[f]] : Takes(bytes, 0 + Length[f], q)
    BY <1>1, <2>1
  <2>3. PICK q \in g[0 + Length[f]] : r.frames = <<f>> \o q.frames /\ r.link = q.link
    <3>1. bytes \in Seq(Bytes) /\ 0 \in 0 .. Len(bytes) /\ f \in Frames /\ Length[f] <= FrameLimit
      BY <1>2
    <3> QED
      BY ONLY <2>1, <2>2, <3>1, FrameFirst
  <2>4. q \in g[F] /\ g[F] = DrainedFrom(g, bytes, F) /\ \A p \in g[F] : Takes(bytes, F, p)
    BY <1>1, <2>1, <2>3
  <2>5. \A i \in 1 .. L - F : bytes[F + i] = <<h, i>>
    <3>1. ASSUME NEW i \in 1 .. L - F PROVE bytes[F + i] = <<h, i>>
      <4>1. F + i \in 1 .. L /\ ~(F + i <= F) /\ (F + i) - F = i
        BY <1>2, <1>4
      <4> QED
        BY <4>1
    <3> QED
      BY <3>1
  <2>6. CASE L < F + H
    <3>1. Len(bytes) - F < Length[h]
      BY <1>2, <2>6
    <3>2. q = Held(<<>>, From(bytes, F))
      <4> HIDE DEF F
      <4> QED
        BY <2>1, <2>4, <2>5, <3>1, PartialLast
    <3>3. q.frames = <<>> /\ q.link.linked /\ q.link.rx = From(bytes, F)
      BY <3>2 DEF Held
    <3> QED
      BY <1>4, <2>3, <2>6, <3>3
  <2>7. CASE L = F + H
    <3>1. /\ F + Length[h] <= Len(bytes) /\ \A i \in 1 .. Length[h] : bytes[F + i] = <<h, i>>
          /\ F + Length[h] = Len(bytes) /\ Len(bytes) \in 0 .. Len(bytes)
      BY <1>2, <2>5, <2>7
    <3>2. \A p \in g[F + Length[h]] : Takes(bytes, F + Length[h], p)
      BY <1>1, <3>1
    <3>3. PICK p \in g[F + Length[h]] : q.frames = <<h>> \o p.frames /\ q.link = p.link
      <4>1. bytes \in Seq(Bytes) /\ F \in 0 .. Len(bytes) /\ h \in Frames /\ Length[h] <= FrameLimit
        BY <1>2, <2>1
      <4> HIDE DEF F
      <4> QED
        BY ONLY <2>4, <3>1, <3>2, <4>1, FrameFirst
    <3>4. p \in g[Len(bytes)] /\ g[Len(bytes)] = DrainedFrom(g, bytes, Len(bytes))
      BY <1>1, <3>1, <3>3
    <3>5. p.frames = <<>> /\ p.link.linked /\ p.link.rx = <<>>
      BY <3>4, NoneLast
    <3>6. r.frames = <<f>> \o (<<h>> \o <<>>)
      BY <2>3, <3>3, <3>5
    <3>7. <<h>> \o <<>> = <<h>> /\ <<f>> \o <<h>> = <<f, h>>
      BY Together
    <3> QED
      BY <2>3, <2>7, <3>3, <3>5, <3>6, <3>7
  <2> QED
    BY <1>2, <2>6, <2>7
<1> QED
  BY <1>2, <1>3, <1>4

LEMMA PrefixIs ==
  ASSUME NEW S, NEW s \in Seq(S), NEW n \in 0 .. Len(s)
  PROVE  /\ SubSeq(s, 1, n) \in Seq(S) /\ Len(SubSeq(s, 1, n)) = n
         /\ \A i \in 1 .. n : SubSeq(s, 1, n)[i] = s[i]
OBVIOUS

LEMMA CutJoin ==
  ASSUME NEW S, NEW x \in Seq(S), NEW y \in Seq(S), NEW n \in Len(x) .. Len(x) + Len(y)
  PROVE  From(SubSeq(x \o y, 1, n), Len(x)) = SubSeq(y, 1, n - Len(x))
<1> DEFINE X == Len(x)
           Y == Len(y)
           a == SubSeq(x \o y, 1, n)
           b == From(a, X)
           c == SubSeq(y, 1, n - X)
<1>1. X \in Nat /\ Y \in Nat /\ n \in X .. X + Y /\ n - X \in 0 .. Y /\ n \in 0 .. X + Y /\ X \in 0 .. n
  OBVIOUS
<1>2. /\ x \o y \in Seq(S) /\ Len(x \o y) = X + Y
      /\ \A i \in X + 1 .. X + Y : (x \o y)[i] = y[i - X]
  BY JoinIs
<1>3. a \in Seq(S) /\ Len(a) = n /\ \A i \in 1 .. n : a[i] = (x \o y)[i]
  BY <1>1, <1>2, PrefixIs
<1>4. c \in Seq(S) /\ Len(c) = n - X /\ \A i \in 1 .. n - X : c[i] = y[i]
  BY <1>1, PrefixIs
<1> HIDE DEF a, c, X, Y
<1>5. b \in Seq(S) /\ Len(b) = n - X /\ \A i \in 1 .. n - X : b[i] = a[X + i]
  BY <1>1, <1>3, FromIs
<1> HIDE DEF b
<1>6. ASSUME NEW i \in 1 .. n - X PROVE b[i] = c[i]
  <2>1. X + i \in 1 .. n /\ X + i \in X + 1 .. X + Y /\ (X + i) - X = i
    BY <1>1
  <2> QED
    BY <1>2, <1>3, <1>4, <1>5, <2>1
<1>7. b = c
  BY <1>4, <1>5, <1>6, SeqEqual
<1> QED
  BY <1>7 DEF a, b, c, X

LEMMA ConvoIs ==
  ASSUME NEW f \in DOMAIN Offers
  PROVE  LET both == Encoded(f) \o Encoded("enter") IN
         /\ f \in Frames /\ "enter" \in Frames /\ f # "magic" /\ f # "enter"
         /\ Length[f] \in Nat \ {0} /\ Length["enter"] \in Nat \ {0}
         /\ Length[f] <= FrameLimit /\ Length["enter"] <= FrameLimit
         /\ Encoded(f) \in Seq(Bytes) /\ Len(Encoded(f)) = Length[f]
         /\ Encoded("enter") \in Seq(Bytes) /\ Len(Encoded("enter")) = Length["enter"]
         /\ both \in Seq(Bytes) /\ Len(both) = Length[f] + Length["enter"]
         /\ \A i \in 1 .. Length[f] + Length["enter"] :
              both[i] = IF i <= Length[f] THEN <<f, i>> ELSE <<"enter", i - Length[f]>>
<1> DEFINE both == Encoded(f) \o Encoded("enter")
           F == Length[f]
           E == Length["enter"]
<1>1. f \in Frames /\ "enter" \in Frames /\ f # "magic" /\ f # "enter" /\ F <= FrameLimit /\ E <= FrameLimit
  BY UpgradeAssumption
<1>2. F \in Nat \ {0} /\ E \in Nat \ {0}
  BY <1>1, FramesAssumption
<1>3. Encoded(f) \in Seq(Bytes) /\ Len(Encoded(f)) = F /\ \A i \in 1 .. F : Encoded(f)[i] = <<f, i>>
  BY <1>1, EncodedIs
<1>4. Encoded("enter") \in Seq(Bytes) /\ Len(Encoded("enter")) = E /\ \A i \in 1 .. E : Encoded("enter")[i] = <<"enter", i>>
  BY <1>1, EncodedIs
<1>5. /\ both \in Seq(Bytes) /\ Len(both) = F + E
      /\ \A i \in 1 .. F : both[i] = Encoded(f)[i]
      /\ \A i \in F + 1 .. F + E : both[i] = Encoded("enter")[i - F]
  <2>1. /\ both \in Seq(Bytes) /\ Len(both) = Len(Encoded(f)) + Len(Encoded("enter"))
        /\ \A i \in 1 .. Len(Encoded(f)) : both[i] = Encoded(f)[i]
        /\ \A i \in Len(Encoded(f)) + 1 .. Len(Encoded(f)) + Len(Encoded("enter")) :
             both[i] = Encoded("enter")[i - Len(Encoded(f))]
    BY <1>3, <1>4, JoinIs
  <2> QED
    BY <1>3, <1>4, <2>1
<1> HIDE DEF both, F, E
<1>6. ASSUME NEW i \in 1 .. F + E
      PROVE  both[i] = IF i <= F THEN <<f, i>> ELSE <<"enter", i - F>>
  <2>1. CASE i <= F
    BY <1>2, <1>3, <1>5, <2>1
  <2>2. CASE ~(i <= F)
    <3>1. i \in F + 1 .. F + E /\ i - F \in 1 .. E
      BY <1>2, <2>2
    <3> QED
      BY <1>4, <1>5, <2>2, <3>1
  <2> QED
    BY <2>1, <2>2
<1>7. /\ Encoded(f) \in Seq(Bytes) /\ Len(Encoded(f)) = F
      /\ Encoded("enter") \in Seq(Bytes) /\ Len(Encoded("enter")) = E
  BY <1>3, <1>4
<1> QED
  BY <1>1, <1>2, <1>5, <1>6, <1>7 DEF both, F, E

LEMMA ToOfferPoll ==
  ASSUME WireTyped, offer \in DOMAIN Offers, NEW n \in Nat, ToOffer(n),
         NEW packet \in Packets, NEW r \in Poll(link, packet)
  PROVE  LET next == r.link.rx \o Rest(packet) IN
         /\ r.link.linked
         /\ \/ r.frames = <<>> /\ next = SubSeq(Convo, 1, n) /\ Len(r.link.rx) < Length[offer]
            \/ /\ Length[offer] <= n /\ r.frames = <<offer>> /\ Len(r.link.rx) < Length["enter"]
               /\ next = SubSeq(Encoded("enter"), 1, n - Length[offer])
            \/ r.frames = <<offer, "enter">> /\ r.link.rx = <<>> /\ next = <<>> /\ n = Len(Convo)
<1> DEFINE all == link.rx \o packet
           next == r.link.rx \o Rest(packet)
           F == Length[offer]
           E == Length["enter"]
<1>0. /\ all \in Seq(Bytes) /\ Coming \in Seq(Bytes)
      /\ Len(all) \in 1 .. Len(Coming)
      /\ \A i \in 1 .. Len(all) : all[i] = Coming[i]
      /\ \A k \in 0 .. Len(all) : From(all, k) \o Rest(packet) = From(Coming, k)
  BY PacketAhead
<1>1. /\ offer \in Frames /\ "enter" \in Frames /\ offer # "magic" /\ offer # "enter"
      /\ F \in Nat \ {0} /\ E \in Nat \ {0} /\ F <= FrameLimit /\ E <= FrameLimit
      /\ Encoded(offer) \in Seq(Bytes) /\ Len(Encoded(offer)) = F
      /\ Encoded("enter") \in Seq(Bytes) /\ Len(Encoded("enter")) = E
      /\ Convo \in Seq(Bytes) /\ Len(Convo) = F + E
      /\ \A i \in 1 .. F + E : Convo[i] = IF i <= F THEN <<offer, i>> ELSE <<"enter", i - F>>
  BY ConvoIs DEF Convo
<1>2. r \in Drained(all) /\ n <= F + E /\ Coming = SubSeq(Convo, 1, n) /\ n \in 0 .. F + E
  BY <1>1 DEF Poll, ToOffer
<1>3. Len(Coming) = n /\ \A i \in 1 .. n : Coming[i] = Convo[i]
  BY <1>1, <1>2, PrefixIs
<1> HIDE DEF all, F, E
<1>n. Len(all) \in Nat /\ Len(all) <= n /\ F + E \in Nat
  BY <1>0, <1>1, <1>2, <1>3
<1>4. ASSUME NEW i \in 1 .. Len(all) PROVE all[i] = IF i <= F THEN <<offer, i>> ELSE <<"enter", i - F>>
  <2>1. i \in 1 .. n /\ i \in 1 .. F + E
    BY <1>2, <1>n
  <2> QED
    BY <1>0, <1>1, <1>3, <2>1
<1>5. Len(all) <= F + E /\ Len(all) \in Nat
  BY <1>0, <1>1, <1>2, <1>3
<1>6. /\ r.link.linked
      /\ \/ Len(all) < F /\ r.frames = <<>> /\ r.link.rx = all
         \/ /\ F <= Len(all) /\ Len(all) < F + E
            /\ r.frames = <<offer>> /\ r.link.rx = From(all, F)
         \/ Len(all) = F + E /\ r.frames = <<offer, "enter">> /\ r.link.rx = <<>>
  <2>1. /\ all \in Seq(Bytes) /\ offer \in Frames /\ "enter" \in Frames
        /\ Length[offer] <= FrameLimit /\ Length["enter"] <= FrameLimit
        /\ Len(all) <= Length[offer] + Length["enter"] /\ r \in Drained(all)
    BY <1>0, <1>1, <1>2, <1>5 DEF F, E
  <2>2. \A i \in 1 .. Len(all) :
          all[i] = IF i <= Length[offer] THEN <<offer, i>> ELSE <<"enter", i - Length[offer]>>
    BY <1>4 DEF F
  <2> QED
    BY ONLY <2>1, <2>2, TwoDrained DEF F, E
<1>7. CASE Len(all) < F /\ r.frames = <<>> /\ r.link.rx = all
  <2>1. 0 \in 0 .. Len(all)
    BY <1>5
  <2>2. From(all, 0) = all /\ From(Coming, 0) = Coming
    <3>1. all \in Seq(Bytes) /\ Coming \in Seq(Bytes)
      BY <1>0
    <3> QED
      BY ONLY <3>1, FromNone
  <2>3. next = Coming
    BY <1>0, <1>7, <2>1, <2>2
  <2> QED
    BY <1>2, <1>6, <1>7, <2>3 DEF F
<1>8. CASE /\ F <= Len(all) /\ Len(all) < F + E
           /\ r.frames = <<offer>> /\ r.link.rx = From(all, F)
  <2>1. F \in 0 .. Len(all)
    BY <1>1, <1>5, <1>8
  <2>2. next = From(Coming, F)
    BY <1>0, <1>8, <2>1
  <2>3. From(Coming, F) = SubSeq(Encoded("enter"), 1, n - F)
    <3>1. n \in Len(Encoded(offer)) .. Len(Encoded(offer)) + Len(Encoded("enter"))
      BY <1>0, <1>1, <1>2, <1>3, <1>8
    <3>2. Coming = SubSeq(Encoded(offer) \o Encoded("enter"), 1, n)
      BY <1>2 DEF Convo
    <3>3. Encoded(offer) \in Seq(Bytes) /\ Encoded("enter") \in Seq(Bytes) /\ Len(Encoded(offer)) = F
      BY <1>1
    <3>4. From(SubSeq(Encoded(offer) \o Encoded("enter"), 1, n), Len(Encoded(offer)))
            = SubSeq(Encoded("enter"), 1, n - Len(Encoded(offer)))
      BY ONLY <3>1, <3>3, CutJoin
    <3> QED
      BY <3>2, <3>3, <3>4
  <2>4. Len(r.link.rx) < E
    <3>1. Len(From(all, F)) = Len(all) - F
      <4>1. all \in Seq(Bytes)
        BY <1>0
      <4> QED
        BY ONLY <2>1, <4>1, FromIs
    <3> QED
      BY <1>1, <1>5, <1>8, <3>1
  <2>5. F <= n
    BY <1>0, <1>1, <1>2, <1>3, <1>8
  <2> QED
    BY <1>6, <1>8, <2>2, <2>3, <2>4, <2>5 DEF F, E
<1>9. CASE Len(all) = F + E /\ r.frames = <<offer, "enter">> /\ r.link.rx = <<>>
  <2>1. n = F + E /\ Len(all) \in 0 .. Len(all) /\ Len(Coming) = Len(all)
    BY <1>0, <1>2, <1>3, <1>5, <1>9
  <2>2. From(all, Len(all)) = <<>> /\ From(Coming, Len(all)) = <<>>
    <3>1. all \in Seq(Bytes) /\ Coming \in Seq(Bytes) /\ Len(all) \in 0 .. Len(all) /\ Len(Coming) = Len(all)
      BY <1>0, <2>1
    <3> QED
      BY ONLY <3>1, FromIs
  <2>3. next = <<>>
    BY <1>0, <1>9, <2>1, <2>2
  <2> QED
    BY <1>1, <1>6, <1>9, <2>1, <2>3
<1> QED
  BY <1>6, <1>7, <1>8, <1>9

LEMMA ToEnterPoll ==
  ASSUME WireTyped, NEW n \in Nat, ToEnter(n), NEW packet \in Packets, NEW r \in Poll(link, packet)
  PROVE  LET next == r.link.rx \o Rest(packet) IN
         /\ r.link.linked
         /\ \/ r.frames = <<>> /\ next = SubSeq(Encoded("enter"), 1, n) /\ Len(r.link.rx) < Length["enter"]
            \/ r.frames = <<"enter">> /\ r.link.rx = <<>> /\ next = <<>> /\ n = Length["enter"]
<1> DEFINE all == link.rx \o packet
           next == r.link.rx \o Rest(packet)
           E == Length["enter"]
<1>0. /\ all \in Seq(Bytes) /\ Coming \in Seq(Bytes)
      /\ Len(all) \in 1 .. Len(Coming)
      /\ \A i \in 1 .. Len(all) : all[i] = Coming[i]
      /\ \A k \in 0 .. Len(all) : From(all, k) \o Rest(packet) = From(Coming, k)
  BY PacketAhead
<1>1. "enter" \in Frames /\ E \in Nat \ {0} /\ E <= FrameLimit
  BY UpgradeAssumption, FramesAssumption
<1>2. /\ Encoded("enter") \in Seq(Bytes) /\ Len(Encoded("enter")) = E
      /\ \A i \in 1 .. E : Encoded("enter")[i] = <<"enter", i>>
  BY <1>1, EncodedIs
<1>3. r \in Drained(all) /\ n <= E /\ Coming = SubSeq(Encoded("enter"), 1, n) /\ n \in 0 .. E
  BY <1>1 DEF Poll, ToEnter
<1>4. Len(Coming) = n /\ \A i \in 1 .. n : Coming[i] = Encoded("enter")[i]
  BY <1>2, <1>3, PrefixIs
<1> HIDE DEF all, E
<1>n. Len(all) \in Nat /\ Len(all) <= n
  BY <1>0, <1>3, <1>4
<1>5. ASSUME NEW i \in 1 .. Len(all) PROVE all[i] = <<"enter", i>>
  <2>1. i \in 1 .. n /\ i \in 1 .. E
    BY <1>1, <1>3, <1>n
  <2> QED
    BY <1>0, <1>2, <1>4, <2>1
<1>6. Len(all) <= E /\ Len(all) \in Nat
  BY <1>0, <1>1, <1>3, <1>4
<1>7. /\ r.link.linked
      /\ \/ Len(all) < E /\ r.frames = <<>> /\ r.link.rx = all
         \/ Len(all) = E /\ r.frames = <<"enter">> /\ r.link.rx = <<>>
  BY <1>0, <1>1, <1>3, <1>5, <1>6, OneDrained DEF E
<1>8. CASE Len(all) < E /\ r.frames = <<>> /\ r.link.rx = all
  <2>1. 0 \in 0 .. Len(all)
    BY <1>6
  <2>2. From(all, 0) = all /\ From(Coming, 0) = Coming
    <3>1. all \in Seq(Bytes) /\ Coming \in Seq(Bytes)
      BY <1>0
    <3> QED
      BY ONLY <3>1, FromNone
  <2>3. next = Coming
    BY <1>0, <1>8, <2>1, <2>2
  <2> QED
    BY <1>3, <1>7, <1>8, <2>3 DEF E
<1>9. CASE Len(all) = E /\ r.frames = <<"enter">> /\ r.link.rx = <<>>
  <2>1. n = E /\ Len(all) \in 0 .. Len(all) /\ Len(Coming) = Len(all)
    BY <1>0, <1>3, <1>4, <1>6, <1>9
  <2>2. From(all, Len(all)) = <<>> /\ From(Coming, Len(all)) = <<>>
    <3>1. all \in Seq(Bytes) /\ Coming \in Seq(Bytes) /\ Len(all) \in 0 .. Len(all) /\ Len(Coming) = Len(all)
      BY <1>0, <2>1
    <3> QED
      BY ONLY <3>1, FromIs
  <2>3. next = <<>>
    BY <1>0, <1>9, <2>1, <2>2
  <2> QED
    BY <1>7, <1>9, <2>1, <2>3 DEF E
<1> QED
  BY <1>7, <1>8, <1>9

-------------------------------------------------------------------------------
(* What the stager makes of frames and bytes.                                *)
LEMMA DivMono ==
  ASSUME NEW a \in Nat, NEW b \in Nat, NEW c \in Nat \ {0}, a <= b
  PROVE  a \div c <= b \div c /\ a \div c \in Nat /\ b \div c \in Nat
OBVIOUS

LEMMA DivMore ==
  ASSUME NEW a \in Nat, NEW c \in Nat \ {0}
  PROVE  (a + c) \div c = a \div c + 1
OBVIOUS

LEMMA ChunkIs == Chunk \in Nat \ {0} /\ HeaderByte \in Nat \ {0} /\ HeaderByte <= MinBody /\ MinBody \in Nat
BY UpgradeAssumption

\* A chunk that is not whole is one more.
LEMMA ChunksAre ==
  ASSUME NEW n \in Nat
  PROVE  /\ Chunks(n) \in Nat /\ Chunks(0) = 0 /\ (n > 0 => Chunks(n) > 0)
         /\ \A m \in Nat : m < n => m \div Chunk < Chunks(n)
<1>1. Chunk \in Nat \ {0}
  BY ChunkIs
<1> DEFINE c == Chunk
<1> HIDE DEF c
<1>2. c \in Nat \ {0} /\ n + c - 1 \in Nat /\ 0 + c - 1 = c - 1 /\ c - 1 \in Nat
  BY <1>1 DEF c
<1>3. (n + c - 1) \div c \in Nat
  BY <1>2, DivMono
<1>4. (c - 1) \div c = 0
  BY <1>2
<1>5. ASSUME NEW m \in Nat, m < n PROVE m \div c < (n + c - 1) \div c
  <2>1. m + c \in Nat /\ m + c <= n + c - 1
    BY <1>2, <1>5
  <2>2. (m + c) \div c <= (n + c - 1) \div c
    BY <1>2, <2>1, DivMono
  <2>3. (m + c) \div c = m \div c + 1
    BY <1>2, DivMore
  <2>4. m \div c \in Nat
    BY <1>2, DivMono
  <2> QED
    BY <1>3, <2>2, <2>3, <2>4
<1>6. n > 0 => (n + c - 1) \div c > 0
  <2>1. SUFFICES ASSUME n > 0 PROVE (n + c - 1) \div c > 0
    OBVIOUS
  <2>2. 0 \div c < (n + c - 1) \div c
    BY <1>5, <2>1
  <2>3. 0 \div c \in Nat
    BY <1>2, DivMono
  <2> QED
    BY <1>3, <2>2, <2>3
<1>7. Chunks(n) = (n + c - 1) \div c /\ Chunks(0) = (c - 1) \div c
  BY <1>1 DEF Chunks, c
<1> QED
  BY <1>3, <1>4, <1>5, <1>6, <1>7 DEF c

AdmittingAt(g, st, frames, i) ==
  IF i = 0 THEN {st} ELSE UNION {Admit(s, frames[i]) : s \in g[i - 1]}
Admitting(g, st, frames) == g = [i \in 0 .. Len(frames) |-> AdmittingAt(g, st, frames, i)]

LEMMA AdmittingExists ==
  ASSUME NEW st, NEW frames, Len(frames) \in Nat
  PROVE  \E g : Admitting(g, st, frames)
<1> DEFINE L == Len(frames)
           Up(h, n) == \A i \in 0 .. n : h[i] = AdmittingAt(h, st, frames, i)
           T == {n \in 0 .. L : \E h : Up(h, n)}
<1>0. L \in Nat
  OBVIOUS
<1>1. 0 \in T
  <2> DEFINE h == [i \in 0 .. 0 |-> {st}]
  <2>1. h[0] = {st} /\ AdmittingAt(h, st, frames, 0) = {st}
    BY DEF AdmittingAt
  <2> HIDE DEF h
  <2>2. Up(h, 0)
    BY <2>1
  <2> HIDE DEF Up
  <2> QED
    BY <1>0, <2>2
<1>2. ASSUME NEW n \in 0 .. L - 1, n \in T PROVE n + 1 \in T
  <2>1. PICK h : Up(h, n)
    BY <1>2
  <2> DEFINE v == UNION {Admit(s, frames[n + 1]) : s \in h[n]}
             k == [i \in 0 .. n + 1 |-> IF i = n + 1 THEN v ELSE h[i]]
  <2> HIDE DEF v
  <2>2. k[n + 1] = v /\ \A i \in 0 .. n : k[i] = h[i]
    OBVIOUS
  <2> HIDE DEF k
  <2>3. AdmittingAt(k, st, frames, n + 1) = v
    <3>1. (n + 1) - 1 = n /\ n + 1 # 0 /\ k[n] = h[n]
      BY <2>2
    <3> QED
      BY <3>1 DEF AdmittingAt, v
  <2>4. ASSUME NEW i \in 0 .. n PROVE k[i] = AdmittingAt(k, st, frames, i)
    <3>1. CASE i = 0
      BY <2>1, <2>2, <3>1 DEF AdmittingAt
    <3>2. CASE i # 0
      <4>1. i - 1 \in 0 .. n
        BY <3>2
      <4>2. k[i - 1] = h[i - 1] /\ k[i] = h[i]
        BY <2>2, <4>1
      <4>3. AdmittingAt(k, st, frames, i) = AdmittingAt(h, st, frames, i)
        BY <3>2, <4>2 DEF AdmittingAt
      <4> QED
        BY <2>1, <4>2, <4>3
    <3> QED
      BY <3>1, <3>2
  <2>5. \A i \in 0 .. n + 1 : i \in 0 .. n \/ i = n + 1
    OBVIOUS
  <2>6. Up(k, n + 1)
    BY <2>2, <2>3, <2>4, <2>5
  <2>7. n + 1 \in 0 .. L
    BY <1>0
  <2> HIDE DEF Up
  <2> QED
    BY <2>6, <2>7
<1>3. L \in T
  <2> HIDE DEF T, L
  <2>1. 0 .. L \subseteq T
    BY <1>0, <1>1, <1>2, UpTo
  <2> QED
    BY <1>0, <2>1
<1>4. PICK h : Up(h, L)
  BY <1>3
<1> DEFINE g == [i \in 0 .. L |-> h[i]]
<1>5. \A i \in 0 .. L : g[i] = h[i]
  OBVIOUS
<1>6. g = [i \in 0 .. L |-> g[i]] /\ DOMAIN g = 0 .. L
  OBVIOUS
<1> HIDE DEF g
<1>7. ASSUME NEW i \in 0 .. L PROVE g[i] = AdmittingAt(g, st, frames, i)
  <2>1. CASE i = 0
    BY <1>4, <1>5, <2>1 DEF AdmittingAt
  <2>2. CASE i # 0
    <3>1. i - 1 \in 0 .. L
      BY <2>2
    <3>2. AdmittingAt(g, st, frames, i) = AdmittingAt(h, st, frames, i)
      BY <1>5, <2>2, <3>1 DEF AdmittingAt
    <3> QED
      BY <1>4, <1>5, <3>2
  <2> QED
    BY <2>1, <2>2
<1>8. Admitting(g, st, frames)
  BY <1>6, <1>7 DEF Admitting
<1> QED
  BY <1>8

AdmittedBy(states, f) == UNION {Admit(s, f) : s \in states}

AdmittedStep(g, st, frames) ==
  /\ Admitted(st, frames) = g[Len(frames)] /\ g[0] = {st}
  /\ \A i \in 1 .. Len(frames) : g[i] = AdmittedBy(g[i - 1], frames[i])

LEMMA AdmittedIs ==
  ASSUME NEW st, NEW frames, Len(frames) \in Nat
  PROVE  \E g : AdmittedStep(g, st, frames)
<1> DEFINE c == CHOOSE g : g = [i \in 0 .. Len(frames) |->
                  IF i = 0 THEN {st} ELSE UNION {Admit(s, frames[i]) : s \in g[i - 1]}]
<1>1. Admitted(st, frames) = c[Len(frames)]
  BY DEF Admitted
<1>2. Admitting(c, st, frames)
  <2>1. c = CHOOSE g : Admitting(g, st, frames)
    BY Zenon DEF Admitting, AdmittingAt
  <2>2. \E g : Admitting(g, st, frames)
    BY AdmittingExists
  <2> QED
    BY <2>1, <2>2, Zenon
<1> HIDE DEF c
<1>3. \A i \in 0 .. Len(frames) : c[i] = AdmittingAt(c, st, frames, i)
  BY <1>2 DEF Admitting
<1>4. c[0] = {st}
  <2>1. 0 \in 0 .. Len(frames)
    OBVIOUS
  <2> QED
    BY <1>3, <2>1 DEF AdmittingAt
<1>5. ASSUME NEW i \in 1 .. Len(frames)
      PROVE  c[i] = AdmittedBy(c[i - 1], frames[i])
  <2>1. i \in 0 .. Len(frames) /\ i # 0
    OBVIOUS
  <2> QED
    BY <1>3, <2>1 DEF AdmittingAt, AdmittedBy
<1> QED
  BY <1>1, <1>4, <1>5 DEF AdmittedStep

LEMMA MagicAdmitsNothing == \A st : Admit(st, "magic") = {st}
<1>1. "magic" \notin DOMAIN Offers /\ "magic" # "enter" /\ "magic" # "legacy"
  BY UpgradeAssumption
<1> QED
  BY <1>1 DEF Admit, OfferFrames

LEMMA AdmitsNothing ==
  ASSUME NEW st, NEW frames, Len(frames) \in Nat, \A i \in 1 .. Len(frames) : frames[i] = "magic"
  PROVE  Admitted(st, frames) = {st}
<1>0. PICK g : AdmittedStep(g, st, frames)
  BY AdmittedIs
<1>1. /\ Admitted(st, frames) = g[Len(frames)] /\ g[0] = {st}
      /\ \A i \in 1 .. Len(frames) : g[i] = AdmittedBy(g[i - 1], frames[i])
  BY <1>0 DEF AdmittedStep
<1> DEFINE L == Len(frames)
           T == {n \in 0 .. L : g[n] = {st}}
<1>2. 0 \in T
  BY <1>1
<1>3. ASSUME NEW n \in 0 .. L - 1, n \in T PROVE n + 1 \in T
  <2>1. n + 1 \in 1 .. L /\ (n + 1) - 1 = n /\ n + 1 \in 0 .. L
    OBVIOUS
  <2>2. g[n + 1] = AdmittedBy({st}, "magic")
    BY <1>1, <1>3, <2>1
  <2>3. g[n + 1] = {st}
    BY <2>2, MagicAdmitsNothing DEF AdmittedBy
  <2> QED
    BY <2>1, <2>3
<1>4. 0 .. L \subseteq T
  <2>1. L \in Nat
    OBVIOUS
  <2> HIDE DEF T, L
  <2> QED
    BY <1>2, <1>3, <2>1, UpTo
<1> QED
  BY <1>1, <1>4

LEMMA AdmitsOne ==
  ASSUME NEW st, NEW f
  PROVE  Admitted(st, <<f>>) = Admit(st, f)
<1>1. Len(<<f>>) = 1 /\ <<f>>[1] = f
  OBVIOUS
<1>p. PICK g : AdmittedStep(g, st, <<f>>)
  BY <1>1, AdmittedIs
<1>2. /\ Admitted(st, <<f>>) = g[1] /\ g[0] = {st}
      /\ \A i \in 1 .. 1 : g[i] = AdmittedBy(g[i - 1], <<f>>[i])
  BY <1>1, <1>p DEF AdmittedStep
<1>3. 1 \in 1 .. 1 /\ 1 - 1 = 0
  OBVIOUS
<1>4. g[1] = AdmittedBy({st}, f)
  BY <1>1, <1>2, <1>3
<1> QED
  BY <1>2, <1>4 DEF AdmittedBy

LEMMA AdmitsTwo ==
  ASSUME NEW st, NEW f, NEW h
  PROVE  Admitted(st, <<f, h>>) = UNION {Admit(s, h) : s \in Admit(st, f)}
<1>1. Len(<<f, h>>) = 2 /\ <<f, h>>[1] = f /\ <<f, h>>[2] = h
  OBVIOUS
<1>p. PICK g : AdmittedStep(g, st, <<f, h>>)
  BY <1>1, AdmittedIs
<1>2. /\ Admitted(st, <<f, h>>) = g[2] /\ g[0] = {st}
      /\ \A i \in 1 .. 2 : g[i] = AdmittedBy(g[i - 1], <<f, h>>[i])
  BY <1>1, <1>p DEF AdmittedStep
<1>3. 1 \in 1 .. 2 /\ 1 - 1 = 0 /\ 2 \in 1 .. 2 /\ 2 - 1 = 1
  OBVIOUS
<1>4. g[1] = AdmittedBy({st}, f)
  BY <1>1, <1>2, <1>3
<1>5. g[1] = Admit(st, f)
  BY <1>4 DEF AdmittedBy
<1>6. g[2] = AdmittedBy(g[1], h)
  BY <1>1, <1>2, <1>3
<1> QED
  BY <1>2, <1>5, <1>6 DEF AdmittedBy

Stager(state, size, received, expected, psram, carry) ==
  [state |-> state, size |-> size, received |-> received, expected |-> expected,
   psram |-> psram, carry |-> carry]

LEMMA StagerChanges ==
  ASSUME NEW st, OkStager(st)
  PROVE  /\ \A v : Refuse(st, v) = Stager(v, st.size, st.received, st.expected, st.psram, st.carry)
         /\ [st EXCEPT !.state = "Idle", !.psram = <<>>, !.carry = <<>>] =
              Stager("Idle", st.size, st.received, st.expected, <<>>, <<>>)
         /\ \A v, n : [st EXCEPT !.state = v, !.received = n] =
              Stager(v, st.size, n, st.expected, st.psram, st.carry)
<1>1. st = Stager(st.state, st.size, st.received, st.expected, st.psram, st.carry)
  BY DEF OkStager, Stager
<1>2. ASSUME NEW v
      PROVE  [st EXCEPT !.state = v] =
               Stager(v, st.size, st.received, st.expected, st.psram, st.carry)
  <2> DEFINE s1 == [st EXCEPT !.state = v]
  <2>0. [st EXCEPT !.state = v] = s1
    OBVIOUS
  <2>1. st \in [state : {st.state}, size : {st.size}, received : {st.received},
               expected : {st.expected}, psram : {st.psram}, carry : {st.carry}]
    BY ONLY <1>1 DEF Stager
  <2>2. s1 = Stager(v, st.size, st.received, st.expected, st.psram, st.carry)
    BY ONLY <2>1 DEF Stager
  <2> HIDE DEF s1
  <2> QED
    BY <2>0, <2>2 DEF s1
<1>3. \A v : Refuse(st, v) = Stager(v, st.size, st.received, st.expected, st.psram, st.carry)
  BY <1>2 DEF Refuse
<1>4. [st EXCEPT !.state = "Idle", !.psram = <<>>, !.carry = <<>>] =
               Stager("Idle", st.size, st.received, st.expected, <<>>, <<>>)
  <2> DEFINE s1 == [st EXCEPT !.state = "Idle"]
             s2 == [s1 EXCEPT !.psram = <<>>]
             s3 == [s2 EXCEPT !.carry = <<>>]
  <2>0. [st EXCEPT !.state = "Idle", !.psram = <<>>, !.carry = <<>>] = s3
    OBVIOUS
  <2>1. st \in [state : {st.state}, size : {st.size}, received : {st.received},
               expected : {st.expected}, psram : {st.psram}, carry : {st.carry}]
    BY ONLY <1>1 DEF Stager
  <2>2. s1 = Stager("Idle", st.size, st.received, st.expected, st.psram, st.carry)
    BY ONLY <2>1 DEF Stager
  <2> HIDE DEF s1
  <2>3. s1 \in [state : {"Idle"}, size : {st.size}, received : {st.received},
               expected : {st.expected}, psram : {st.psram}, carry : {st.carry}]
    BY ONLY <2>2 DEF Stager
  <2>4. s2 = Stager("Idle", st.size, st.received, st.expected, <<>>, st.carry)
    BY ONLY <2>3 DEF Stager
  <2> HIDE DEF s2
  <2>5. s2 \in [state : {"Idle"}, size : {st.size}, received : {st.received},
               expected : {st.expected}, psram : {<<>>}, carry : {st.carry}]
    BY ONLY <2>4 DEF Stager
  <2>6. s3 = Stager("Idle", st.size, st.received, st.expected, <<>>, <<>>)
    BY ONLY <2>5 DEF Stager
  <2> HIDE DEF s3
  <2> QED
    BY <2>0, <2>6 DEF s3
<1>5. ASSUME NEW v, NEW n
      PROVE  [st EXCEPT !.state = v, !.received = n] =
               Stager(v, st.size, n, st.expected, st.psram, st.carry)
  <2> DEFINE s1 == [st EXCEPT !.state = v]
             s2 == [s1 EXCEPT !.received = n]
  <2>0. [st EXCEPT !.state = v, !.received = n] = s2
    OBVIOUS
  <2>1. st \in [state : {st.state}, size : {st.size}, received : {st.received},
               expected : {st.expected}, psram : {st.psram}, carry : {st.carry}]
    BY ONLY <1>1 DEF Stager
  <2>2. s1 = Stager(v, st.size, st.received, st.expected, st.psram, st.carry)
    BY ONLY <2>1 DEF Stager
  <2> HIDE DEF s1
  <2>3. s1 \in [state : {v}, size : {st.size}, received : {st.received},
               expected : {st.expected}, psram : {st.psram}, carry : {st.carry}]
    BY ONLY <2>2 DEF Stager
  <2>4. s2 = Stager(v, st.size, n, st.expected, st.psram, st.carry)
    BY ONLY <2>3 DEF Stager
  <2> HIDE DEF s2
  <2> QED
    BY <2>0, <2>4 DEF s2
<1> QED
  BY <1>3, <1>4, <1>5

LEMMA StagerPrepares ==
  ASSUME NEW st, OkStager(st), NEW v, NEW n, NEW e
  PROVE  [st EXCEPT !.state = v, !.size = n, !.expected = e] =
           Stager(v, n, st.received, e, st.psram, st.carry)
<1>s. st = Stager(st.state, st.size, st.received, st.expected, st.psram, st.carry)
  BY DEF OkStager, Stager
<1> DEFINE s1 == [st EXCEPT !.state = v]
           s2 == [s1 EXCEPT !.size = n]
           s3 == [s2 EXCEPT !.expected = e]
<1>0. [st EXCEPT !.state = v, !.size = n, !.expected = e] = s3
  OBVIOUS
<1>1. st \in [state : {st.state}, size : {st.size}, received : {st.received},
             expected : {st.expected}, psram : {st.psram}, carry : {st.carry}]
  BY ONLY <1>s DEF Stager
<1>2. s1 = Stager(v, st.size, st.received, st.expected, st.psram, st.carry)
  BY ONLY <1>1 DEF Stager
<1> HIDE DEF s1
<1>3. s1 \in [state : {v}, size : {st.size}, received : {st.received},
             expected : {st.expected}, psram : {st.psram}, carry : {st.carry}]
  BY ONLY <1>2 DEF Stager
<1>4. s2 = Stager(v, n, st.received, st.expected, st.psram, st.carry)
  BY ONLY <1>3 DEF Stager
<1> HIDE DEF s2
<1>5. s2 \in [state : {v}, size : {n}, received : {st.received},
             expected : {st.expected}, psram : {st.psram}, carry : {st.carry}]
  BY ONLY <1>4 DEF Stager
<1>6. s3 = Stager(v, n, st.received, e, st.psram, st.carry)
  BY ONLY <1>5 DEF Stager
<1> HIDE DEF s3
<1> QED
  BY <1>0, <1>6 DEF s3

LEMMA StagerIs ==
  ASSUME NEW v, NEW n \in Nat, NEW k \in Nat, NEW e, NEW a, NEW b,
         v \in {"Prepared", "Streaming"} => HeaderByte <= n, v = "Streaming" => k < n
  PROVE  LET q == Stager(v, n, k, e, a, b) IN
         /\ OkStager(q) /\ q.state = v /\ q.size = n /\ q.received = k
         /\ q.expected = e /\ q.psram = a /\ q.carry = b
BY DEF Stager, OkStager

LEMMA AdmitsOffer ==
  ASSUME NEW st, OkStager(st), NEW f \in DOMAIN Offers, NEW q \in Admit(st, f)
  PROVE  /\ OkStager(q) /\ q.state \notin {"Streaming", "Staged"}
         /\ q.state = "Prepared" => q.size = Offers[f].size /\ q.expected = Offers[f].digest
<1> DEFINE blank == [st EXCEPT !.state = "Idle", !.psram = <<>>, !.carry = <<>>]
           size == Offers[f].size
<1>1. /\ st.size \in Nat /\ st.received \in Nat /\ size \in Nat /\ f # "enter"
      /\ HeaderByte \in Nat /\ MinBody \in Nat /\ HeaderByte <= MinBody
  BY UpgradeAssumption, ChunkIs DEF OkStager
<1>2. blank = Stager("Idle", st.size, st.received, st.expected, <<>>, <<>>)
  BY StagerChanges
<1> HIDE DEF blank
<1>3. /\ OkStager(blank) /\ blank.size = st.size /\ blank.received = st.received
      /\ blank.size \in Nat /\ blank.received \in Nat
  BY <1>1, <1>2, StagerIs
<1>4. ASSUME NEW why, why \notin {"Prepared", "Streaming", "Staged"}, NEW s, OkStager(s), q = Refuse(s, why)
      PROVE  OkStager(q) /\ q.state = why
  <2>1. q = Stager(why, s.size, s.received, s.expected, s.psram, s.carry)
    BY <1>4, StagerChanges
  <2>2. s.size \in Nat /\ s.received \in Nat
    BY <1>4 DEF OkStager
  <2> QED
    BY <1>4, <2>1, <2>2, StagerIs
<1>5. CASE f = "legacy"
  <2>1. q = Refuse(st, "Legacy")
    <3>1. f \notin OfferFrames /\ f # "enter"
      BY <1>1, <1>5 DEF OfferFrames
    <3> QED
      BY <1>5, <3>1 DEF Admit
  <2> QED
    BY <1>4, <2>1
<1>6. CASE f # "legacy"
  <2>1. q \in IF BadSize(size) # "none" THEN {Refuse(blank, BadSize(size))}
              ELSE {Refuse(blank, "Selftest"),
                    [blank EXCEPT !.state = "Prepared", !.size = size, !.expected = Offers[f].digest]}
    BY <1>1, <1>6 DEF Admit, OfferFrames, blank
  <2>2. BadSize(size) \in {"Unaligned", "TooSmall", "TooLarge", "none"}
    BY DEF BadSize
  <2>3. CASE BadSize(size) # "none" /\ q = Refuse(blank, BadSize(size))
    <3>1. BadSize(size) \notin {"Prepared", "Streaming", "Staged"}
      BY <2>2, <2>3
    <3> QED
      BY <1>3, <1>4, <2>3, <3>1
  <2>4. CASE q = Refuse(blank, "Selftest")
    BY <1>3, <1>4, <2>4
  <2>5. CASE BadSize(size) = "none" /\
             q = [blank EXCEPT !.state = "Prepared", !.size = size, !.expected = Offers[f].digest]
    <3>1. q = Stager("Prepared", size, blank.received, Offers[f].digest, blank.psram, blank.carry)
      <4>1. [blank EXCEPT !.state = "Prepared", !.size = size, !.expected = Offers[f].digest] =
              Stager("Prepared", size, blank.received, Offers[f].digest, blank.psram, blank.carry)
        <5>1. OkStager(blank)
          BY <1>3
        <5> DEFINE digest == Offers[f].digest
        <5> HIDE DEF size, digest
        <5>2. [blank EXCEPT !.state = "Prepared", !.size = size, !.expected = digest] =
                Stager("Prepared", size, blank.received, digest, blank.psram, blank.carry)
          BY ONLY <5>1, StagerPrepares
        <5> QED
          BY ONLY <5>2 DEF digest
      <4> QED
        BY <2>5, <4>1
    <3>2. HeaderByte <= size
      <4>1. ~(size < MinBody)
        BY <2>5 DEF BadSize
      <4> QED
        BY <1>1, <4>1
    <3> QED
      BY <1>1, <1>3, <3>1, <3>2, StagerIs
  <2> QED
    BY <2>1, <2>3, <2>4, <2>5
<1> QED
  BY <1>5, <1>6

LEMMA AdmitsEnter ==
  ASSUME NEW st, OkStager(st), NEW q \in Admit(st, "enter")
  PROVE  /\ OkStager(q) /\ q.size = st.size /\ q.expected = st.expected
         /\ \/ st.state = "Prepared" /\ q.state = "Streaming" /\ q.received = 0
            \/ st.state # "Prepared" /\ q.state = "OutOfOrder"
<1>1. /\ st.size \in Nat /\ st.received \in Nat /\ HeaderByte \in Nat \ {0}
      /\ (st.state = "Prepared" => HeaderByte <= st.size)
  BY ChunkIs DEF OkStager
<1>2. q = IF st.state = "Prepared" THEN [st EXCEPT !.state = "Streaming", !.received = 0]
          ELSE Refuse(st, "OutOfOrder")
  <2>1. "enter" \notin OfferFrames /\ "enter" # "legacy"
    BY UpgradeAssumption DEF OfferFrames
  <2> QED
    BY <2>1 DEF Admit
<1>3. CASE st.state = "Prepared"
  <2>1. q = Stager("Streaming", st.size, 0, st.expected, st.psram, st.carry)
    BY <1>2, <1>3, StagerChanges
  <2>2. 0 < st.size /\ HeaderByte <= st.size /\ 0 \in Nat
    BY <1>1, <1>3
  <2> QED
    BY <1>1, <1>3, <2>1, <2>2, StagerIs
<1>4. CASE st.state # "Prepared"
  <2>1. q = Stager("OutOfOrder", st.size, st.received, st.expected, st.psram, st.carry)
    BY <1>2, <1>4, StagerChanges
  <2> QED
    BY <1>1, <1>4, <2>1, StagerIs
<1> QED
  BY <1>3, <1>4

\* An image staged is the one announced, of the length its header declares.
LEMMA VerdictIs ==
  ASSUME NEW st, OkStager(st), HeaderByte <= st.size, st.expected \in DOMAIN Declared
  PROVE  /\ Verdict(st) \in {"Staged", "LengthDisagreement", "Digest"}
         /\ Verdict(st) = "Staged" => /\ st.psram = Image(st.expected, st.size)
                                      /\ Declared[st.expected] = st.size
<1> DEFINE head == st.psram[HeaderByte]
<1>1. Verdict(st) \in {"Staged", "LengthDisagreement", "Digest"}
  BY DEF Verdict
<1>2. ASSUME Verdict(st) = "Staged"
      PROVE  st.psram = Image(st.expected, st.size) /\ Declared[st.expected] = st.size
  <2>1. st.psram = Image(st.expected, st.size)
    BY <1>2 DEF Verdict
  <2>2. ~(head[1] \in DOMAIN Declared /\ head[2] = HeaderByte /\ Declared[head[1]] # st.size)
    BY <1>2 DEF Verdict
  <2>3. HeaderByte \in 1 .. st.size
    BY ChunkIs DEF OkStager
  <2>4. head = <<st.expected, HeaderByte>>
    BY <2>1, <2>3 DEF Image
  <2>5. head[1] = st.expected /\ head[2] = HeaderByte
    BY <2>4
  <2> QED
    BY <2>1, <2>2, <2>5
<1> QED
  BY <1>1, <1>2

LEMMA FedIs ==
  ASSUME NEW st, OkStager(st), NEW bytes
  PROVE  \E a, b : Fed(st, bytes) = Stager(st.state, st.size, st.received + Len(bytes), st.expected, a, b)
<1> DEFINE room == WriteAlign - Len(st.carry)
           take == IF st.carry = <<>> THEN 0 ELSE IF room < Len(bytes) THEN room ELSE Len(bytes)
           topped == st.carry \o SubSeq(bytes, 1, take)
           put == take > 0 /\ take = room
           rest == From(bytes, take)
           whole == Len(rest) - (Len(rest) % WriteAlign)
           x == IF put THEN topped ELSE <<>>
           y == SubSeq(rest, 1, whole)
           a == st.psram \o x \o y
           b == IF rest = <<>> THEN IF put THEN <<>> ELSE topped ELSE From(rest, whole)
           n == st.received + Len(bytes)
<1>1. Fed(st, bytes) = [st EXCEPT !.psram = a, !.carry = b, !.received = n]
  BY Zenon DEF Fed
<1> HIDE DEF a, b, n
<1>2. [st EXCEPT !.psram = a, !.carry = b, !.received = n] = Stager(st.state, st.size, n, st.expected, a, b)
  <2>s. st = Stager(st.state, st.size, st.received, st.expected, st.psram, st.carry)
    BY DEF OkStager, Stager
  <2> DEFINE s1 == [st EXCEPT !.psram = a]
             s2 == [s1 EXCEPT !.carry = b]
             s3 == [s2 EXCEPT !.received = n]
  <2>0. [st EXCEPT !.psram = a, !.carry = b, !.received = n] = s3
    OBVIOUS
  <2>1. st \in [state : {st.state}, size : {st.size}, received : {st.received},
               expected : {st.expected}, psram : {st.psram}, carry : {st.carry}]
    BY ONLY <2>s DEF Stager
  <2>2. s1 = Stager(st.state, st.size, st.received, st.expected, a, st.carry)
    BY ONLY <2>1 DEF Stager
  <2> HIDE DEF s1
  <2>3. s1 \in [state : {st.state}, size : {st.size}, received : {st.received},
               expected : {st.expected}, psram : {a}, carry : {st.carry}]
    BY ONLY <2>2 DEF Stager
  <2>4. s2 = Stager(st.state, st.size, st.received, st.expected, a, b)
    BY ONLY <2>3 DEF Stager
  <2> HIDE DEF s2
  <2>5. s2 \in [state : {st.state}, size : {st.size}, received : {st.received},
               expected : {st.expected}, psram : {a}, carry : {b}]
    BY ONLY <2>4 DEF Stager
  <2>6. s3 = Stager(st.state, st.size, n, st.expected, a, b)
    BY ONLY <2>5 DEF Stager
  <2> HIDE DEF s3
  <2> QED
    BY <2>0, <2>6 DEF s3
<1> QED
  BY <1>1, <1>2 DEF n

LEMMA FeedWith ==
  ASSUME NEW st, NEW bytes, NEW next, next = Fed(st, bytes)
  PROVE  Feed(st, bytes) =
           IF next.received > st.size THEN [stager |-> Refuse(st, "ExtraBytes"), acks |-> 0]
           ELSE IF next.received < st.size
           THEN [stager |-> next, acks |-> AcksAt(st.size, next.received) - AcksAt(st.size, st.received)]
           ELSE [stager |-> [next EXCEPT !.state = Verdict(next)],
                 acks |-> IF Verdict(next) = "Staged"
                          THEN AcksAt(st.size, next.received) - AcksAt(st.size, st.received) ELSE 0]
BY DEF Feed

LEMMA FeedIs ==
  ASSUME NEW st, OkStager(st), st.state = "Streaming", NEW bytes \in Seq(Bytes)
  PROVE  LET fed == Feed(st, bytes)
             q == fed.stager
             n == st.received + Len(bytes)
         IN  /\ OkStager(q) /\ q.size = st.size /\ q.expected = st.expected
             /\ n <= st.size => q.received = n
             /\ \/ n > st.size /\ q.state = "ExtraBytes" /\ fed.acks = 0
                \/ /\ n < st.size /\ q.state = "Streaming"
                   /\ fed.acks = n \div Chunk - st.received \div Chunk
                \/ /\ n = st.size /\ q.state = "Staged"
                   /\ fed.acks = Chunks(st.size) - st.received \div Chunk
                   /\ st.expected \in DOMAIN Declared =>
                        q.psram = Image(q.expected, q.size) /\ Declared[q.expected] = q.size
                \/ /\ n = st.size /\ q.state \in {"LengthDisagreement", "Digest"} /\ fed.acks = 0
<1> DEFINE fed == Feed(st, bytes)
           next == Fed(st, bytes)
           n == st.received + Len(bytes)
<1>1. /\ st.size \in Nat /\ st.received \in Nat /\ n \in Nat /\ st.received < st.size
      /\ HeaderByte <= st.size /\ HeaderByte \in Nat
  BY ChunkIs DEF OkStager
<1> HIDE DEF n
<1>2. PICK a, b : next = Stager("Streaming", st.size, n, st.expected, a, b)
  BY FedIs DEF n
<1>3. /\ next.state = "Streaming" /\ next.size = st.size /\ next.received = n
      /\ next.expected = st.expected /\ next.psram = a /\ next.carry = b
  BY <1>2 DEF Stager
<1>4. \A v : [next EXCEPT !.state = v] = Stager(v, st.size, n, st.expected, a, b)
  <2>1. next \in [state : {"Streaming"}, size : {st.size}, received : {n},
                  expected : {st.expected}, psram : {a}, carry : {b}]
    BY <1>2 DEF Stager
  <2> QED
    BY <2>1 DEF Stager
<1>5. AcksAt(st.size, st.received) = st.received \div Chunk
  BY <1>1 DEF AcksAt
<1>6. fed = IF n > st.size THEN [stager |-> Refuse(st, "ExtraBytes"), acks |-> 0]
            ELSE IF n < st.size
            THEN [stager |-> next, acks |-> AcksAt(st.size, n) - AcksAt(st.size, st.received)]
            ELSE [stager |-> [next EXCEPT !.state = Verdict(next)],
                  acks |-> IF Verdict(next) = "Staged"
                           THEN AcksAt(st.size, n) - AcksAt(st.size, st.received) ELSE 0]
  <2>1. fed = IF next.received > st.size THEN [stager |-> Refuse(st, "ExtraBytes"), acks |-> 0]
              ELSE IF next.received < st.size
              THEN [stager |-> next, acks |-> AcksAt(st.size, next.received) - AcksAt(st.size, st.received)]
              ELSE [stager |-> [next EXCEPT !.state = Verdict(next)],
                    acks |-> IF Verdict(next) = "Staged"
                             THEN AcksAt(st.size, next.received) - AcksAt(st.size, st.received) ELSE 0]
    BY FeedWith
  <2> HIDE DEF next, fed
  <2> QED
    BY ONLY <1>3, <2>1
<1> HIDE DEF next, fed
<1>7. CASE n > st.size
  <2>1. fed.stager = Stager("ExtraBytes", st.size, st.received, st.expected, st.psram, st.carry) /\ fed.acks = 0
    BY <1>6, <1>7, StagerChanges
  <2> QED
    BY <1>1, <1>7, <2>1, StagerIs DEF fed, n
<1>8. CASE n < st.size
  <2>1. fed.stager = next /\ fed.acks = AcksAt(st.size, n) - AcksAt(st.size, st.received)
    BY <1>1, <1>6, <1>8
  <2>2. AcksAt(st.size, n) = n \div Chunk
    BY <1>1, <1>8 DEF AcksAt
  <2> QED
    BY <1>1, <1>2, <1>5, <1>8, <2>1, <2>2, StagerIs DEF fed, n
<1>9. CASE n = st.size
  <2>1. /\ fed.stager = Stager(Verdict(next), st.size, n, st.expected, a, b)
        /\ fed.acks = IF Verdict(next) = "Staged"
                      THEN AcksAt(st.size, n) - AcksAt(st.size, st.received) ELSE 0
    BY <1>1, <1>4, <1>6, <1>9
  <2>2. AcksAt(st.size, n) = Chunks(st.size)
    BY <1>9 DEF AcksAt
  <2> DEFINE whole == Stager("Staged", st.size, n, st.expected, a, b)
  <2>3. OkStager(whole) /\ whole.size = st.size /\ whole.expected = st.expected /\ whole.psram = a
    BY <1>1, StagerIs
  <2>4. Verdict(next) = Verdict(whole)
    <3>1. whole.size = next.size /\ whole.expected = next.expected /\ whole.psram = next.psram
      BY <1>3, <2>3
    <3> HIDE DEF whole
    <3> QED
      BY <3>1 DEF Verdict
  <2>5. Verdict(next) \in {"Staged", "LengthDisagreement", "Digest"}
    BY DEF Verdict
  <2>6. st.expected \in DOMAIN Declared /\ Verdict(next) = "Staged" =>
          a = Image(st.expected, st.size) /\ Declared[st.expected] = st.size
    <3> HIDE DEF whole
    <3> QED
      BY <1>1, <2>3, <2>4, VerdictIs
  <2>7. /\ OkStager(fed.stager) /\ fed.stager.size = st.size /\ fed.stager.expected = st.expected
        /\ fed.stager.received = n /\ fed.stager.state = Verdict(next) /\ fed.stager.psram = a
    BY <1>1, <2>1, <2>5, StagerIs
  <2> QED
    BY <1>5, <1>9, <2>1, <2>2, <2>5, <2>6, <2>7 DEF fed, n
<1> QED
  BY <1>1, <1>7, <1>8, <1>9

-------------------------------------------------------------------------------
(* What becomes of murk that is cut or added to.                             *)
LEMMA NothingIsMurk == Murk(<<>>) /\ AllMagic(<<>>) /\ NoMagic(<<>>)
BY DEF Murk, AllMagic, NoMagic

LEMMA AllMagicIsMurk ==
  ASSUME NEW w, AllMagic(w)
  PROVE  Murk(w)
<1>1. ASSUME NEW i \in 1 .. Len(w), NEW f \in Frames \ {"magic"} PROVE w[i] # <<f, Length[f]>>
  BY DEF AllMagic
<1> QED
  BY <1>1 DEF AllMagic, Murk

LEMMA MurkCut ==
  ASSUME NEW w \in Seq(Bytes), NEW n \in 0 .. Len(w)
  PROVE  /\ Murk(w) => Murk(SubSeq(w, 1, n))
         /\ AllMagic(w) => AllMagic(SubSeq(w, 1, n))
         /\ NoMagic(w) => NoMagic(SubSeq(w, 1, n))
<1> DEFINE v == SubSeq(w, 1, n)
<1>1. Len(v) = n /\ \A i \in 1 .. n : v[i] = w[i] /\ i \in 1 .. Len(w)
  BY PrefixIs
<1> HIDE DEF v
<1>2. Murk(w) => Murk(v)
  BY <1>1 DEF Murk
<1>3. AllMagic(w) => AllMagic(v)
  BY <1>1 DEF AllMagic
<1>4. NoMagic(w) => NoMagic(v)
  BY <1>1 DEF NoMagic
<1> QED
  BY <1>2, <1>3, <1>4 DEF v

LEMMA MurkJoin ==
  ASSUME NEW w \in Seq(Bytes), NEW y \in Seq(Bytes), AllMagic(y)
  PROVE  /\ Murk(w) => Murk(w \o y)
         /\ AllMagic(w) => AllMagic(w \o y)
<1> DEFINE v == w \o y
<1>1. /\ Len(v) = Len(w) + Len(y) /\ Len(w) \in Nat /\ Len(y) \in Nat
      /\ \A i \in 1 .. Len(w) : v[i] = w[i]
      /\ \A i \in Len(w) + 1 .. Len(w) + Len(y) : v[i] = y[i - Len(w)]
  BY JoinIs
<1> HIDE DEF v
<1>2. ASSUME NEW i \in 1 .. Len(v) PROVE (i \in 1 .. Len(w) /\ v[i] = w[i]) \/ (i > Len(w) /\ v[i][1] = "magic")
  <2>1. CASE i <= Len(w)
    <3>1. i \in 1 .. Len(w)
      BY <1>1, <2>1
    <3>2. v[i] = w[i]
      BY <1>1, <3>1
    <3> QED
      BY <3>1, <3>2
  <2>2. CASE i > Len(w)
    <3>1. i - Len(w) \in 1 .. Len(y) /\ i \in Len(w) + 1 .. Len(w) + Len(y)
      BY <1>1, <2>2
    <3> QED
      BY <1>1, <2>2, <3>1 DEF AllMagic
  <2> QED
    BY <1>1, <2>1, <2>2
<1>3. ASSUME Murk(w) PROVE Murk(v)
  <2>1. ASSUME NEW i \in 1 .. Len(v), NEW f \in Frames \ {"magic"} PROVE v[i] # <<f, Length[f]>>
    BY <1>2, <1>3 DEF Murk
  <2>2. ASSUME NEW i \in 1 .. Len(v), NEW j \in 1 .. Len(v), i < j, v[i][1] = "magic"
        PROVE  v[j][1] = "magic"
    <3>1. CASE j > Len(w)
      BY <1>1, <1>2, <3>1
    <3>2. CASE j <= Len(w)
      <4>1. i \in 1 .. Len(w) /\ j \in 1 .. Len(w)
        BY <1>1, <2>2, <3>2
      <4> QED
        BY <1>1, <1>3, <2>2, <4>1 DEF Murk
    <3> QED
      BY <1>1, <3>1, <3>2
  <2> QED
    BY <2>1, <2>2 DEF Murk
<1>4. AllMagic(w) => AllMagic(v)
  BY <1>2 DEF AllMagic
<1> QED
  BY <1>3, <1>4 DEF v

\* Bytes of an image end no frame.
LEMMA MurkMore ==
  ASSUME NEW w \in Seq(Bytes), NEW y \in Seq(Bytes), Murk(w), NoMagic(w),
         \A i \in 1 .. Len(y) : y[i][1] \notin Frames
  PROVE  Murk(w \o y) /\ NoMagic(w \o y)
<1> DEFINE v == w \o y
<1>0. "magic" \in Frames
  BY FramesAssumption
<1>1. /\ Len(v) = Len(w) + Len(y) /\ Len(w) \in Nat /\ Len(y) \in Nat
      /\ \A i \in 1 .. Len(w) : v[i] = w[i]
      /\ \A i \in Len(w) + 1 .. Len(w) + Len(y) : v[i] = y[i - Len(w)]
  BY JoinIs
<1> HIDE DEF v
<1>2. ASSUME NEW i \in 1 .. Len(v) PROVE (i \in 1 .. Len(w) /\ v[i] = w[i]) \/ v[i][1] \notin Frames
  <2>1. CASE i <= Len(w)
    <3>1. i \in 1 .. Len(w)
      BY <1>1, <2>1
    <3>2. v[i] = w[i]
      BY <1>1, <3>1
    <3> QED
      BY <3>1, <3>2
  <2>2. CASE i > Len(w)
    <3>1. i - Len(w) \in 1 .. Len(y) /\ i \in Len(w) + 1 .. Len(w) + Len(y)
      BY <1>1, <2>2
    <3> QED
      BY <1>1, <2>2, <3>1
  <2> QED
    BY <1>1, <2>1, <2>2
<1>3. ASSUME NEW i \in 1 .. Len(v), NEW f \in Frames \ {"magic"} PROVE v[i] # <<f, Length[f]>>
  BY <1>2 DEF Murk
<1>4. NoMagic(v)
  BY <1>0, <1>2 DEF NoMagic
<1>5. Murk(v)
  BY <1>3, <1>4 DEF Murk, NoMagic
<1> QED
  BY <1>4, <1>5 DEF v

\* Murk of which a piece was taken out of the middle.
LEMMA MurkWithout ==
  ASSUME NEW x \in Seq(Bytes), NEW y \in Seq(Bytes), NEW n \in 0 .. Len(y), Murk(x \o y)
  PROVE  Murk(x \o From(y, n))
<1> DEFINE w == x \o y
           z == From(y, n)
           v == x \o z
           X == Len(x)
           Y == Len(y)
<1>1. /\ Len(w) = X + Y /\ X \in Nat /\ Y \in Nat /\ n \in Nat
      /\ \A i \in 1 .. X : w[i] = x[i]
      /\ \A i \in X + 1 .. X + Y : w[i] = y[i - X]
  BY JoinIs
<1>2. z \in Seq(Bytes) /\ Len(z) = Y - n /\ \A i \in 1 .. Y - n : z[i] = y[n + i]
  BY FromIs
<1> HIDE DEF z
<1>3. /\ Len(v) = X + Len(z)
      /\ \A i \in 1 .. X : v[i] = x[i]
      /\ \A i \in X + 1 .. X + Len(z) : v[i] = z[i - X]
  BY <1>2, JoinIs
<1>m. Murk(w)
  OBVIOUS
<1> HIDE DEF v, w, X, Y
<1> DEFINE at(i) == IF i <= X THEN i ELSE i + n
<1>4. ASSUME NEW i \in 1 .. Len(v) PROVE at(i) \in 1 .. Len(w) /\ v[i] = w[at(i)]
  <2>1. CASE i <= X
    BY <1>1, <1>2, <1>3, <2>1
  <2>2. CASE ~(i <= X)
    <3>1. /\ i \in X + 1 .. X + (Y - n) /\ i - X \in 1 .. Y - n
          /\ i + n \in X + 1 .. X + Y /\ (i + n) - X = n + (i - X) /\ at(i) = i + n
      BY <1>1, <1>2, <1>3, <2>2
    <3>2. v[i] = z[i - X] /\ z[i - X] = y[n + (i - X)] /\ w[i + n] = y[(i + n) - X]
      <4>1. i \in X + 1 .. X + Len(z)
        BY <1>2, <3>1
      <4> QED
        BY <1>1, <1>2, <1>3, <3>1, <4>1
    <3>3. i + n \in 1 .. Len(w)
      BY <1>1, <3>1
    <3> QED
      BY <3>1, <3>2, <3>3
  <2> QED
    BY <2>1, <2>2
<1>5. ASSUME NEW i \in 1 .. Len(v), NEW j \in 1 .. Len(v), i < j PROVE at(i) < at(j)
  BY <1>1, <1>5
<1> HIDE DEF at
<1>6. ASSUME NEW i \in 1 .. Len(v), NEW f \in Frames \ {"magic"} PROVE v[i] # <<f, Length[f]>>
  BY <1>4, <1>m DEF Murk
<1>7. ASSUME NEW i \in 1 .. Len(v), NEW j \in 1 .. Len(v), i < j, v[i][1] = "magic" PROVE v[j][1] = "magic"
  BY <1>4, <1>5, <1>7, <1>m DEF Murk
<1>8. Murk(v)
  BY <1>6, <1>7 DEF Murk
<1> QED
  BY <1>8 DEF v, z

LEMMA MagicIsMagic == Encoded("magic") \in Seq(Bytes) /\ AllMagic(Encoded("magic"))
<1>1. "magic" \in Frames
  BY FramesAssumption
<1> QED
  BY <1>1, EncodedIs DEF AllMagic

LEMMA EncodedHasNoMagic ==
  ASSUME NEW f \in DOMAIN Offers \cup {"enter"}
  PROVE  Encoded(f) \in Seq(Bytes) /\ NoMagic(Encoded(f)) /\ Len(Encoded(f)) > 0 /\ Encoded(f)[1] = <<f, 1>>
<1>1. f \in Frames /\ f # "magic"
  BY UpgradeAssumption
<1>2. Length[f] \in Nat \ {0}
  BY <1>1, FramesAssumption
<1> QED
  BY <1>1, <1>2, EncodedIs DEF NoMagic

LEMMA ImageIs ==
  ASSUME NEW d \in DOMAIN Declared, NEW n \in Nat, NEW k \in 0 .. n
  PROVE  LET c == From(Image(d, n), k) IN
         /\ c \in Seq(Bytes) /\ Len(c) = n - k
         /\ \A i \in 1 .. Len(c) : c[i][1] \notin Frames
         /\ NoMagic(c)
<1> DEFINE m == Image(d, n)
           c == From(m, k)
<1>1. d \notin Frames /\ d # "magic"
  BY UpgradeAssumption, FramesAssumption
<1>2. m \in Seq(Bytes) /\ Len(m) = n /\ \A i \in 1 .. n : m[i] = <<d, i>>
  <2>1. ASSUME NEW i \in 1 .. n PROVE <<d, i>> \in Bytes
    <3>1. <<d, i>> \in (Frames \cup DOMAIN Declared) \X Nat /\ <<d, i>>[1] = d
      OBVIOUS
    <3> QED
      BY <1>1, <3>1 DEF Bytes
  <2>2. m \in [1 .. n -> Bytes]
    BY <2>1 DEF Image
  <2> QED
    BY <2>2 DEF Image
<1> HIDE DEF m
<1>3. c \in Seq(Bytes) /\ Len(c) = n - k /\ \A i \in 1 .. n - k : c[i] = m[k + i]
  BY <1>2, FromIs
<1> HIDE DEF c
<1>4. ASSUME NEW i \in 1 .. Len(c) PROVE c[i][1] = d
  <2>1. i \in 1 .. n - k /\ k + i \in 1 .. n
    BY <1>3
  <2> QED
    BY <1>2, <1>3, <2>1
<1>5. c \in Seq(Bytes) /\ Len(c) = n - k /\ (\A i \in 1 .. Len(c) : c[i][1] \notin Frames) /\ NoMagic(c)
  BY <1>1, <1>3, <1>4 DEF NoMagic
<1> QED
  BY <1>5 DEF c, m

LEMMA JoinThree ==
  ASSUME NEW S, NEW x \in Seq(S), NEW y \in Seq(S), NEW z \in Seq(S)
  PROVE  x \o (y \o z) = (x \o y) \o z
BY ConcatAssociative

LEMMA CutAgain ==
  ASSUME NEW S, NEW c \in Seq(S), NEW n \in 0 .. Len(c), NEW m \in 0 .. n
  PROVE  SubSeq(SubSeq(c, 1, n), 1, m) = SubSeq(c, 1, m)
<1> DEFINE a == SubSeq(c, 1, n)
           b == SubSeq(a, 1, m)
           d == SubSeq(c, 1, m)
<1>1. a \in Seq(S) /\ Len(a) = n /\ \A i \in 1 .. n : a[i] = c[i]
  BY PrefixIs
<1>2. m \in 0 .. Len(c) /\ m \in Nat /\ n \in Nat
  OBVIOUS
<1>3. d \in Seq(S) /\ Len(d) = m /\ \A i \in 1 .. m : d[i] = c[i]
  BY <1>2, PrefixIs
<1> HIDE DEF a, d
<1>4. b \in Seq(S) /\ Len(b) = m /\ \A i \in 1 .. m : b[i] = a[i]
  BY <1>1, PrefixIs
<1> HIDE DEF b
<1>5. \A i \in 1 .. m : b[i] = d[i]
  BY <1>1, <1>2, <1>3, <1>4
<1>6. b = d
  BY <1>3, <1>4, <1>5, SeqEqual
<1> QED
  BY <1>6 DEF a, b, d

LEMMA JoinCut ==
  ASSUME NEW S, NEW x \in Seq(S), NEW y \in Seq(S), NEW n \in 0 .. Len(y)
  PROVE  x \o SubSeq(y, 1, n) = SubSeq(x \o y, 1, Len(x) + n) /\ Len(x) + n \in 0 .. Len(x \o y)
<1> DEFINE X == Len(x)
           z == SubSeq(y, 1, n)
           w == x \o y
           a == x \o z
           b == SubSeq(w, 1, X + n)
<1>1. z \in Seq(S) /\ Len(z) = n /\ \A i \in 1 .. n : z[i] = y[i]
  BY PrefixIs
<1>2. /\ w \in Seq(S) /\ Len(w) = X + Len(y) /\ X \in Nat /\ Len(y) \in Nat
      /\ \A i \in 1 .. X : w[i] = x[i]
      /\ \A i \in X + 1 .. X + Len(y) : w[i] = y[i - X]
  BY JoinIs
<1> HIDE DEF z, w
<1>3. /\ a \in Seq(S) /\ Len(a) = X + n
      /\ \A i \in 1 .. X : a[i] = x[i]
      /\ \A i \in X + 1 .. X + n : a[i] = z[i - X]
  <2>1. /\ x \o z \in Seq(S) /\ Len(x \o z) = Len(x) + Len(z)
        /\ \A i \in 1 .. Len(x) : (x \o z)[i] = x[i]
        /\ \A i \in Len(x) + 1 .. Len(x) + Len(z) : (x \o z)[i] = z[i - Len(x)]
    <3>1. x \in Seq(S) /\ z \in Seq(S)
      BY <1>1
    <3> QED
      BY ONLY <3>1, JoinIs
  <2> QED
    BY <1>1, <2>1
<1>4. X + n \in 0 .. Len(w)
  BY <1>2
<1>5. b \in Seq(S) /\ Len(b) = X + n /\ \A i \in 1 .. X + n : b[i] = w[i]
  BY <1>2, <1>4, PrefixIs
<1> HIDE DEF a, b, X
<1>6. ASSUME NEW i \in 1 .. X + n PROVE a[i] = b[i]
  <2>1. CASE i \in 1 .. X
    BY <1>2, <1>3, <1>5, <2>1
  <2>2. CASE i \in X + 1 .. X + n
    <3>1. i - X \in 1 .. n /\ i \in X + 1 .. X + Len(y)
      BY <1>2, <2>2
    <3> QED
      BY <1>1, <1>2, <1>3, <1>5, <2>2, <3>1
  <2> QED
    BY <1>2, <2>1, <2>2
<1>7. a = b
  BY <1>3, <1>5, <1>6, SeqEqual
<1> QED
  BY <1>4, <1>7 DEF a, b, z, w, X

LEMMA ComingMore ==
  ASSUME WireTyped, NEW y \in Seq(Bytes)
  PROVE  link.rx \o (toDevice \o y) = Coming \o y /\ toDevice \o y \in Seq(Bytes)
<1>1. link.rx \in Seq(Bytes) /\ toDevice \in Seq(Bytes)
  BY DEF WireTyped
<1>2. link.rx \o (toDevice \o y) = (link.rx \o toDevice) \o y
  <2> DEFINE a == link.rx
             b == toDevice
  <2>1. a \in Seq(Bytes) /\ b \in Seq(Bytes) /\ y \in Seq(Bytes)
    BY <1>1
  <2> HIDE DEF a, b
  <2>2. a \o (b \o y) = (a \o b) \o y
    BY ONLY <2>1, JoinThree
  <2> QED
    BY <2>2 DEF a, b
<1>3. toDevice \o y \in Seq(Bytes)
  BY <1>1
<1> QED
  BY <1>2, <1>3 DEF Coming

LEMMA ComingCut ==
  ASSUME WireTyped, NEW n \in 0 .. Len(toDevice)
  PROVE  LET m == Len(link.rx) + n IN
         /\ m \in 0 .. Len(Coming) /\ link.rx \o SubSeq(toDevice, 1, n) = SubSeq(Coming, 1, m)
         /\ SubSeq(toDevice, 1, n) \in Seq(Bytes) /\ Coming \in Seq(Bytes)
<1>1. link.rx \in Seq(Bytes) /\ toDevice \in Seq(Bytes)
  BY DEF WireTyped
<1>2. /\ link.rx \o SubSeq(toDevice, 1, n) = SubSeq(link.rx \o toDevice, 1, Len(link.rx) + n)
      /\ Len(link.rx) + n \in 0 .. Len(link.rx \o toDevice)
  BY <1>1, JoinCut
<1>3. SubSeq(toDevice, 1, n) \in Seq(Bytes) /\ Coming \in Seq(Bytes)
  BY <1>1, PrefixIs, ComingTyped
<1> QED
  BY <1>2, <1>3 DEF Coming

LEMMA DoomedMore ==
  ASSUME WireTyped, Doomed, NEW y \in Seq(Bytes), link' = link, toDevice' = toDevice \o y
  PROVE  Doomed'
<1>1. Coming' = Coming \o y
  BY ComingMore DEF Coming
<1>2. /\ Coming \in Seq(Bytes) /\ Len(Coming \o y) = Len(Coming) + Len(y) /\ Len(Coming) \in Nat /\ Len(y) \in Nat
      /\ \A i \in 1 .. Len(Coming) : (Coming \o y)[i] = Coming[i]
  BY ComingTyped, JoinIs
<1>3. PICK i \in 1 .. Len(Coming) : /\ i <= Length["magic"] /\ Coming[i][1] # "magic"
                                    /\ \A j \in 1 .. i - 1 : Coming[j][1] = "magic"
  BY DEF Doomed
<1> DEFINE v == Coming \o y
<1> HIDE DEF v
<1>4. /\ i \in 1 .. Len(v) /\ v[i][1] # "magic"
      /\ \A j \in 1 .. i - 1 : v[j][1] = "magic"
  <2>1. \A j \in 1 .. i - 1 : j \in 1 .. Len(Coming)
    BY <1>2
  <2> QED
    BY <1>2, <1>3, <2>1 DEF v
<1>5. \E k \in 1 .. Len(v) : /\ k <= Length["magic"] /\ v[k][1] # "magic"
                             /\ \A j \in 1 .. k - 1 : v[j][1] = "magic"
  BY <1>3, <1>4
<1>6. Coming' = v
  BY <1>1 DEF v
<1>7. /\ link'.linked /\ link'.rx # <<>> /\ link'.rx[1] = <<"magic", 1>> /\ Len(link'.rx) < Length["magic"]
  BY DEF Doomed
<1> QED
  BY <1>5, <1>6, <1>7 DEF Doomed

LEMMA DoomedCut ==
  ASSUME WireTyped, Doomed, NEW n \in 0 .. Len(toDevice), link' = link, toDevice' = SubSeq(toDevice, 1, n)
  PROVE  Doomed' \/ AllMagic(Coming')
<1> DEFINE m == Len(link.rx) + n
           v == SubSeq(Coming, 1, m)
<1>1. m \in 0 .. Len(Coming) /\ Coming' = v /\ Coming \in Seq(Bytes)
  BY ComingCut DEF Coming
<1> HIDE DEF m
<1>2. Len(v) = m /\ \A i \in 1 .. m : v[i] = Coming[i]
  BY <1>1, PrefixIs
<1>3. PICK i \in 1 .. Len(Coming) : /\ i <= Length["magic"] /\ Coming[i][1] # "magic"
                                    /\ \A j \in 1 .. i - 1 : Coming[j][1] = "magic"
  BY DEF Doomed
<1> HIDE DEF v
<1>4. CASE i <= m
  <2>1. i \in 1 .. Len(v) /\ v[i][1] # "magic" /\ \A j \in 1 .. i - 1 : v[j][1] = "magic" /\ j \in 1 .. m
    BY <1>1, <1>2, <1>3, <1>4
  <2>2. \E k \in 1 .. Len(v) : /\ k <= Length["magic"] /\ v[k][1] # "magic"
                               /\ \A j \in 1 .. k - 1 : v[j][1] = "magic"
    BY <1>3, <2>1
  <2>3. /\ link'.linked /\ link'.rx # <<>> /\ link'.rx[1] = <<"magic", 1>> /\ Len(link'.rx) < Length["magic"]
    BY DEF Doomed
  <2> QED
    BY <1>1, <2>2, <2>3 DEF Doomed
<1>5. CASE ~(i <= m)
  <2>1. ASSUME NEW j \in 1 .. Len(v) PROVE v[j][1] = "magic"
    <3>1. j \in 1 .. m /\ j \in 1 .. i - 1
      BY <1>1, <1>2, <1>5
    <3> QED
      BY <1>2, <1>3, <3>1
  <2> QED
    BY <1>1, <2>1 DEF AllMagic
<1> QED
  BY <1>4, <1>5

-------------------------------------------------------------------------------
(* The driver hangs up, or the bus is reset.                                 *)
Loose ==
  \/ Murk(Coming)
  \/ Silent /\ (Deaf \/ \E n \in 0 .. Len(Convo) : ToOffer(n) \/ ToEnter(n))
  \/ Silent /\ Doomed /\ (AllMagic(toDevice) \/ NoMagic(toDevice))

LEMMA CutIsBetween ==
  ASSUME WireTyped, offer \in DOMAIN Offers, Loose, NEW n \in 0 .. Len(toDevice),
         toDevice' = SubSeq(toDevice, 1, n), port' = "closed",
         link' = link, stager' = stager, offer' = offer
  PROVE  Between'
<1>m. PICK m \in Nat : m = Len(link.rx) + n
  BY DEF WireTyped
<1>1. /\ m \in 0 .. Len(Coming) /\ Coming' = SubSeq(Coming, 1, m) /\ Coming \in Seq(Bytes)
      /\ toDevice \in Seq(Bytes) /\ Len(Coming) \in Nat
  BY <1>m, ComingCut, ComingTyped DEF Coming, WireTyped
<1>2. Silent' = Silent
  BY DEF Silent
<1>3. Convo' = Convo /\ Convo \in Seq(Bytes) /\ Len(Convo) = Length[offer] + Length["enter"]
      /\ Length[offer] \in Nat /\ Length["enter"] \in Nat
      /\ Encoded("enter") \in Seq(Bytes) /\ Len(Encoded("enter")) = Length["enter"]
  BY ConvoIs DEF Convo
<1>4. CASE Murk(Coming)
  <2>1. Murk(SubSeq(Coming, 1, m))
    BY <1>1, <1>4, MurkCut
  <2>2. Murk(Coming')
    BY <1>1, <2>1
  <2> QED
    BY <2>2 DEF Between
<1>5. CASE Silent /\ Deaf
  <2>1. NoMagic(SubSeq(toDevice, 1, n))
    BY <1>1, <1>5, MurkCut DEF Deaf
  <2>2. Deaf'
    BY <1>5, <2>1 DEF Deaf
  <2> QED
    BY <1>2, <1>5, <2>2 DEF Between
<1>6. CASE Silent /\ \E k \in 0 .. Len(Convo) : ToOffer(k)
  <2>1. PICK k \in 0 .. Len(Convo) : ToOffer(k)
    BY <1>6
  <2>2. Coming = SubSeq(Convo, 1, k) /\ link.linked /\ Len(link.rx) < Length[offer]
    BY <2>1 DEF ToOffer
  <2>3. Len(Coming) = k
    BY <1>3, <2>2, PrefixIs
  <2>4. m \in 0 .. k /\ m \in 0 .. Len(Convo)
    BY <1>1, <1>3, <2>3
  <2>5. SubSeq(Coming, 1, m) = SubSeq(Convo, 1, m)
    BY <1>3, <2>2, <2>4, CutAgain
  <2>6. Coming' = SubSeq(Convo', 1, m) /\ m <= Len(Convo')
    BY <1>1, <1>3, <2>4, <2>5
  <2>7. ToOffer(m)'
    BY <2>2, <2>6 DEF ToOffer
  <2>8. \E j \in 0 .. Len(Convo') : ToOffer(j)' \/ ToEnter(j)'
    BY <1>3, <2>4, <2>7
  <2> QED
    BY <1>2, <1>6, <2>8 DEF Between
<1>7. CASE Silent /\ \E k \in 0 .. Len(Convo) : ToEnter(k)
  <2>1. PICK k \in 0 .. Len(Convo) : ToEnter(k)
    BY <1>7
  <2>2. /\ Coming = SubSeq(Encoded("enter"), 1, k) /\ link.linked /\ Len(link.rx) < Length["enter"]
        /\ k \in 0 .. Length["enter"]
    BY <1>3, <2>1 DEF ToEnter
  <2>3. Len(Coming) = k
    BY <1>3, <2>2, PrefixIs
  <2>4. m \in 0 .. k /\ m \in 0 .. Len(Convo) /\ m <= Length["enter"]
    BY <1>1, <1>3, <2>2, <2>3
  <2>5. SubSeq(Coming, 1, m) = SubSeq(Encoded("enter"), 1, m)
    BY <1>3, <2>2, <2>4, CutAgain
  <2>6. Coming' = SubSeq(Encoded("enter"), 1, m)
    BY <1>1, <2>5
  <2>7. ToEnter(m)'
    BY <2>2, <2>4, <2>6 DEF ToEnter
  <2>8. \E j \in 0 .. Len(Convo') : ToOffer(j)' \/ ToEnter(j)'
    BY <1>3, <2>4, <2>7
  <2> QED
    BY <1>2, <1>7, <2>8 DEF Between
<1>8. CASE Silent /\ Doomed /\ (AllMagic(toDevice) \/ NoMagic(toDevice))
  <2>1. Doomed' \/ AllMagic(Coming')
    BY <1>8, DoomedCut
  <2>2. CASE AllMagic(Coming')
    <3>1. Murk(Coming')
      BY <2>2, AllMagicIsMurk
    <3> QED
      BY <3>1 DEF Between
  <2>3. CASE Doomed'
    <3>1. AllMagic(SubSeq(toDevice, 1, n)) \/ NoMagic(SubSeq(toDevice, 1, n))
      BY <1>1, <1>8, MurkCut
    <3>2. AllMagic(toDevice') \/ NoMagic(toDevice')
      BY <3>1
    <3> QED
      BY <1>2, <1>8, <2>3, <3>2 DEF Between
  <2> QED
    BY <2>1, <2>2, <2>3
<1> QED
  BY <1>4, <1>5, <1>6, <1>7, <1>8 DEF Loose

LEMMA HushedCut ==
  ASSUME WireTyped, Hushed, NEW n \in 0 .. Len(toDevice),
         toDevice' = SubSeq(toDevice, 1, n), link' = link, stager' = stager
  PROVE  Hushed'
<1>1. /\ Len(link.rx) + n \in 0 .. Len(Coming) /\ Coming' = SubSeq(Coming, 1, Len(link.rx) + n)
      /\ Coming \in Seq(Bytes)
  BY ComingCut DEF Coming
<1>2. AllMagic(SubSeq(Coming, 1, Len(link.rx) + n))
  BY <1>1, MurkCut DEF Hushed
<1> QED
  BY <1>1, <1>2 DEF Hushed, Silent

\* Whatever the driver was doing, what it leaves behind is loose.
LEMMA AlwaysLoose ==
  ASSUME StagerInv
  PROVE  Loose /\ (Replied => step = "idle" /\ Hushed)
<1>0. /\ StagerTyped /\ WireTyped /\ link.rx \in Seq(Bytes) /\ toDevice \in Seq(Bytes)
      /\ (step # "idle" => port = "linked") /\ offer \in DOMAIN Offers
      /\ step \in {"idle", "offered", "entered", "refused", "failed", "done"} /\ sent \in Nat
      /\ step \in {"offered", "failed"} => (sent > 0 <=> step = "failed")
  BY DEF StagerInv, StagerTyped, WireTyped
<1>n. Coming = <<>> => Murk(Coming)
  BY NothingIsMurk
<1>c. /\ Length[offer] \in Nat /\ Length["enter"] \in Nat /\ Len(Convo) = Length[offer] + Length["enter"]
  BY <1>0, ConvoIs DEF Convo
<1>1. CASE step = "idle"
  <2>1. AtRest
    BY <1>1 DEF StagerInv
  <2>2. Loose
    BY <2>1 DEF AtRest, Between, Loose
  <2> QED
    BY <1>1, <2>1, <2>2 DEF AtRest
<1>2. CASE step \in {"offered", "entered"} /\ sent = 0
  <2>1. Offering
    BY <1>2 DEF StagerInv
  <2>2. ~Replied
    BY <2>1 DEF Offering, Replied
  <2>3. CASE Silent /\ ToOffer(IF step = "entered" THEN Len(Convo) ELSE Length[offer])
    <3>1. \E k \in 0 .. Len(Convo) : ToOffer(k)
      BY <1>c, <2>3
    <3> QED
      BY <2>2, <2>3, <3>1 DEF Loose
  <2>4. CASE Silent /\ ToEnter(IF step = "entered" THEN Length["enter"] ELSE 0)
    <3>1. \E k \in 0 .. Len(Convo) : ToEnter(k)
      BY <1>c, <2>4
    <3> QED
      BY <2>2, <2>4, <3>1 DEF Loose
  <2>5. CASE Coming = <<>>
    BY <1>n, <2>2, <2>5 DEF Loose
  <2>6. CASE Silent /\ Doomed /\ NoMagic(toDevice)
    BY <2>2, <2>6 DEF Loose
  <2>7. CASE Silent /\ Deaf
    BY <2>2, <2>7 DEF Loose
  <2> QED
    BY <2>1, <2>3, <2>4, <2>5, <2>6, <2>7 DEF Offering
<1>3. CASE step \in {"entered", "failed"} /\ sent > 0
  <2>1. CASE Unheard
    <3>1. ~Replied
      BY <2>1 DEF Unheard, Replied
    <3> QED
      BY <2>1, <3>1 DEF Unheard, Loose
  <2>2. CASE Taking
    <3>1. ~Replied
      BY <2>2 DEF Taking, Replied, Ack, MagicReply
    <3>2. Murk(Coming)
      <4>1. link.rx = <<>> /\ (toDevice = <<>> \/ Murk(toDevice))
        BY <2>2 DEF Taking
      <4>2. Coming = toDevice
        BY <1>0, <4>1 DEF Coming
      <4> QED
        BY <1>n, <4>1, <4>2
    <3> QED
      BY <3>1, <3>2 DEF Loose
  <2> QED
    BY <1>3, <2>1, <2>2 DEF StagerInv
<1>4. CASE step = "refused"
  <2>1. TurnedDown
    BY <1>4 DEF StagerInv
  <2> QED
    BY <1>n, <2>1 DEF TurnedDown, Loose, Replied
<1>5. CASE step = "done"
  <2>1. Done
    BY <1>5 DEF StagerInv
  <2> QED
    BY <1>n, <2>1 DEF Done, Loose
<1> QED
  BY <1>0, <1>1, <1>2, <1>3, <1>4, <1>5

LEMMA TypedAtRest ==
  ASSUME StagerTyped', step' = "idle", AtRest'
  PROVE  StagerInv'
BY DEF StagerInv

LEMMA HangUpKeeps ==
  ASSUME StagerInv, HangUp
  PROVE  StagerInv'
<1>1. StagerTyped /\ WireTyped /\ Loose /\ (Replied => Hushed) /\ offer \in DOMAIN Offers
  BY AlwaysLoose DEF StagerInv, StagerTyped
<1>2. step' = "idle" /\ stager' = stager /\ offer' = offer /\ sent' = sent /\ acked' = acked
  BY DEF HangUp
<1>3. port' = "closed" /\ link' = link /\ (toHost' = toHost \/ toHost' = <<>>)
  BY DEF HangUp, PortLost, ClosePort, BusReset
<1>4. PICK n \in 0 .. Len(toDevice) : toDevice' = SubSeq(toDevice, 1, n)
  <2>1. CASE ClosePort
    BY <2>1 DEF ClosePort
  <2>2. CASE BusReset
    <3>1. toDevice \in Seq(Bytes) /\ 0 \in 0 .. Len(toDevice)
      BY <1>1 DEF WireTyped
    <3>2. SubSeq(toDevice, 1, 0) = <<>>
      BY <3>1
    <3> QED
      BY <2>2, <3>1, <3>2 DEF BusReset
  <2> QED
    BY <2>1, <2>2 DEF HangUp, PortLost
<1>5. Between'
  BY <1>1, <1>2, <1>3, <1>4, CutIsBetween
<1>6. Replied' => Hushed'
  <2>1. Replied' => Replied
    BY <1>3 DEF Replied
  <2> QED
    BY <1>1, <1>2, <1>3, <1>4, <2>1, HushedCut
<1>7. AtRest'
  BY <1>3, <1>5, <1>6 DEF AtRest
<1>8. WireTyped'
  <2>1. toDevice' \in Seq(Bytes)
    BY <1>1, <1>4, ComingCut
  <2> QED
    BY <1>1, <1>3, <2>1 DEF WireTyped
<1>9. toHost' \in Seq({MagicReply, Ack})
  <2>1. toHost \in Seq({MagicReply, Ack})
    BY <1>1 DEF StagerTyped
  <2>2. CASE toHost' = toHost
    BY <2>1, <2>2
  <2>3. CASE toHost' = <<>>
    BY <2>3
  <2> QED
    BY <1>3, <2>2, <2>3
<1>10. StagerTyped'
  BY <1>1, <1>2, <1>3, <1>8, <1>9 DEF StagerTyped
<1> QED
  BY <1>2, <1>7, <1>10 DEF StagerInv

\* What the driver has under way, and the order it ends with.
LEMMA ConvoNow ==
  ASSUME offer \in DOMAIN Offers
  PROVE  /\ offer \in Frames /\ "enter" \in Frames
         /\ Length[offer] \in Nat \ {0} /\ Length["enter"] \in Nat \ {0}
         /\ offer # "magic" /\ "enter" # "magic" /\ Len(Convo) \in Nat
         /\ Convo \in Seq(Bytes) /\ Len(Convo) = Length[offer] + Length["enter"]
         /\ \A i \in 1 .. Len(Convo) : Convo[i] = IF i <= Length[offer] THEN <<offer, i>> ELSE <<"enter", i - Length[offer]>>
         /\ Encoded("enter") \in Seq(Bytes) /\ Len(Encoded("enter")) = Length["enter"]
         /\ \A i \in 1 .. Length["enter"] : Encoded("enter")[i] = <<"enter", i>>
<1>1. "enter" \in Frames /\ Encoded("enter") \in Seq(Bytes) /\ Len(Encoded("enter")) = Length["enter"]
      /\ \A i \in 1 .. Length["enter"] : Encoded("enter")[i] = <<"enter", i>>
  BY UpgradeAssumption, EncodedIs
<1>2. /\ offer \in Frames /\ offer # "magic" /\ "enter" # "magic"
      /\ Length[offer] \in Nat \ {0} /\ Length["enter"] \in Nat \ {0}
  BY UpgradeAssumption, FramesAssumption
<1>3. /\ Convo \in Seq(Bytes) /\ Len(Convo) = Length[offer] + Length["enter"]
      /\ \A i \in 1 .. Len(Convo) : Convo[i] = IF i <= Length[offer] THEN <<offer, i>> ELSE <<"enter", i - Length[offer]>>
  <2>1. /\ Convo \in Seq(Bytes) /\ Len(Convo) = Length[offer] + Length["enter"]
        /\ \A i \in 1 .. Length[offer] + Length["enter"] :
             Convo[i] = IF i <= Length[offer] THEN <<offer, i>> ELSE <<"enter", i - Length[offer]>>
    BY ConvoIs DEF Convo
  <2> QED
    BY <2>1
<1>4. Len(Convo) \in Nat
  BY <1>3
<1> QED
  BY <1>1, <1>2, <1>3, <1>4

LEMMA OpenPortKeeps ==
  ASSUME StagerInv, OpenPort, UNCHANGED <<stager, driverVars>>
  PROVE  StagerInv'
<1>1. /\ StagerTyped /\ WireTyped /\ step = "idle" /\ AtRest /\ offer \in DOMAIN Offers
      /\ link.rx \in Seq(Bytes)
  BY DEF StagerInv, StagerTyped, OpenPort, WireTyped
<1>2. /\ port = "closed" /\ toDevice = <<>> /\ port' = "waiting" /\ configured' = TRUE
      /\ link' = link /\ toDevice' = toDevice /\ toHost' = toHost
      /\ stager' = stager /\ offer' = offer /\ step' = step /\ sent' = sent /\ acked' = acked
  BY DEF OpenPort, driverVars
<1>3. Coming = link.rx /\ Coming' = Coming
  BY <1>1, <1>2 DEF Coming
<1>4. Silent' = Silent /\ Replied' = Replied /\ Doomed' = Doomed
  BY <1>2, <1>3 DEF Silent, Replied, Doomed
<1>5. ASSUME Murk(Coming) PROVE Between'
  <2>1. Between'
    BY <1>3, <1>5 DEF Between
  <2> QED
    BY <2>1
<1>6. ASSUME Silent, Deaf PROVE Between'
  <2>1. Coming = <<>>
    BY <1>1, <1>3, <1>6 DEF Deaf, WireTyped
  <2>2. Murk(Coming)
    BY <2>1, NothingIsMurk
  <2> QED
    BY <1>5, <2>2
<1>c. /\ offer \in Frames /\ "enter" \in Frames
      /\ Length[offer] \in Nat \ {0} /\ Length["enter"] \in Nat \ {0}
      /\ offer # "magic" /\ "enter" # "magic" /\ Len(Convo) \in Nat
      /\ Convo \in Seq(Bytes) /\ Len(Convo) = Length[offer] + Length["enter"]
      /\ \A i \in 1 .. Len(Convo) : Convo[i] = IF i <= Length[offer] THEN <<offer, i>> ELSE <<"enter", i - Length[offer]>>
      /\ Encoded("enter") \in Seq(Bytes) /\ Len(Encoded("enter")) = Length["enter"]
      /\ \A i \in 1 .. Length["enter"] : Encoded("enter")[i] = <<"enter", i>>
  BY <1>1, ConvoNow
<1>7. ASSUME \E n \in 0 .. Len(Convo) : ToOffer(n) PROVE Between'
  <2>1. PICK n \in 0 .. Len(Convo) : ToOffer(n)
    BY <1>7
  <2>2. Coming = SubSeq(Convo, 1, n) /\ Len(link.rx) < Length[offer]
    BY <2>1 DEF ToOffer
  <2>3. Len(Coming) = n /\ \A i \in 1 .. n : Coming[i] = Convo[i]
    BY <1>c, <2>2, PrefixIs
  <2>4. n < Length[offer]
    BY <1>3, <2>2, <2>3
  <2>5. ASSUME NEW i \in 1 .. Len(Coming) PROVE Coming[i] = <<offer, i>> /\ i < Length[offer]
    <3>1. i \in 1 .. n /\ i \in 1 .. Len(Convo) /\ i <= Length[offer] /\ i < Length[offer]
      BY <1>c, <2>3, <2>4
    <3> QED
      BY <1>c, <2>3, <3>1
  <2>6. Murk(Coming)
    BY <1>c, <2>5 DEF Murk
  <2> QED
    BY <1>5, <2>6
<1>8. ASSUME \E n \in 0 .. Len(Convo) : ToEnter(n) PROVE Between'
  <2>1. PICK n \in 0 .. Len(Convo) : ToEnter(n)
    BY <1>8
  <2>2. Coming = SubSeq(Encoded("enter"), 1, n) /\ Len(link.rx) < Length["enter"] /\ n \in 0 .. Length["enter"]
    BY <1>c, <2>1 DEF ToEnter
  <2>3. Len(Coming) = n /\ \A i \in 1 .. n : Coming[i] = Encoded("enter")[i]
    BY <1>c, <2>2, PrefixIs
  <2>4. n < Length["enter"]
    BY <1>3, <2>2, <2>3
  <2>5. ASSUME NEW i \in 1 .. Len(Coming) PROVE Coming[i] = <<"enter", i>> /\ i < Length["enter"]
    <3>1. i \in 1 .. n /\ i \in 1 .. Length["enter"] /\ i < Length["enter"]
      BY <1>c, <2>3, <2>4
    <3> QED
      BY <1>c, <2>3, <3>1
  <2>6. Murk(Coming)
    BY <1>c, <2>5 DEF Murk
  <2> QED
    BY <1>5, <2>6
<1>9. ASSUME Silent, Doomed PROVE Between'
  <2>1. AllMagic(toDevice')
    BY <1>2, NothingIsMurk
  <2> QED
    BY <1>4, <1>9, <2>1 DEF Between
<1>10. Between'
  BY <1>1, <1>5, <1>6, <1>7, <1>8, <1>9 DEF AtRest, Between
<1>11. AtRest'
  BY <1>1, <1>2, <1>3, <1>4, <1>10 DEF AtRest, Hushed
<1>12. StagerTyped'
  BY <1>1, <1>2 DEF StagerTyped, WireTyped
<1> QED
  BY <1>1, <1>2, <1>11, <1>12, TypedAtRest

LEMMA SendMagicKeeps ==
  ASSUME StagerInv, SendMagic, UNCHANGED <<stager, driverVars>>
  PROVE  StagerInv'
<1>1. StagerTyped /\ WireTyped /\ step = "idle" /\ AtRest /\ toDevice \in Seq(Bytes)
  BY DEF StagerInv, StagerTyped, SendMagic, WireTyped
<1>2. /\ port = "waiting" /\ port' = port /\ configured' = configured
      /\ link' = link /\ toDevice' = toDevice \o Encoded("magic") /\ toHost' = toHost
      /\ stager' = stager /\ offer' = offer /\ step' = step /\ sent' = sent /\ acked' = acked
  BY DEF SendMagic, driverVars
<1>3. Encoded("magic") \in Seq(Bytes) /\ AllMagic(Encoded("magic"))
  BY MagicIsMagic
<1>4. Coming' = Coming \o Encoded("magic") /\ toDevice' \in Seq(Bytes) /\ Coming \in Seq(Bytes)
  BY <1>1, <1>2, <1>3, ComingMore, ComingTyped DEF Coming
<1>5. Silent' = Silent /\ Replied' = Replied
  BY <1>2 DEF Silent, Replied
<1>6. Between'
  <2>1. CASE Murk(Coming)
    <3>1. Murk(Coming')
      BY <1>3, <1>4, <2>1, MurkJoin
    <3> QED
      BY <3>1 DEF Between
  <2>2. CASE Silent /\ Doomed /\ AllMagic(toDevice)
    <3>1. Doomed'
      BY <1>1, <1>2, <1>3, <2>2, DoomedMore
    <3>2. AllMagic(toDevice')
      BY <1>1, <1>2, <1>3, <2>2, MurkJoin
    <3> QED
      BY <1>5, <2>2, <3>1, <3>2 DEF Between
  <2> QED
    BY <1>1, <1>2, <2>1, <2>2 DEF AtRest, Between
<1>7. Hushed => Hushed'
  BY <1>3, <1>4, <1>5, MurkJoin DEF Hushed
<1>8. AtRest'
  BY <1>1, <1>2, <1>5, <1>6, <1>7 DEF AtRest
<1>9. StagerTyped'
  BY <1>1, <1>2, <1>4 DEF StagerTyped, WireTyped
<1> QED
  BY <1>1, <1>2, <1>8, <1>9, TypedAtRest

LEMMA ShorterReplies ==
  ASSUME toHost \in Seq({MagicReply, Ack}), toHost # <<>>, toHost' = Tail(toHost)
  PROVE  /\ toHost' \in Seq({MagicReply, Ack}) /\ Len(toHost') = Len(toHost) - 1 /\ Len(toHost) \in Nat
         /\ Len(toHost) > 0 /\ Head(toHost) = toHost[1]
         /\ \A i \in 1 .. Len(toHost') : toHost'[i] = toHost[i + 1] /\ i + 1 \in 1 .. Len(toHost)
         /\ (Replied' => Replied)
<1> DEFINE q == toHost
           t == Tail(q)
           A == {MagicReply, Ack}
<1>1. q \in Seq(A) /\ q # <<>>
  OBVIOUS
<1> HIDE DEF q, A
<1>2. /\ t \in Seq(A) /\ Len(t) = Len(q) - 1 /\ Len(q) \in Nat /\ Len(q) > 0 /\ Head(q) = q[1]
      /\ \A i \in 1 .. Len(q) - 1 : t[i] = q[i + 1]
  BY <1>1
<1>3. \A i \in 1 .. Len(t) : t[i] = q[i + 1] /\ i + 1 \in 1 .. Len(q)
  BY <1>2
<1> HIDE DEF t
<1>4. toHost' = t
  BY DEF t, q
<1>5. Replied' => Replied
  BY <1>3, <1>4 DEF Replied, q
<1> QED
  BY <1>2, <1>3, <1>4, <1>5 DEF q, A

LEMMA AwaitReplyKeeps ==
  ASSUME StagerInv, AwaitReply, UNCHANGED <<stager, driverVars>>
  PROVE  StagerInv'
<1>1. /\ StagerTyped /\ WireTyped /\ step = "idle" /\ AtRest
      /\ toHost \in Seq({MagicReply, Ack}) /\ toHost # <<>> /\ toHost' = Tail(toHost)
  BY DEF StagerInv, StagerTyped, AwaitReply
<1>2. /\ port = "waiting" /\ configured' = configured /\ link' = link /\ toDevice' = toDevice
      /\ stager' = stager /\ offer' = offer /\ step' = step /\ sent' = sent /\ acked' = acked
      /\ port' \in {"waiting", "linked"} /\ (port' = "linked" => Head(toHost) = MagicReply)
  BY DEF AwaitReply, driverVars
<1>3. Coming' = Coming /\ Silent' = Silent /\ Doomed' = Doomed
  BY <1>2 DEF Coming, Silent, Doomed
<1>4. Hushed' = Hushed
  BY <1>3 DEF Hushed
<1>5. /\ toHost' \in Seq({MagicReply, Ack}) /\ (Replied' => Replied)
      /\ Head(toHost) = toHost[1] /\ 1 \in 1 .. Len(toHost)
  BY <1>1, ShorterReplies
<1>6. Between'
  BY <1>1, <1>2, <1>3 DEF AtRest, Between
<1>7. port' = "linked" => Replied
  BY <1>2, <1>5 DEF Replied
<1>8. AtRest'
  BY <1>1, <1>4, <1>5, <1>6, <1>7 DEF AtRest
<1>9. StagerTyped'
  BY <1>1, <1>2, <1>5 DEF StagerTyped, WireTyped
<1> QED
  BY <1>1, <1>2, <1>8, <1>9, TypedAtRest

LEMMA DrainKeeps ==
  ASSUME StagerInv, Drain
  PROVE  StagerInv'
<1>1. /\ StagerTyped /\ WireTyped /\ step \in {"idle", "refused", "done"}
      /\ toHost \in Seq({MagicReply, Ack}) /\ toHost # <<>> /\ toHost' = Tail(toHost)
  BY DEF StagerInv, StagerTyped, Drain
<1>2. /\ configured' = configured /\ link' = link /\ toDevice' = toDevice /\ port' = port
      /\ stager' = stager /\ offer' = offer /\ step' = step /\ sent' = sent /\ acked' = acked
  BY DEF Drain, driverVars
<1>3. Coming' = Coming /\ Silent' = Silent /\ Doomed' = Doomed /\ Convo' = Convo
  BY <1>2 DEF Coming, Silent, Doomed, Convo
<1>4. Hushed' = Hushed /\ Deaf' = Deaf /\ Verified' = Verified /\ Matches' = Matches
  BY <1>2, <1>3 DEF Hushed, Deaf, Verified, Matches
<1>5. toHost' \in Seq({MagicReply, Ack}) /\ (Replied' => Replied)
  BY <1>1, ShorterReplies
<1>6. StagerTyped'
  BY <1>1, <1>2, <1>5 DEF StagerTyped, WireTyped
<1>7. CASE step = "idle"
  <2>1. AtRest
    BY <1>7 DEF StagerInv
  <2>2. (\E n \in 0 .. Len(Convo) : ToOffer(n) \/ ToEnter(n)) =>
          \E n \in 0 .. Len(Convo') : ToOffer(n)' \/ ToEnter(n)'
    BY <1>2, <1>3 DEF ToOffer, ToEnter
  <2>3. Between'
    BY <1>2, <1>3, <1>4, <2>1, <2>2 DEF AtRest, Between
  <2>4. AtRest'
    BY <1>2, <1>4, <1>5, <2>1, <2>3 DEF AtRest
  <2> QED
    BY <1>2, <1>6, <1>7, <2>4, TypedAtRest
<1>8. CASE step = "refused"
  BY <1>1, <1>8 DEF StagerInv, TurnedDown
<1>9. CASE step = "done"
  <2>1. Done'
    BY <1>3, <1>4, <1>5, <1>9 DEF StagerInv, Done
  <2> QED
    BY <1>2, <1>6, <1>9, <2>1 DEF StagerInv
<1> QED
  BY <1>1, <1>7, <1>8, <1>9

-------------------------------------------------------------------------------
(* What the driver sends and reads.                                          *)
LEMMA WholeIs ==
  ASSUME NEW S, NEW s \in Seq(S)
  PROVE  SubSeq(s, 1, Len(s)) = s
<1> DEFINE a == SubSeq(s, 1, Len(s))
<1>1. Len(s) \in 0 .. Len(s)
  OBVIOUS
<1>2. a \in Seq(S) /\ Len(a) = Len(s) /\ \A i \in 1 .. Len(s) : a[i] = s[i]
  BY <1>1, PrefixIs
<1> HIDE DEF a
<1>3. a = s
  BY <1>2, SeqEqual
<1> QED
  BY <1>3 DEF a

LEMMA FirstIs ==
  ASSUME NEW S, NEW x \in Seq(S), NEW y \in Seq(S)
  PROVE  SubSeq(x \o y, 1, Len(x)) = x
<1> DEFINE v == x \o y
           a == SubSeq(v, 1, Len(x))
<1>1. v \in Seq(S) /\ Len(v) = Len(x) + Len(y) /\ \A i \in 1 .. Len(x) : v[i] = x[i]
  BY JoinIs
<1>2. Len(x) \in 0 .. Len(v)
  BY <1>1
<1> HIDE DEF v
<1>3. a \in Seq(S) /\ Len(a) = Len(x) /\ \A i \in 1 .. Len(x) : a[i] = v[i]
  BY <1>1, <1>2, PrefixIs
<1> HIDE DEF a
<1>4. a = x
  BY <1>1, <1>3, SeqEqual
<1> QED
  BY <1>4 DEF a, v

LEMMA NoMagicJoin ==
  ASSUME NEW w \in Seq(Bytes), NEW y \in Seq(Bytes), NoMagic(w), NoMagic(y)
  PROVE  NoMagic(w \o y)
<1> DEFINE v == w \o y
<1>1. /\ Len(v) = Len(w) + Len(y) /\ Len(w) \in Nat /\ Len(y) \in Nat
      /\ \A i \in 1 .. Len(w) : v[i] = w[i]
      /\ \A i \in Len(w) + 1 .. Len(w) + Len(y) : v[i] = y[i - Len(w)]
  BY JoinIs
<1> HIDE DEF v
<1>2. ASSUME NEW i \in 1 .. Len(v) PROVE v[i][1] # "magic"
  <2>1. CASE i \in 1 .. Len(w)
    BY <1>1, <2>1 DEF NoMagic
  <2>2. CASE i \in Len(w) + 1 .. Len(w) + Len(y)
    <3>1. i - Len(w) \in 1 .. Len(y)
      BY <1>1, <2>2
    <3> QED
      BY <1>1, <2>2, <3>1 DEF NoMagic
  <2> QED
    BY <1>1, <2>1, <2>2
<1> QED
  BY <1>2 DEF NoMagic, v

\* Magic bytes that are held, and then something else.
LEMMA HeldIsDoomed ==
  ASSUME WireTyped, HeldWell(link), link.linked, link.rx # <<>>, AllMagic(link.rx),
         NEW y \in Seq(Bytes), Len(y) > 0, NoMagic(y), link' = link, toDevice' = y
  PROVE  Doomed'
<1> DEFINE w == link.rx
           v == w \o y
<1>1. w \in Seq(Bytes) /\ Len(w) \in Nat \ {0} /\ Len(y) \in Nat \ {0}
  BY DEF WireTyped
<1>2. w[1] \in Bytes /\ w[1][1] = "magic" /\ 1 \in 1 .. Len(w)
  BY <1>1 DEF AllMagic
<1>3. w[1] = <<"magic", 1>> /\ Len(w) < Length["magic"]
  BY <1>1, <1>2 DEF HeldWell, Bytes
<1>4. /\ Len(v) = Len(w) + Len(y)
      /\ \A i \in 1 .. Len(w) : v[i] = w[i]
      /\ \A i \in Len(w) + 1 .. Len(w) + Len(y) : v[i] = y[i - Len(w)]
  BY <1>1, JoinIs
<1>5. Coming' = v
  BY DEF Coming
<1> HIDE DEF v
<1>6. v[Len(w) + 1][1] # "magic" /\ Len(w) + 1 \in 1 .. Len(v) /\ Len(w) + 1 <= Length["magic"]
  <2>1. (Len(w) + 1) - Len(w) = 1 /\ Len(w) + 1 \in Len(w) + 1 .. Len(w) + Len(y)
    BY <1>1
  <2>2. v[Len(w) + 1] = y[1] /\ 1 \in 1 .. Len(y)
    <3> DEFINE k == Len(w) + 1
    <3>1. k \in Len(w) + 1 .. Len(w) + Len(y) /\ k - Len(w) = 1
      BY <2>1
    <3> HIDE DEF k
    <3>2. v[k] = y[k - Len(w)]
      BY <1>4, <3>1
    <3> QED
      BY <1>1, <3>1, <3>2 DEF k
  <2>3. Len(w) + 1 <= Length["magic"]
    BY <1>1, <1>3, MagicLenIs
  <2> QED
    BY <1>1, <1>4, <2>2, <2>3 DEF NoMagic
<1>7. \A j \in 1 .. (Len(w) + 1) - 1 : v[j][1] = "magic"
  BY <1>1, <1>4 DEF AllMagic
<1>8. \E i \in 1 .. Len(v) : i <= Length["magic"] /\ v[i][1] # "magic" /\ \A j \in 1 .. i - 1 : v[j][1] = "magic"
  BY <1>6, <1>7
<1>9. link'.linked /\ link'.rx # <<>> /\ link'.rx[1] = <<"magic", 1>> /\ Len(link'.rx) < Length["magic"]
  BY <1>3
<1> QED
  BY <1>5, <1>8, <1>9 DEF Doomed

LEMMA OfferKeeps ==
  ASSUME StagerInv, NEW f \in DOMAIN Offers, Offer(f)
  PROVE  StagerInv'
<1>1. /\ StagerTyped /\ WireTyped /\ HeldWell(link) /\ step \in {"idle", "refused"}
      /\ link.rx \in Seq(Bytes) /\ port = "linked"
  BY DEF StagerInv, StagerTyped, WireTyped, Offer
<1>2. /\ toDevice = <<>> /\ toHost = <<>> /\ step' = "offered" /\ offer' = f /\ sent' = 0 /\ acked' = 0
      /\ toDevice' = Encoded(f) /\ link' = link /\ toHost' = toHost /\ configured' = configured
      /\ port' = port /\ stager' = stager
  BY DEF Offer
<1>3. Coming = link.rx
  BY <1>1, <1>2 DEF Coming
<1>4. Silent /\ AllMagic(link.rx)
  <2>1. CASE step = "idle"
    BY <1>1, <1>3, <2>1 DEF StagerInv, AtRest, Hushed
  <2>2. CASE step = "refused"
    BY <1>3, <2>2, NothingIsMurk DEF StagerInv, TurnedDown
  <2> QED
    BY <1>1, <2>1, <2>2
<1>5. Silent'
  BY <1>2, <1>4 DEF Silent
<1>6. Encoded(f) \in Seq(Bytes) /\ NoMagic(Encoded(f)) /\ Len(Encoded(f)) > 0
  BY EncodedHasNoMagic
<1>7. ASSUME ~link.linked PROVE Offering'
  <2>1. Deaf'
    BY <1>2, <1>6, <1>7 DEF Deaf
  <2> QED
    BY <1>2, <1>5, <2>1 DEF Offering
<1>8. ASSUME link.linked, link.rx # <<>> PROVE Offering'
  <2>1. Doomed'
    BY <1>1, <1>2, <1>4, <1>6, <1>8, HeldIsDoomed
  <2>2. NoMagic(toDevice')
    BY <1>2, <1>6
  <2> QED
    BY <1>2, <1>5, <2>1, <2>2 DEF Offering
<1>9. ASSUME link.linked, link.rx = <<>> PROVE Offering'
  <2>1. /\ Encoded("enter") \in Seq(Bytes) /\ Length["enter"] \in Nat /\ Length[f] \in Nat \ {0}
        /\ Len(Encoded(f)) = Length[f] /\ Len(Encoded(f) \o Encoded("enter")) = Length[f] + Length["enter"]
    BY ConvoIs
  <2>2. Convo' = Encoded(f) \o Encoded("enter")
    BY <1>2 DEF Convo
  <2>3. SubSeq(Encoded(f) \o Encoded("enter"), 1, Length[f]) = Encoded(f)
    <3>1. SubSeq(Encoded(f) \o Encoded("enter"), 1, Len(Encoded(f))) = Encoded(f)
      BY ONLY <1>6, <2>1, FirstIs
    <3> QED
      BY <2>1, <3>1
  <2>4. Coming' = Encoded(f)
    BY <1>2, <1>6, <1>9 DEF Coming
  <2>5. Len(link'.rx) < Length[f] /\ Length[f] <= Len(Convo') /\ Coming' = SubSeq(Convo', 1, Length[f])
    <3>1. Len(link'.rx) = 0
      BY <1>2, <1>9
    <3> QED
      BY <2>1, <2>2, <2>3, <2>4, <3>1
  <2> QED
    BY <1>2, <1>5, <1>9, <2>5 DEF Offering, ToOffer
<1>10. Offering'
  BY <1>2, <1>7, <1>8, <1>9
<1>11. StagerTyped'
  <2>1. WireTyped'
    BY <1>1, <1>2, <1>6 DEF WireTyped
  <2>2. Offers[f].size \in Nat
    BY UpgradeAssumption
  <2> QED
    BY <1>1, <1>2, <2>1, <2>2 DEF StagerTyped
<1> QED
  BY <1>2, <1>10, <1>11 DEF StagerInv

LEMMA EnterKeeps ==
  ASSUME StagerInv, Enter
  PROVE  StagerInv'
<1>1. /\ StagerTyped /\ WireTyped /\ step = "offered" /\ sent = 0 /\ offer \in DOMAIN Offers
      /\ link.rx \in Seq(Bytes) /\ toDevice \in Seq(Bytes) /\ Coming \in Seq(Bytes)
  BY ComingTyped DEF StagerInv, StagerTyped, WireTyped, Enter
<1>2. /\ step' = "entered" /\ toDevice' = toDevice \o Encoded("enter")
      /\ offer' = offer /\ sent' = sent /\ acked' = acked
      /\ link' = link /\ toHost' = toHost /\ configured' = configured
      /\ port' = port /\ stager' = stager
  BY DEF Enter
<1>3. Offering /\ toHost' = <<>> /\ acked' = 0
  BY <1>1, <1>2 DEF StagerInv, Offering
<1>4. /\ Encoded("enter") \in Seq(Bytes) /\ NoMagic(Encoded("enter"))
      /\ Len(Encoded("enter")) = Length["enter"] /\ Length["enter"] \in Nat \ {0}
  BY <1>1, EncodedHasNoMagic, ConvoIs
<1>5. /\ Coming' = Coming \o Encoded("enter") /\ toDevice' \in Seq(Bytes)
      /\ Silent' = Silent /\ Convo' = Convo /\ Matches' = Matches
  BY <1>1, <1>2, <1>4, ComingMore DEF Coming, Silent, Convo, Matches
<1>6. NoMagic(toDevice) => NoMagic(toDevice')
  BY <1>1, <1>2, <1>4, NoMagicJoin
<1>7. ASSUME Silent, ToOffer(Length[offer]) PROVE Offering'
  <2>1. Coming = SubSeq(Convo, 1, Length[offer]) /\ link.linked /\ Len(link.rx) < Length[offer]
    BY <1>7 DEF ToOffer
  <2>2. /\ Encoded(offer) \in Seq(Bytes) /\ Len(Encoded(offer)) = Length[offer]
        /\ Convo = Encoded(offer) \o Encoded("enter") /\ Convo \in Seq(Bytes)
    BY <1>1, ConvoIs DEF Convo
  <2>3. SubSeq(Encoded(offer) \o Encoded("enter"), 1, Len(Encoded(offer))) = Encoded(offer)
    BY ONLY <1>4, <2>2, FirstIs
  <2>4. Coming' = Convo
    BY <1>5, <2>1, <2>2, <2>3
  <2>5. SubSeq(Convo, 1, Len(Convo)) = Convo /\ Len(Convo) <= Len(Convo)
    BY <2>2, WholeIs
  <2>6. Coming' = SubSeq(Convo', 1, Len(Convo')) /\ Len(Convo') <= Len(Convo')
    BY <1>5, <2>4, <2>5
  <2> QED
    BY <1>2, <1>3, <1>5, <1>7, <2>1, <2>6 DEF Offering, ToOffer
<1>8. ASSUME Silent, stager.state = "Prepared" => Matches, ToEnter(0) PROVE Offering'
  <2>1. Coming = SubSeq(Encoded("enter"), 1, 0) /\ link.linked /\ Len(link.rx) < Length["enter"]
    BY <1>8 DEF ToEnter
  <2>2. Coming = <<>>
    BY <1>4, <2>1
  <2>3. Coming' = Encoded("enter")
    BY <1>4, <1>5, <2>2
  <2>4. SubSeq(Encoded("enter"), 1, Length["enter"]) = Encoded("enter")
    <3>1. SubSeq(Encoded("enter"), 1, Len(Encoded("enter"))) = Encoded("enter")
      BY ONLY <1>4, WholeIs
    <3> QED
      BY <1>4, <3>1
  <2>5. Coming' = SubSeq(Encoded("enter"), 1, Length["enter"]) /\ Length["enter"] <= Length["enter"]
    BY <1>4, <2>3, <2>4
  <2>6. (stager.state = "Prepared" => Matches)'
    BY <1>2, <1>5, <1>8
  <2> QED
    BY <1>2, <1>3, <1>5, <1>8, <2>1, <2>5, <2>6 DEF Offering, ToEnter
<1>9. ASSUME Silent, Doomed, NoMagic(toDevice) PROVE Offering'
  <2>1. Doomed'
    BY <1>1, <1>2, <1>4, <1>9, DoomedMore
  <2> QED
    BY <1>3, <1>5, <1>6, <1>9, <2>1 DEF Offering
<1>10. ASSUME Silent, Deaf PROVE Offering'
  <2>1. Deaf'
    BY <1>2, <1>6, <1>10 DEF Deaf
  <2> QED
    BY <1>3, <1>5, <1>10, <2>1 DEF Offering
<1>11. Offering'
  <2>1. \/ Silent /\ ToOffer(Length[offer])
        \/ Silent /\ (stager.state = "Prepared" => Matches) /\ ToEnter(0)
        \/ Silent /\ Doomed /\ NoMagic(toDevice)
        \/ Silent /\ Deaf
    BY <1>1, <1>3 DEF Offering
  <2> QED
    BY <1>7, <1>8, <1>9, <1>10, <2>1
<1>12. StagerTyped'
  BY <1>1, <1>2, <1>5 DEF StagerTyped, WireTyped
<1> QED
  BY <1>1, <1>2, <1>11, <1>12 DEF StagerInv

LEMMA SendChunkKeeps ==
  ASSUME StagerInv, SendChunk
  PROVE  StagerInv'
<1> DEFINE size == Offers[offer].size
           upTo == IF sent + Chunk < size THEN sent + Chunk ELSE size
           c == From(Image(Offers[offer].sends, upTo), sent)
<1>1. /\ StagerTyped /\ WireTyped /\ step = "entered" /\ offer \in DOMAIN Offers
      /\ link.rx \in Seq(Bytes) /\ toDevice \in Seq(Bytes) /\ Coming \in Seq(Bytes)
      /\ sent \in Nat /\ acked \in Nat /\ port = "linked"
  BY ComingTyped DEF StagerInv, StagerTyped, WireTyped, SendChunk
<1>2. /\ step' = step /\ sent' = upTo /\ toDevice' = toDevice \o c
      /\ offer' = offer /\ acked' = acked
      /\ link' = link /\ toHost' = toHost /\ configured' = configured
      /\ port' = port /\ stager' = stager
      /\ sent < size /\ acked = Chunks(sent) /\ (sent = 0 => toDevice = <<>>)
  BY DEF SendChunk
<1>3. size \in Nat /\ Offers[offer].sends \in DOMAIN Declared /\ Chunk \in Nat \ {0}
  BY <1>1, UpgradeAssumption
<1>4. upTo \in Nat /\ sent < upTo /\ upTo <= size
  BY <1>1, <1>2, <1>3
<1> HIDE DEF upTo
<1>5. /\ c \in Seq(Bytes) /\ Len(c) = upTo - sent /\ NoMagic(c)
      /\ \A i \in 1 .. Len(c) : c[i][1] \notin Frames
  <2>1. sent \in 0 .. upTo
    BY <1>1, <1>4
  <2> QED
    BY <1>3, <1>4, <2>1, ImageIs
<1> HIDE DEF c
<1>6. /\ Coming' = Coming \o c /\ toDevice' \in Seq(Bytes)
      /\ Silent' = Silent /\ Matches' = Matches /\ Verified' = Verified
  BY <1>1, <1>2, <1>5, ComingMore DEF Coming, Silent, Matches, Verified
<1>7. NoMagic(toDevice) => NoMagic(toDevice')
  BY <1>1, <1>2, <1>5, NoMagicJoin
<1>8. ASSUME sent = 0 PROVE Unheard' \/ Taking'
  <2>1. Offering /\ toDevice = <<>> /\ Coming = link.rx /\ acked' = 0 /\ toHost' = <<>>
    BY <1>1, <1>2, <1>8 DEF StagerInv, Coming, Offering
  <2>2. ~ToOffer(Len(Convo))
    <3>1. Convo \in Seq(Bytes) /\ Len(Convo) = Length[offer] + Length["enter"]
          /\ Length[offer] \in Nat /\ Length["enter"] \in Nat
      BY <1>1, ConvoIs DEF Convo
    <3>2. SubSeq(Convo, 1, Len(Convo)) = Convo
      BY <3>1, WholeIs
    <3> QED
      BY <1>1, <2>1, <3>1, <3>2 DEF ToOffer
  <2>3. ~ToEnter(Length["enter"])
    <3>1. Encoded("enter") \in Seq(Bytes) /\ Len(Encoded("enter")) = Length["enter"] /\ Length["enter"] \in Nat
      BY <1>1, ConvoIs
    <3>2. SubSeq(Encoded("enter"), 1, Len(Encoded("enter"))) = Encoded("enter")
      BY ONLY <3>1, WholeIs
    <3> QED
      BY <1>1, <2>1, <3>1, <3>2 DEF ToEnter
  <2>4. ASSUME Coming = <<>>, Silent PROVE Unheard'
    <3>1. Murk(Coming \o c) /\ NoMagic(Coming \o c)
      BY <1>1, <1>5, <2>4, NothingIsMurk, MurkMore
    <3>2. Murk(Coming') /\ NoMagic(Coming')
      BY <1>6, <3>1
    <3> QED
      BY <1>6, <2>1, <2>4, <3>2 DEF Unheard
  <2>5. ASSUME Coming = <<>>, link.linked, stager.state = "Streaming", Matches, stager.received = 0 PROVE Taking'
    <3>1. Murk(toDevice') /\ NoMagic(toDevice')
      BY <1>1, <1>2, <1>5, <2>1, NothingIsMurk, MurkMore
    <3>2. toDevice' = c
      BY <1>2, <1>5, <2>1
    <3>3. stager'.received + Len(toDevice') = sent'
      BY <1>2, <1>4, <1>5, <1>8, <2>5, <3>2
    <3>4. 0 \div Chunk = 0
      BY <1>3
    <3>5. acked' + Len(toHost') = stager'.received \div Chunk /\ \A i \in 1 .. Len(toHost') : toHost'[i] = Ack
      BY <1>2, <2>1, <2>5, <3>4
    <3>6. link'.linked /\ link'.rx = <<>> /\ Matches' /\ stager'.state = "Streaming"
      BY <1>2, <1>6, <2>1, <2>5
    <3> QED
      BY <3>1, <3>3, <3>5, <3>6 DEF Taking
  <2>6. ASSUME Silent, Doomed, NoMagic(toDevice) PROVE Unheard'
    <3>1. Doomed'
      BY <1>1, <1>2, <1>5, <2>6, DoomedMore
    <3> QED
      BY <1>6, <1>7, <2>1, <2>6, <3>1 DEF Unheard
  <2>7. ASSUME Silent, Deaf PROVE Unheard'
    <3>1. Deaf'
      BY <1>2, <1>7, <2>7 DEF Deaf
    <3> QED
      BY <1>6, <2>1, <2>7, <3>1 DEF Unheard
  <2> QED
    BY <1>1, <2>1, <2>2, <2>3, <2>4, <2>5, <2>6, <2>7 DEF Offering
<1>9. ASSUME sent > 0 PROVE Taking'
  <2>1. Taking /\ acked > 0
    <3>1. acked > 0
      BY <1>1, <1>2, <1>9, ChunksAre
    <3> QED
      BY <1>1, <1>9, <3>1 DEF StagerInv, Unheard
  <2>2. /\ link.linked /\ link.rx = <<>> /\ Matches /\ stager.state = "Streaming"
        /\ stager.received + Len(toDevice) = sent /\ Murk(toDevice) /\ NoMagic(toDevice)
        /\ acked + Len(toHost) = stager.received \div Chunk
        /\ \A i \in 1 .. Len(toHost) : toHost[i] = Ack
    BY <1>1, <1>2, <1>3, <2>1 DEF Taking
  <2>3. Murk(toDevice') /\ NoMagic(toDevice')
    BY <1>1, <1>2, <1>5, <2>2, MurkMore
  <2>4. stager'.received + Len(toDevice') = sent'
    <3>1. Len(toDevice') = Len(toDevice) + Len(c) /\ Len(toDevice) \in Nat
      <4>1. toDevice \in Seq(Bytes) /\ c \in Seq(Bytes)
        BY <1>1, <1>5
      <4>2. Len(toDevice \o c) = Len(toDevice) + Len(c) /\ Len(toDevice) \in Nat
        BY ONLY <4>1, JoinIs
      <4> QED
        BY <1>2, <4>2
    <3>2. stager.received \in Nat
      BY <1>1 DEF StagerTyped, OkStager
    <3>3. stager.received + (Len(toDevice) + Len(c)) = upTo
      <4>1. /\ sent \in Nat /\ upTo \in Nat /\ Len(c) = upTo - sent
            /\ stager.received \in Nat /\ Len(toDevice) \in Nat /\ stager.received + Len(toDevice) = sent
        BY <1>1, <1>4, <1>5, <2>2, <3>1, <3>2
      <4> QED
        BY ONLY <4>1
    <3> QED
      BY <1>2, <3>1, <3>3
  <2> QED
    BY <1>2, <1>6, <2>2, <2>3, <2>4 DEF Taking
<1>10. StagerTyped'
  BY <1>1, <1>2, <1>4, <1>6 DEF StagerTyped, WireTyped
<1>11. sent' > 0 /\ step' = "entered"
  BY <1>1, <1>2, <1>4
<1> QED
  BY <1>1, <1>8, <1>9, <1>10, <1>11 DEF StagerInv

LEMMA ReadAckKeeps ==
  ASSUME StagerInv, ReadAck
  PROVE  StagerInv'
<1>1. /\ StagerTyped /\ WireTyped /\ step = "entered" /\ offer \in DOMAIN Offers
      /\ sent \in Nat /\ acked \in Nat /\ OkStager(stager) /\ Offers[offer].size \in Nat
      /\ toHost \in Seq({MagicReply, Ack}) /\ toHost # <<>> /\ toHost' = Tail(toHost)
  BY UpgradeAssumption DEF StagerInv, StagerTyped, WireTyped, ReadAck
<1>2. sent > 0 /\ Taking
  BY <1>1 DEF StagerInv, Offering, Unheard
<1>3. /\ toHost' \in Seq({MagicReply, Ack}) /\ Len(toHost') = Len(toHost) - 1 /\ Len(toHost) \in Nat
      /\ Len(toHost) > 0 /\ Head(toHost) = toHost[1]
      /\ \A i \in 1 .. Len(toHost') : toHost'[i] = toHost[i + 1] /\ i + 1 \in 1 .. Len(toHost)
  BY <1>1, ShorterReplies
<1>4. Head(toHost) = Ack /\ \A i \in 1 .. Len(toHost') : toHost'[i] = Ack
  <2>1. \A i \in 1 .. Len(toHost) : toHost[i] = Ack
    BY <1>2 DEF Taking
  <2>2. 1 \in 1 .. Len(toHost)
    BY <1>3
  <2>3. Head(toHost) = Ack
    BY ONLY <1>3, <2>1, <2>2
  <2>4. ASSUME NEW i \in 1 .. Len(toHost') PROVE toHost'[i] = Ack
    BY ONLY <1>3, <2>1, i \in 1 .. Len(toHost')
  <2> QED
    BY ONLY <2>3, <2>4
<1>5. /\ acked' = acked + 1 /\ step' = IF acked' = Chunks(Offers[offer].size) THEN "done" ELSE step
      /\ offer' = offer /\ sent' = sent /\ link' = link /\ toDevice' = toDevice
      /\ configured' = configured /\ port' = port /\ stager' = stager
  BY <1>4 DEF ReadAck
<1>6. acked' + Len(toHost') = acked + Len(toHost) /\ acked' \in Nat
  BY <1>1, <1>3, <1>5
<1>7. Silent' = Silent /\ Matches' = Matches /\ Verified' = Verified
  BY <1>5 DEF Silent, Matches, Verified
<1>8. Taking'
  BY <1>2, <1>4, <1>5, <1>6, <1>7 DEF Taking
<1>9. StagerTyped'
  BY <1>1, <1>3, <1>5, <1>6 DEF StagerTyped, WireTyped
<1>10. ASSUME acked' = Chunks(Offers[offer].size) PROVE Done'
  <2> DEFINE size == Offers[offer].size
  <2>1. Matches /\ stager.size = size
    BY <1>2 DEF Taking, Matches
  <2>2. Len(toHost') \in Nat /\ Chunks(size) \in Nat
    BY <1>1, <1>3, ChunksAre
  <2>3. acked + Len(toHost) >= Chunks(size)
    BY <1>6, <1>10, <2>2
  <2>4. ~(stager.state = "Streaming" /\ acked + Len(toHost) = stager.received \div Chunk)
    <3>1. SUFFICES ASSUME stager.state = "Streaming", acked + Len(toHost) = stager.received \div Chunk
                   PROVE  FALSE
      OBVIOUS
    <3>2. stager.received \in Nat /\ stager.received < size
      BY <1>1, <2>1, <3>1 DEF OkStager
    <3>3. stager.received \div Chunk < Chunks(size)
      BY <1>1, <3>2, ChunksAre
    <3>4. stager.received \div Chunk \in Nat
      BY <3>2, ChunkIs, DivMono
    <3> QED
      BY <2>2, <2>3, <3>1, <3>3, <3>4
  <2>5. ~(acked + Len(toHost) < Chunks(stager.size))
    BY <1>1, <1>3, <2>1, <2>2, <2>3
  <2>6. Verified /\ toDevice = <<>> /\ acked + Len(toHost) = Chunks(size) /\ link.rx = <<>>
    BY <1>2, <2>1, <2>4, <2>5 DEF Taking
  <2>7. Len(toHost') = 0
    BY <1>1, <1>3, <1>6, <1>10, <2>2, <2>6
  <2>8. ~Replied'
    BY <2>7 DEF Replied
  <2>9. Coming' = <<>>
    BY <1>5, <2>6 DEF Coming
  <2> QED
    BY <1>7, <2>1, <2>6, <2>8, <2>9 DEF Done
<1> QED
  BY <1>1, <1>2, <1>5, <1>8, <1>9, <1>10 DEF StagerInv

LEMMA GiveUpKeeps ==
  ASSUME StagerInv, GiveUp
  PROVE  StagerInv'
<1>1. /\ StagerTyped /\ WireTyped /\ step = "entered" /\ offer \in DOMAIN Offers
      /\ sent \in Nat /\ acked \in Nat /\ OkStager(stager) /\ Offers[offer].size \in Nat
  BY UpgradeAssumption DEF StagerInv, StagerTyped, WireTyped, GiveUp
<1>2. /\ acked < Chunks(sent) /\ toDevice = <<>> /\ toHost = <<>>
      /\ step' = IF sent = Offers[offer].size /\ acked > 0 THEN "refused" ELSE "failed"
      /\ offer' = offer /\ sent' = sent /\ acked' = acked /\ link' = link /\ toDevice' = toDevice
      /\ toHost' = toHost /\ configured' = configured /\ port' = port /\ stager' = stager
  BY DEF GiveUp
<1>3. sent > 0
  BY <1>1, <1>2, ChunksAre
<1>4. /\ Silent' = Silent /\ Matches' = Matches /\ Verified' = Verified /\ Coming' = Coming
      /\ Doomed' = Doomed /\ Deaf' = Deaf
  BY <1>2 DEF Silent, Matches, Verified, Coming, Doomed, Deaf
<1>5. Unheard \/ Taking
  BY <1>1, <1>3 DEF StagerInv
<1>6. Unheard' \/ Taking'
  BY <1>2, <1>4, <1>5 DEF Unheard, Taking
<1>7. StagerTyped'
  BY <1>1, <1>2, <1>3 DEF StagerTyped, WireTyped
<1>8. ASSUME sent = Offers[offer].size, acked > 0 PROVE TurnedDown'
  <2>1. Taking
    BY <1>5, <1>8 DEF Unheard
  <2>2. stager.size = sent /\ Len(toHost) = 0 /\ link.linked /\ link.rx = <<>>
    BY <1>2, <1>8, <2>1 DEF Taking, Matches
  <2>3. ~(stager.state = "Streaming" /\ stager.received + Len(toDevice) = sent)
    <3>1. Len(toDevice) = 0
      BY <1>2
    <3> QED
      BY <1>1, <2>2, <3>1 DEF OkStager
  <2>4. ~(acked + Len(toHost) = Chunks(stager.size))
    <3>1. Chunks(sent) \in Nat
      BY <1>1, ChunksAre
    <3> QED
      BY <1>1, <1>2, <2>2, <3>1
  <2>5. Silent
    BY <2>1, <2>3, <2>4 DEF Taking
  <2>6. Coming = <<>>
    BY <1>2, <2>2 DEF Coming
  <2> QED
    BY <1>2, <1>4, <2>2, <2>5, <2>6 DEF TurnedDown
<1> QED
  BY <1>2, <1>3, <1>6, <1>7, <1>8 DEF StagerInv

-------------------------------------------------------------------------------
(* The device takes a packet.                                                *)
LEMMA WrittenOnly ==
  ASSUME NEW a, NEW q \in Seq({a}), NEW w \in Written(q)
  PROVE  w \in Seq({a})
<1>1. w = <<>> \/ w = q \/ \E n \in 0 .. Len(q) : w = SubSeq(q, 1, n)
  BY DEF Written
<1>2. ASSUME NEW n \in 0 .. Len(q) PROVE SubSeq(q, 1, n) \in Seq({a})
  BY PrefixIs
<1>3. CASE \E n \in 0 .. Len(q) : w = SubSeq(q, 1, n)
  <2>1. PICK n \in 0 .. Len(q) : w = SubSeq(q, 1, n)
    BY <1>3
  <2> QED
    BY <1>2, <2>1
<1>4. CASE w = <<>>
  <2>1. <<>> \in Seq({a})
    OBVIOUS
  <2> QED
    BY <1>4, <2>1
<1>5. CASE w = q
  BY <1>5
<1> QED
  BY <1>1, <1>3, <1>4, <1>5

LEMMA MoreReplies ==
  ASSUME NEW A, NEW a \in A, NEW t \in Seq(A), NEW w \in Seq({a})
  PROVE  /\ t \o w \in Seq(A) /\ Len(t \o w) = Len(t) + Len(w) /\ Len(t) \in Nat /\ Len(w) \in Nat
         /\ \A i \in 1 .. Len(t \o w) : (t \o w)[i] = a \/ \E j \in 1 .. Len(t) : (t \o w)[i] = t[j]
<1> DEFINE v == t \o w
<1>1. w \in Seq(A)
  OBVIOUS
<1>2. /\ v \in Seq(A) /\ Len(v) = Len(t) + Len(w)
      /\ \A i \in 1 .. Len(t) : v[i] = t[i]
      /\ \A i \in Len(t) + 1 .. Len(t) + Len(w) : v[i] = w[i - Len(t)]
  BY ONLY <1>1, t \in Seq(A), JoinIs
<1> HIDE DEF v
<1>3. Len(t) \in Nat /\ Len(w) \in Nat
  OBVIOUS
<1>4. ASSUME NEW i \in 1 .. Len(v) PROVE v[i] = a \/ \E j \in 1 .. Len(t) : v[i] = t[j]
  <2>1. CASE i \in 1 .. Len(t)
    BY <1>2, <2>1
  <2>2. CASE i \in Len(t) + 1 .. Len(t) + Len(w)
    <3>1. i - Len(t) \in 1 .. Len(w)
      BY <1>3, <2>2
    <3>2. w[i - Len(t)] = a
      BY <3>1
    <3> QED
      BY <1>2, <2>2, <3>2
  <2> QED
    BY <1>2, <1>3, <2>1, <2>2
<1> QED
  BY <1>2, <1>3, <1>4 DEF v

LEMMA StreamKeeps ==
  ASSUME StagerInv, NEW packet \in Packets, Stream(packet)
  PROVE  StagerInv'
<1> DEFINE fed == Feed(stager, packet)
           n == stager.received + Len(packet)
<1>1. /\ StagerTyped /\ WireTyped /\ OkStager(stager) /\ stager.state = "Streaming"
      /\ offer \in DOMAIN Offers /\ sent \in Nat /\ acked \in Nat /\ sent <= Offers[offer].size
      /\ link.rx \in Seq(Bytes) /\ toDevice \in Seq(Bytes) /\ toHost \in Seq({MagicReply, Ack})
      /\ step \in {"idle", "offered", "entered", "refused", "failed", "done"}
      /\ (step # "idle" => port = "linked" /\ configured)
      /\ Offers[offer].digest \in DOMAIN Declared /\ Offers[offer].size \in Nat
      /\ step \in {"offered", "failed"} => (sent > 0 <=> step = "failed")
  BY UpgradeAssumption DEF StagerInv, StagerTyped, WireTyped, Stream
<1>2. /\ stager' = fed.stager /\ toDevice' = From(toDevice, Len(packet))
      /\ link' = link /\ configured' = configured /\ port' = port
      /\ offer' = offer /\ step' = step /\ sent' = sent /\ acked' = acked
  BY DEF Stream, Rest, driverVars
<1>3. PICK w \in Written([i \in 1..fed.acks |-> Ack]) : toHost' = toHost \o w
  BY DEF Stream
<1>4. packet \in Seq(Bytes) /\ Len(packet) \in 1 .. Len(toDevice)
  <2>1. PICK k \in 1 .. PacketSize : k <= Len(toDevice) /\ packet = SubSeq(toDevice, 1, k)
    BY DEF Packets
  <2>2. k \in 0 .. Len(toDevice) /\ k \in 1 .. Len(toDevice)
    BY <1>1, <2>1, WireAssumption
  <2> QED
    BY <1>1, <2>1, <2>2, PrefixIs
<1>5. /\ OkStager(fed.stager) /\ fed.stager.size = stager.size /\ fed.stager.expected = stager.expected
      /\ n <= stager.size => fed.stager.received = n
      /\ \/ n > stager.size /\ fed.stager.state = "ExtraBytes" /\ fed.acks = 0
         \/ /\ n < stager.size /\ fed.stager.state = "Streaming"
            /\ fed.acks = n \div Chunk - stager.received \div Chunk
         \/ /\ n = stager.size /\ fed.stager.state = "Staged"
            /\ fed.acks = Chunks(stager.size) - stager.received \div Chunk
            /\ stager.expected \in DOMAIN Declared =>
                 /\ fed.stager.psram = Image(fed.stager.expected, fed.stager.size)
                 /\ Declared[fed.stager.expected] = fed.stager.size
         \/ n = stager.size /\ fed.stager.state \in {"LengthDisagreement", "Digest"} /\ fed.acks = 0
  BY <1>1, <1>4, FeedIs
<1>6. /\ stager.received \in Nat /\ stager.size \in Nat /\ stager.received < stager.size /\ n \in Nat
      /\ Len(packet) \in Nat \ {0} /\ Chunk \in Nat \ {0} /\ Len(toDevice) \in Nat
  BY <1>1, <1>4, ChunkIs DEF OkStager
<1>d. /\ stager.received \div Chunk <= n \div Chunk /\ n \div Chunk \in Nat /\ stager.received \div Chunk \in Nat
  <2>1. stager.received <= n
    BY <1>6
  <2> HIDE DEF n
  <2> QED
    BY <1>6, <2>1, DivMono
<1>7. fed.acks \in Nat
  <2>2. Chunks(stager.size) \in Nat /\ stager.received \div Chunk < Chunks(stager.size)
    BY <1>6, ChunksAre
  <2>3. n \div Chunk - stager.received \div Chunk \in Nat /\ Chunks(stager.size) - stager.received \div Chunk \in Nat
    BY <1>d, <2>2
  <2> QED
    BY <1>5, <2>3
<1> HIDE DEF fed, n
<1>8. [i \in 1..fed.acks |-> Ack] \in Seq({Ack}) /\ Len([i \in 1..fed.acks |-> Ack]) = fed.acks
  BY <1>7
<1>9. w \in Seq({Ack})
  BY <1>8, WrittenOnly
<1>10. /\ toHost' \in Seq({MagicReply, Ack}) /\ Len(toHost') = Len(toHost) + Len(w)
       /\ Len(toHost) \in Nat /\ Len(w) \in Nat
       /\ \A i \in 1 .. Len(toHost') : toHost'[i] = Ack \/ \E j \in 1 .. Len(toHost) : toHost'[i] = toHost[j]
  BY <1>1, <1>3, <1>9, MoreReplies
<1>11. Replied' => Replied
  <2>1. SUFFICES ASSUME Replied' PROVE Replied
    OBVIOUS
  <2>2. PICK i \in 1 .. Len(toHost') : toHost'[i] = MagicReply
    BY <2>1 DEF Replied, MagicReply
  <2>3. MagicReply # Ack
    BY DEF MagicReply, Ack
  <2>4. \E j \in 1 .. Len(toHost) : toHost'[i] = toHost[j]
    BY <1>10, <2>2, <2>3
  <2> QED
    BY <2>2, <2>4 DEF Replied
<1>12. /\ toDevice' \in Seq(Bytes) /\ Len(toDevice') = Len(toDevice) - Len(packet)
  <2>1. Len(packet) \in 0 .. Len(toDevice)
    BY <1>4
  <2> QED
    BY <1>1, <1>2, <2>1, FromIs
<1>13. StagerTyped'
  BY <1>1, <1>2, <1>5, <1>10, <1>12 DEF StagerTyped, WireTyped
<1>14. ~Silent
  BY <1>1 DEF Silent
<1>15. ASSUME step = "idle" PROVE AtRest'
  <2>1. Murk(Coming) /\ ~Replied /\ port # "linked"
    BY <1>14, <1>15 DEF StagerInv, AtRest, Between, Hushed
  <2>2. Murk(link.rx \o From(toDevice, Len(packet)))
    <3>1. Len(packet) \in 0 .. Len(toDevice) /\ Murk(link.rx \o toDevice)
      BY <1>4, <2>1 DEF Coming
    <3> QED
      BY <1>1, <3>1, MurkWithout
  <2>3. Murk(Coming')
    BY <1>2, <2>2 DEF Coming
  <2> QED
    BY <1>2, <1>11, <2>1, <2>3 DEF AtRest, Between
<1>16. step \notin {"refused", "done"}
  BY <1>1, <1>14 DEF StagerInv, TurnedDown, Done, Verified
<1>17. ~(step \in {"offered", "entered"} /\ sent = 0)
  <2>1. Coming # <<>>
    <3>1. Len(Coming) = Len(link.rx) + Len(toDevice) /\ Len(link.rx) \in Nat /\ Len(toDevice) > 0
      BY <1>1, <1>4, ComingTyped
    <3> QED
      BY <3>1
  <2> QED
    BY <1>14, <2>1 DEF StagerInv, Offering
<1>18. ASSUME step # "idle" PROVE Taking' /\ sent > 0 /\ step \in {"entered", "failed"}
  <2>1. sent > 0 /\ step \in {"entered", "failed"} /\ Taking
    BY <1>1, <1>14, <1>16, <1>17, <1>18 DEF StagerInv, Unheard
  <2>2. /\ link.linked /\ link.rx = <<>> /\ Matches
        /\ stager.received + Len(toDevice) = sent /\ Murk(toDevice) /\ NoMagic(toDevice)
        /\ acked + Len(toHost) = stager.received \div Chunk
        /\ \A i \in 1 .. Len(toHost) : toHost[i] = Ack
    BY <1>1, <1>14, <2>1 DEF Taking, Verified
  <2>3. stager.size = Offers[offer].size /\ stager.expected \in DOMAIN Declared
    BY <1>1, <2>2 DEF Matches
  <2>4. Matches' /\ \A i \in 1 .. Len(toHost') : toHost'[i] = Ack
    BY <1>2, <1>5, <1>10, <2>2 DEF Matches
  <2>5. Len(toHost') = Len(toHost) + fed.acks
    <3>1. w = [i \in 1..fed.acks |-> Ack]
      BY <1>1, <1>18 DEF Written
    <3> QED
      BY <1>8, <1>10, <3>1
  <2>6. n + Len(toDevice') = sent /\ Len(toDevice') \in Nat
    <3>1. /\ stager.received \in Nat /\ Len(packet) \in 1 .. Len(toDevice) /\ Len(toDevice) \in Nat /\ sent \in Nat
          /\ Len(toDevice') = Len(toDevice) - Len(packet) /\ stager.received + Len(toDevice) = sent
      BY <1>1, <1>4, <1>6, <1>12, <2>2
    <3> QED
      BY ONLY <3>1 DEF n
  <2>7. Murk(toDevice') /\ NoMagic(toDevice')
    <3>1. Len(packet) \in 0 .. Len(toDevice)
      BY <1>4
    <3>2. Murk(From(toDevice, Len(packet))) /\ NoMagic(From(toDevice, Len(packet)))
      BY <1>1, <2>2, <3>1, MurkFrom
    <3> QED
      BY <1>2, <3>2
  <2>8. n <= stager.size /\ stager'.received = n /\ stager'.size = stager.size
    BY <1>1, <1>2, <1>5, <1>6, <2>3, <2>6
  <2>9. n = stager.size => sent = Offers[offer].size /\ toDevice' = <<>>
    BY <1>1, <1>6, <1>12, <2>3, <2>6
  <2>10. acked + Len(toHost') = stager.received \div Chunk + fed.acks
    <3>1. /\ acked \in Nat /\ Len(toHost) \in Nat /\ fed.acks \in Nat
          /\ Len(toHost') = Len(toHost) + fed.acks /\ acked + Len(toHost) = stager.received \div Chunk
      BY <1>1, <1>7, <1>10, <2>2, <2>5
    <3> QED
      BY ONLY <3>1
  <2>11. /\ stager.received \div Chunk \in Nat /\ n \div Chunk \in Nat
         /\ Chunks(stager.size) \in Nat /\ stager.received \div Chunk < Chunks(stager.size)
    BY <1>6, <1>d, ChunksAre
  <2>12. link'.linked /\ link'.rx = <<>>
    BY <1>2, <2>2
  <2>13. CASE n < stager.size
    <3>1. fed.stager.state = "Streaming" /\ fed.acks = n \div Chunk - stager.received \div Chunk
      BY <1>5, <1>6, <2>13
    <3>2. acked' + Len(toHost') = stager'.received \div Chunk
      BY <1>2, <2>8, <2>10, <2>11, <3>1
    <3>3. stager'.received + Len(toDevice') = sent' /\ stager'.state = "Streaming"
      BY <1>2, <2>6, <2>8, <3>1
    <3> QED
      BY <2>1, <2>4, <2>7, <2>12, <3>2, <3>3 DEF Taking
  <2>14. CASE n = stager.size /\ fed.stager.state = "Staged"
    <3>1. /\ fed.acks = Chunks(stager.size) - stager.received \div Chunk
          /\ fed.stager.psram = Image(fed.stager.expected, fed.stager.size)
          /\ Declared[fed.stager.expected] = fed.stager.size
      BY <1>5, <1>6, <2>3, <2>14
    <3>2. Verified'
      BY <1>2, <2>14, <3>1 DEF Verified
    <3>3. acked' + Len(toHost') = Chunks(stager'.size)
      BY <1>2, <2>8, <2>10, <2>11, <3>1
    <3>4. toDevice' = <<>> /\ sent' = Offers[offer'].size
      BY <1>2, <2>9, <2>14
    <3> QED
      BY <2>1, <2>4, <2>12, <3>2, <3>3, <3>4 DEF Taking
  <2>15. CASE n = stager.size /\ fed.stager.state \in {"LengthDisagreement", "Digest"}
    <3>1. fed.acks = 0
      BY <1>5, <1>6, <2>15
    <3>2. acked' + Len(toHost') < Chunks(stager'.size)
      BY <1>2, <2>8, <2>10, <2>11, <3>1
    <3>3. toDevice' = <<>> /\ sent' = Offers[offer'].size
      BY <1>2, <2>9, <2>15
    <3>4. Silent'
      BY <1>2, <2>15 DEF Silent
    <3> QED
      BY <2>1, <2>4, <2>12, <3>2, <3>3, <3>4 DEF Taking
  <2> QED
    BY <1>5, <1>6, <2>8, <2>13, <2>14, <2>15
<1> QED
  BY <1>2, <1>13, <1>15, <1>18 DEF StagerInv

Listens(packet, r) ==
  /\ Silent /\ packet \in Packets /\ r \in Poll(link, packet)
  /\ link' = r.link /\ stager' \in Admitted(stager, r.frames) /\ toDevice' = Rest(packet)
  /\ \E w \in Written(IF ~r.err /\ "magic" \in Range(r.frames) THEN <<MagicReply>> ELSE <<>>) : toHost' = toHost \o w
  /\ configured' = configured /\ port' = port
  /\ offer' = offer /\ step' = step /\ sent' = sent /\ acked' = acked

LEMMA ListensTyped ==
  ASSUME StagerTyped, NEW packet, NEW r, Listens(packet, r)
  PROVE  /\ Coming' = r.link.rx \o Rest(packet) /\ LinkTyped(r.link)
         /\ r.frames \in Seq(Frames) /\ Len(r.frames) \in Nat /\ Rest(packet) \in Seq(Bytes)
         /\ packet \in Seq(Bytes) /\ Len(packet) \in 0 .. Len(toDevice) /\ Len(packet) > 0
         /\ \A i \in 1 .. Len(packet) : packet[i] = toDevice[i]
         /\ toDevice # <<>> /\ Coming # <<>> /\ toDevice \in Seq(Bytes)
         /\ (\A i \in 1 .. Len(r.frames) : r.frames[i] # "magic") => toHost' = toHost
         /\ Replied' => Replied \/ r.frames # <<>>
         /\ OkStager(stager') => StagerTyped'
<1>1. /\ WireTyped /\ HeldWell(link) /\ packet \in Packets /\ r \in Poll(link, packet) /\ toDevice \in Seq(Bytes)
      /\ toHost \in Seq({MagicReply, Ack}) /\ link.rx \in Seq(Bytes)
  BY DEF StagerTyped, Listens, WireTyped
<1>2. /\ link' = r.link /\ toDevice' = Rest(packet) /\ configured' = configured /\ port' = port
      /\ offer' = offer /\ step' = step /\ sent' = sent /\ acked' = acked
  BY DEF Listens
<1>3. LinkTyped(r.link) /\ Rest(packet) \in Seq(Bytes) /\ r.frames \in Seq(Frames) /\ Len(r.frames) \in Nat
  BY <1>1, PollCuts
<1>4. HeldWell(r.link)
  BY <1>1, PollIsWell
<1>5. packet \in Seq(Bytes) /\ Len(packet) \in 0 .. Len(toDevice) /\ \A i \in 1 .. Len(packet) : packet[i] = toDevice[i]
  BY <1>1, PacketIs
<1>6. Len(packet) > 0 /\ Len(Coming) > 0 /\ Len(toDevice) > 0
  <2>1. Len(packet) > 0
    BY <1>1, PacketAhead
  <2>2. Len(Coming) = Len(link.rx) + Len(toDevice) /\ Len(link.rx) \in Nat /\ Len(toDevice) \in Nat
    BY <1>1, ComingTyped
  <2> QED
    BY <1>5, <2>1, <2>2
<1>7. PICK w \in Written(IF ~r.err /\ "magic" \in Range(r.frames) THEN <<MagicReply>> ELSE <<>>) : toHost' = toHost \o w
  BY DEF Listens
<1>8. w \in Seq({MagicReply})
  <2>1. (IF ~r.err /\ "magic" \in Range(r.frames) THEN <<MagicReply>> ELSE <<>>) \in Seq({MagicReply})
    <3>1. <<MagicReply>> \in Seq({MagicReply}) /\ <<>> \in Seq({MagicReply})
      OBVIOUS
    <3> QED
      BY <3>1
  <2> QED
    BY <1>7, <2>1, WrittenOnly
<1>9. toHost' \in Seq({MagicReply, Ack})
  BY <1>1, <1>7, <1>8, MoreReplies
<1>10. ASSUME "magic" \notin Range(r.frames) PROVE toHost' = toHost
  <2>1. w \in Written(<<>>)
    BY <1>7, <1>10
  <2>2. w = <<>> \/ \E n \in 0 .. Len(<<>>) : w = SubSeq(<<>>, 1, n)
    BY <2>1 DEF Written
  <2>3. w = <<>>
    BY <2>2
  <2> QED
    BY <1>1, <1>7, <2>3
<1>11. (\A i \in 1 .. Len(r.frames) : r.frames[i] # "magic") => "magic" \notin Range(r.frames)
  BY <1>3 DEF Range
<1>12. r.frames = <<>> => toHost' = toHost
  <2>1. ASSUME r.frames = <<>> PROVE \A i \in 1 .. Len(r.frames) : r.frames[i] # "magic"
    BY <2>1
  <2> QED
    BY <1>10, <1>11, <2>1
<1>13. Replied' => Replied \/ r.frames # <<>>
  BY <1>12 DEF Replied
<1>14. Coming' = r.link.rx \o Rest(packet)
  BY <1>2 DEF Coming
<1>15. WireTyped'
  BY <1>2, <1>3 DEF WireTyped, LinkTyped
<1>16. OkStager(stager') => StagerTyped'
  BY <1>2, <1>4, <1>9, <1>15 DEF StagerTyped
<1> QED
  BY <1>1, <1>3, <1>5, <1>6, <1>10, <1>11, <1>13, <1>14, <1>16

\* Nothing is admitted of what holds no frame but magic.
LEMMA ListensQuietly ==
  ASSUME StagerTyped, NEW packet, NEW r, Listens(packet, r),
         \A i \in 1 .. Len(r.frames) : r.frames[i] = "magic"
  PROVE  stager' = stager /\ Silent' /\ OkStager(stager') /\ (r.frames = <<>> => toHost' = toHost)
<1>1. Len(r.frames) \in Nat /\ stager' \in Admitted(stager, r.frames) /\ Silent /\ OkStager(stager)
  BY ListensTyped DEF StagerTyped, Listens
<1>2. Admitted(stager, r.frames) = {stager}
  BY <1>1, AdmitsNothing
<1>3. stager' = stager
  BY <1>1, <1>2
<1>4. r.frames = <<>> => toHost' = toHost
  <2>1. ASSUME r.frames = <<>> PROVE \A i \in 1 .. Len(r.frames) : r.frames[i] # "magic"
    BY <2>1
  <2> QED
    BY <2>1, ListensTyped
<1> QED
  BY <1>1, <1>3, <1>4 DEF Silent

LEMMA ListensDeaf ==
  ASSUME StagerTyped, NEW packet, NEW r, Listens(packet, r), Deaf
  PROVE  r.frames = <<>> /\ Deaf'
<1>1. /\ WireTyped /\ HeldWell(link) /\ packet \in Packets /\ r \in Poll(link, packet)
      /\ ~link.linked /\ NoMagic(toDevice) /\ toDevice \in Seq(Bytes)
      /\ link' = r.link /\ toDevice' = From(toDevice, Len(packet))
  BY DEF StagerTyped, Listens, WireTyped, Deaf, Rest
<1>2. Len(packet) \in 0 .. Len(toDevice) /\ \A i \in 1 .. Len(packet) : packet[i] = toDevice[i]
  BY ListensTyped
<1>3. NoMagic(packet)
  <2>1. ASSUME NEW i \in 1 .. Len(packet) PROVE packet[i][1] # "magic"
    <3>1. i \in 1 .. Len(toDevice)
      BY <1>1, <1>2
    <3> QED
      BY <1>1, <1>2, <3>1 DEF NoMagic
  <2> QED
    BY <2>1 DEF NoMagic
<1>4. r.frames = <<>> /\ ~r.link.linked
  BY <1>1, <1>3, DeafPoll
<1>5. NoMagic(From(toDevice, Len(packet)))
  BY <1>1, <1>2, MurkFrom
<1>6. ~link'.linked /\ NoMagic(toDevice')
  BY <1>1, <1>4, <1>5
<1> QED
  BY <1>4, <1>6 DEF Deaf

LEMMA ListensDoomed ==
  ASSUME StagerTyped, NEW packet, NEW r, Listens(packet, r), Doomed
  PROVE  /\ r.frames = <<>>
         /\ Doomed' \/ (~link'.linked /\ Coming' = toDevice')
         /\ AllMagic(toDevice) => AllMagic(toDevice')
         /\ NoMagic(toDevice) => NoMagic(toDevice')
<1>1. /\ WireTyped /\ packet \in Packets /\ r \in Poll(link, packet) /\ toDevice \in Seq(Bytes)
      /\ link.rx \in Seq(Bytes)
      /\ link' = r.link /\ toDevice' = From(toDevice, Len(packet)) /\ toDevice' = Rest(packet)
  BY DEF StagerTyped, Listens, WireTyped, Rest
<1>2. /\ Len(packet) \in 0 .. Len(toDevice) /\ Coming' = r.link.rx \o Rest(packet) /\ LinkTyped(r.link)
      /\ packet \in Seq(Bytes) /\ Rest(packet) \in Seq(Bytes)
  BY ListensTyped
<1>3. /\ r.frames = <<>>
      /\ \/ /\ r.link.linked /\ r.link.rx = link.rx \o packet
            /\ Len(r.link.rx) < Length["magic"] /\ r.link.rx \o Rest(packet) = Coming
         \/ ~r.link.linked
  BY <1>1, DoomedPoll
<1>4. /\ AllMagic(toDevice) => AllMagic(toDevice')
      /\ NoMagic(toDevice) => NoMagic(toDevice')
  BY <1>1, <1>2, MurkFrom
<1>5. ASSUME r.link.linked PROVE Doomed'
  <2>1. /\ r.link.rx = link.rx \o packet /\ Len(r.link.rx) < Length["magic"] /\ Coming' = Coming
    BY <1>2, <1>3, <1>5
  <2>2. link.rx # <<>> /\ link.rx[1] = <<"magic", 1>>
    BY DEF Doomed
  <2>3. link'.rx # <<>> /\ link'.rx[1] = <<"magic", 1>> /\ Len(link'.rx) < Length["magic"]
    <3>1. /\ Len(link.rx \o packet) = Len(link.rx) + Len(packet) /\ Len(link.rx) \in Nat \ {0} /\ Len(packet) \in Nat
          /\ \A i \in 1 .. Len(link.rx) : (link.rx \o packet)[i] = link.rx[i]
      BY <1>1, <1>2, <2>2, JoinIs
    <3>2. (link.rx \o packet)[1] = link.rx[1] /\ link.rx \o packet # <<>>
      BY <3>1
    <3> QED
      BY <1>1, <2>1, <2>2, <3>2
  <2>4. \E i \in 1 .. Len(Coming') : /\ i <= Length["magic"] /\ Coming'[i][1] # "magic"
                                     /\ \A j \in 1 .. i - 1 : Coming'[j][1] = "magic"
    BY <2>1 DEF Doomed
  <2> QED
    BY <1>1, <1>5, <2>3, <2>4 DEF Doomed
<1>6. ASSUME ~r.link.linked PROVE ~link'.linked /\ Coming' = toDevice'
  <2>1. r.link.rx = <<>>
    BY <1>2, <1>6 DEF LinkTyped
  <2> QED
    BY <1>1, <1>2, <1>6, <2>1
<1> QED
  BY <1>3, <1>4, <1>5, <1>6

\* What is offered is read whole, and the order to enter behind it, or not yet.
LEMMA ListensToOffer ==
  ASSUME StagerTyped, NEW packet, NEW r, Listens(packet, r), NEW n \in 0 .. Len(Convo), ToOffer(n)
  PROVE  /\ toHost' = toHost /\ OkStager(stager')
         /\ \/ stager' = stager /\ Silent' /\ ToOffer(n)'
            \/ /\ Silent' /\ (stager'.state = "Prepared" => Matches') /\ Length[offer] <= n
               /\ ToEnter(n - Length[offer])'
            \/ /\ n = Len(Convo) /\ Coming' = <<>> /\ link'.linked
               /\ Silent' \/ (stager'.state = "Streaming" /\ Matches' /\ stager'.received = 0)
<1>1. /\ WireTyped /\ packet \in Packets /\ r \in Poll(link, packet) /\ offer \in DOMAIN Offers
      /\ link' = r.link /\ stager' \in Admitted(stager, r.frames) /\ OkStager(stager) /\ offer' = offer
  BY DEF StagerTyped, Listens
<1>2. Coming' = r.link.rx \o Rest(packet) /\ Convo' = Convo
  BY <1>1, ListensTyped DEF Convo
<1>3. /\ offer # "magic" /\ "enter" # "magic" /\ Len(Convo) \in Nat
      /\ Length[offer] \in Nat \ {0} /\ Length["enter"] \in Nat \ {0}
      /\ Len(Convo) = Length[offer] + Length["enter"]
  BY <1>1, ConvoNow
<1>4. n \in Nat
  BY <1>3
<1>5. /\ r.link.linked
      /\ \/ r.frames = <<>> /\ Coming' = SubSeq(Convo, 1, n) /\ Len(r.link.rx) < Length[offer]
         \/ /\ Length[offer] <= n /\ r.frames = <<offer>> /\ Len(r.link.rx) < Length["enter"]
            /\ Coming' = SubSeq(Encoded("enter"), 1, n - Length[offer])
         \/ r.frames = <<offer, "enter">> /\ r.link.rx = <<>> /\ Coming' = <<>> /\ n = Len(Convo)
  BY <1>1, <1>2, <1>4, ToOfferPoll
<1>6. CASE r.frames = <<>> /\ Coming' = SubSeq(Convo, 1, n) /\ Len(r.link.rx) < Length[offer]
  <2>1. \A i \in 1 .. Len(r.frames) : r.frames[i] = "magic"
    BY <1>6
  <2>2. stager' = stager /\ Silent' /\ OkStager(stager') /\ toHost' = toHost
    BY <1>6, <2>1, ListensQuietly
  <2>3. link'.linked /\ n <= Len(Convo') /\ Coming' = SubSeq(Convo', 1, n) /\ Len(link'.rx) < Length[offer']
    BY <1>1, <1>2, <1>3, <1>5, <1>6
  <2>4. ToOffer(n)'
    BY <2>3 DEF ToOffer
  <2> QED
    BY <2>2, <2>4
<1>7. CASE /\ Length[offer] <= n /\ r.frames = <<offer>> /\ Len(r.link.rx) < Length["enter"]
           /\ Coming' = SubSeq(Encoded("enter"), 1, n - Length[offer])
  <2>1. stager' \in Admit(stager, offer)
    BY <1>1, <1>7, AdmitsOne
  <2>2. /\ OkStager(stager') /\ stager'.state \notin {"Streaming", "Staged"}
        /\ stager'.state = "Prepared" => stager'.size = Offers[offer].size /\ stager'.expected = Offers[offer].digest
    BY <1>1, <2>1, AdmitsOffer
  <2>3. toHost' = toHost
    <3>1. \A i \in 1 .. Len(r.frames) : r.frames[i] # "magic"
      BY <1>3, <1>7
    <3> QED
      BY <3>1, ListensTyped
  <2>4. n - Length[offer] <= Length["enter"]
    BY <1>3, <1>4
  <2>5. link'.linked /\ Len(link'.rx) < Length["enter"]
    BY <1>1, <1>5, <1>7
  <2>6. PICK m \in Int : m = n - Length[offer]
    BY <1>3, <1>4
  <2>7. ToEnter(m)'
    BY <1>7, <2>4, <2>5, <2>6 DEF ToEnter
  <2>8. Silent' /\ (stager'.state = "Prepared" => Matches')
    BY <1>1, <2>2 DEF Silent, Matches
  <2>9. ToEnter(n - Length[offer])'
    BY <1>1, <1>7, <2>4, <2>5 DEF ToEnter
  <2> QED
    BY <1>7, <2>2, <2>3, <2>8, <2>9
<1>8. CASE r.frames = <<offer, "enter">> /\ r.link.rx = <<>> /\ Coming' = <<>> /\ n = Len(Convo)
  <2>1. stager' \in UNION {Admit(s, "enter") : s \in Admit(stager, offer)}
    BY <1>1, <1>8, AdmitsTwo
  <2>2. PICK s \in Admit(stager, offer) : stager' \in Admit(s, "enter")
    BY <2>1
  <2>3. /\ OkStager(s) /\ (s.state = "Prepared" => s.size = Offers[offer].size /\ s.expected = Offers[offer].digest)
    BY <1>1, <2>2, AdmitsOffer
  <2>4. /\ OkStager(stager') /\ stager'.size = s.size /\ stager'.expected = s.expected
        /\ \/ s.state = "Prepared" /\ stager'.state = "Streaming" /\ stager'.received = 0
           \/ s.state # "Prepared" /\ stager'.state = "OutOfOrder"
    BY <2>2, <2>3, AdmitsEnter
  <2>5. toHost' = toHost
    <3>1. \A i \in 1 .. Len(r.frames) : r.frames[i] # "magic"
      BY <1>3, <1>8
    <3> QED
      BY <3>1, ListensTyped
  <2>6. Silent' \/ (stager'.state = "Streaming" /\ Matches' /\ stager'.received = 0)
    BY <1>1, <2>3, <2>4 DEF Silent, Matches
  <2> QED
    BY <1>1, <1>5, <1>8, <2>4, <2>5, <2>6
<1> QED
  BY <1>5, <1>6, <1>7, <1>8

LEMMA ListensToEnter ==
  ASSUME StagerTyped, NEW packet, NEW r, Listens(packet, r), NEW n \in Nat, ToEnter(n)
  PROVE  /\ toHost' = toHost /\ OkStager(stager')
         /\ \/ stager' = stager /\ Silent' /\ ToEnter(n)'
            \/ /\ n = Length["enter"] /\ Coming' = <<>> /\ link'.linked
               /\ \/ Silent' /\ stager'.state # "Prepared"
                  \/ /\ stager'.state = "Streaming" /\ stager.state = "Prepared" /\ stager'.received = 0
                     /\ stager'.size = stager.size /\ stager'.expected = stager.expected
<1>1. /\ WireTyped /\ packet \in Packets /\ r \in Poll(link, packet) /\ offer \in DOMAIN Offers
      /\ link' = r.link /\ stager' \in Admitted(stager, r.frames) /\ OkStager(stager) /\ offer' = offer
  BY DEF StagerTyped, Listens
<1>2. Coming' = r.link.rx \o Rest(packet) /\ "enter" # "magic" /\ n <= Length["enter"]
  BY <1>1, ListensTyped, ConvoNow DEF ToEnter
<1>3. /\ r.link.linked
      /\ \/ r.frames = <<>> /\ Coming' = SubSeq(Encoded("enter"), 1, n) /\ Len(r.link.rx) < Length["enter"]
         \/ r.frames = <<"enter">> /\ r.link.rx = <<>> /\ Coming' = <<>> /\ n = Length["enter"]
  BY <1>1, <1>2, ToEnterPoll
<1>4. CASE r.frames = <<>> /\ Coming' = SubSeq(Encoded("enter"), 1, n) /\ Len(r.link.rx) < Length["enter"]
  <2>1. \A i \in 1 .. Len(r.frames) : r.frames[i] = "magic"
    BY <1>4
  <2>2. stager' = stager /\ Silent' /\ OkStager(stager') /\ toHost' = toHost
    BY <1>4, <2>1, ListensQuietly
  <2>3. ToEnter(n)'
    BY <1>1, <1>2, <1>3, <1>4 DEF ToEnter
  <2> QED
    BY <2>2, <2>3
<1>5. CASE r.frames = <<"enter">> /\ r.link.rx = <<>> /\ Coming' = <<>> /\ n = Length["enter"]
  <2>1. stager' \in Admit(stager, "enter")
    BY <1>1, <1>5, AdmitsOne
  <2>2. /\ OkStager(stager') /\ stager'.size = stager.size /\ stager'.expected = stager.expected
        /\ \/ stager.state = "Prepared" /\ stager'.state = "Streaming" /\ stager'.received = 0
           \/ stager.state # "Prepared" /\ stager'.state = "OutOfOrder"
    BY <1>1, <2>1, AdmitsEnter
  <2>3. toHost' = toHost
    <3>1. \A i \in 1 .. Len(r.frames) : r.frames[i] # "magic"
      BY <1>2, <1>5
    <3> QED
      BY <3>1, ListensTyped
  <2> QED
    BY <1>1, <1>3, <1>5, <2>2, <2>3 DEF Silent
<1> QED
  BY <1>3, <1>4, <1>5

\* At rest the listener reads magic, or what a driver that hung up has left.
LEMMA ListensAtRest ==
  ASSUME StagerInv, step = "idle", NEW packet, NEW r, Listens(packet, r)
  PROVE  StagerInv'
<1>1. /\ StagerTyped /\ WireTyped /\ HeldWell(link) /\ AtRest /\ offer \in DOMAIN Offers
      /\ Silent /\ packet \in Packets /\ r \in Poll(link, packet) /\ Coming \in Seq(Bytes)
  BY ComingTyped DEF StagerInv, StagerTyped, Listens
<1>2. step' = "idle" /\ port' = port /\ toDevice' = Rest(packet) /\ link' = r.link /\ offer' = offer
  BY DEF Listens
<1>3. /\ Coming' = r.link.rx \o Rest(packet)
      /\ Replied' => Replied \/ r.frames # <<>>
      /\ OkStager(stager') => StagerTyped'
  BY <1>1, ListensTyped
<1>4. ASSUME Murk(Coming) PROVE StagerInv'
  <2>1. /\ Murk(Coming') /\ (AllMagic(Coming) => AllMagic(Coming'))
        /\ \A i \in 1 .. Len(r.frames) : r.frames[i] = "magic"
        /\ r.frames # <<>> => AllMagic(Coming')
    BY <1>1, <1>3, <1>4, MurkPoll
  <2>2. stager' = stager /\ Silent' /\ OkStager(stager')
    BY <1>1, <2>1, ListensQuietly
  <2>3. Replied' \/ port' = "linked" => Hushed'
    BY <1>1, <1>2, <1>3, <2>1, <2>2 DEF AtRest, Hushed
  <2>4. AtRest'
    BY <2>1, <2>3 DEF AtRest, Between
  <2> QED
    BY <1>2, <1>3, <2>2, <2>4, TypedAtRest
<1>5. ASSUME ~Murk(Coming) PROVE StagerInv'
  <2>1. ~Replied /\ port # "linked"
    <3>1. ~AllMagic(Coming)
      BY <1>5, AllMagicIsMurk
    <3> QED
      BY <1>1, <3>1 DEF AtRest, Hushed
  <2>2. ASSUME Between', toHost' = toHost, OkStager(stager') PROVE StagerInv'
    <3>1. ~Replied' /\ port' # "linked"
      BY <1>2, <2>1, <2>2 DEF Replied
    <3>2. AtRest'
      BY <2>2, <3>1 DEF AtRest
    <3> QED
      BY <1>2, <1>3, <2>2, <3>2, TypedAtRest
  <2>3. ASSUME r.frames = <<>> PROVE stager' = stager /\ Silent' /\ OkStager(stager') /\ toHost' = toHost
    <3>1. \A i \in 1 .. Len(r.frames) : r.frames[i] = "magic"
      BY <2>3
    <3> QED
      BY <1>1, <2>3, <3>1, ListensQuietly
  <2>4. ASSUME Coming' = <<>> PROVE Between'
    BY <2>4, NothingIsMurk DEF Between
  <2>5. ASSUME port = "closed", Deaf PROVE StagerInv'
    <3>1. r.frames = <<>> /\ Deaf'
      BY <1>1, <2>5, ListensDeaf
    <3>2. Silent' /\ OkStager(stager') /\ toHost' = toHost
      BY <2>3, <3>1
    <3>3. Between'
      BY <1>2, <2>5, <3>1, <3>2 DEF Between
    <3> QED
      BY <2>2, <3>2, <3>3
  <2>c. /\ Length[offer] \in Nat \ {0} /\ Length["enter"] \in Nat \ {0} /\ Len(Convo) \in Nat
        /\ Len(Convo) = Length[offer] + Length["enter"] /\ Convo' = Convo
    BY <1>1, <1>2, ConvoNow DEF Convo
  <2>6. ASSUME port = "closed", NEW n \in 0 .. Len(Convo), ToOffer(n) PROVE StagerInv'
    <3>1. /\ toHost' = toHost /\ OkStager(stager')
          /\ \/ Silent' /\ ToOffer(n)'
             \/ Silent' /\ Length[offer] <= n /\ ToEnter(n - Length[offer])'
             \/ Coming' = <<>>
      BY <1>1, <2>6, ListensToOffer
    <3>2. ASSUME Silent', ToOffer(n)' PROVE Between'
      BY <1>2, <2>6, <2>c, <3>2 DEF Between
    <3>3. ASSUME Silent', Length[offer] <= n, ToEnter(n - Length[offer])' PROVE Between'
      <4>1. PICK m \in 0 .. Len(Convo) : m = n - Length[offer]
        BY <2>c, <3>3
      <4>2. ToEnter(m)'
        BY <1>2, <3>3, <4>1 DEF ToEnter
      <4> QED
        BY <1>2, <2>6, <2>c, <3>3, <4>2 DEF Between
    <3> QED
      BY <2>2, <2>4, <3>1, <3>2, <3>3
  <2>7. ASSUME port = "closed", NEW n \in 0 .. Len(Convo), ToEnter(n) PROVE StagerInv'
    <3>1. n \in Nat
      BY <2>c
    <3>2. /\ toHost' = toHost /\ OkStager(stager')
          /\ (Silent' /\ ToEnter(n)') \/ Coming' = <<>>
      BY <1>1, <2>7, <3>1, ListensToEnter
    <3>3. ASSUME Silent', ToEnter(n)' PROVE Between'
      BY <1>2, <2>7, <2>c, <3>3 DEF Between
    <3> QED
      BY <2>2, <2>4, <3>2, <3>3
  <2>8. ASSUME Doomed, AllMagic(toDevice) \/ (port = "closed" /\ NoMagic(toDevice)) PROVE StagerInv'
    <3>1. /\ r.frames = <<>>
          /\ Doomed' \/ (~link'.linked /\ Coming' = toDevice')
          /\ AllMagic(toDevice) => AllMagic(toDevice')
          /\ NoMagic(toDevice) => NoMagic(toDevice')
      BY <1>1, <2>8, ListensDoomed
    <3>2. Silent' /\ OkStager(stager') /\ toHost' = toHost
      BY <2>3, <3>1
    <3>3. AllMagic(toDevice') \/ (port' = "closed" /\ NoMagic(toDevice'))
      BY <1>2, <2>8, <3>1
    <3>4. ASSUME Doomed' PROVE Between'
      BY <3>2, <3>3, <3>4 DEF Between
    <3>5. ASSUME ~link'.linked, Coming' = toDevice' PROVE Between'
      <4>1. CASE AllMagic(toDevice')
        <5>1. Murk(Coming')
          BY <3>5, <4>1, AllMagicIsMurk
        <5> QED
          BY <5>1 DEF Between
      <4>2. CASE port' = "closed" /\ NoMagic(toDevice')
        BY <3>2, <3>5, <4>2 DEF Between, Deaf
      <4> QED
        BY <3>3, <4>1, <4>2
    <3> QED
      BY <2>2, <3>1, <3>2, <3>4, <3>5
  <2> QED
    BY <1>1, <1>5, <2>5, <2>6, <2>7, <2>8 DEF AtRest, Between
<1> QED
  BY <1>4, <1>5

\* The offer and the order to enter are read, whatever the packets.
LEMMA ListensToDriver ==
  ASSUME StagerInv, step \in {"offered", "entered"}, sent = 0, NEW packet, NEW r, Listens(packet, r)
  PROVE  StagerInv'
<1>1. /\ StagerTyped /\ Silent /\ Offering /\ Coming # <<>> /\ offer \in DOMAIN Offers
      /\ (OkStager(stager') => StagerTyped') /\ toHost = <<>> /\ acked = 0
  BY ListensTyped DEF StagerInv, StagerTyped, Listens, Offering
<1>2. step' = step /\ acked' = 0 /\ sent' = 0 /\ offer' = offer
  BY <1>1 DEF Listens
<1>c. /\ Length[offer] \in Nat \ {0} /\ Length["enter"] \in Nat \ {0} /\ Len(Convo) \in Nat
      /\ Len(Convo) = Length[offer] + Length["enter"] /\ Convo' = Convo
  BY <1>1, <1>2, ConvoNow DEF Convo
<1>3. ASSUME Offering', OkStager(stager') PROVE StagerInv'
  <2>1. StagerTyped' /\ step' \in {"offered", "entered"} /\ sent' = 0
    BY <1>1, <1>2, <1>3
  <2> QED
    BY <1>3, <2>1 DEF StagerInv
<1>4. ASSUME r.frames = <<>> PROVE stager' = stager /\ Silent' /\ OkStager(stager') /\ toHost' = toHost
  <2>1. \A i \in 1 .. Len(r.frames) : r.frames[i] = "magic"
    BY <1>4
  <2> QED
    BY <1>1, <1>4, <2>1, ListensQuietly
<1>5. ASSUME ToOffer(IF step = "entered" THEN Len(Convo) ELSE Length[offer]) PROVE StagerInv'
  <2>1. PICK n \in 0 .. Len(Convo) : n = IF step = "entered" THEN Len(Convo) ELSE Length[offer]
    BY <1>c
  <2>2. ToOffer(n)
    BY <1>5, <2>1
  <2>3. /\ toHost' = toHost /\ OkStager(stager')
        /\ \/ stager' = stager /\ Silent' /\ ToOffer(n)'
           \/ /\ Silent' /\ (stager'.state = "Prepared" => Matches') /\ Length[offer] <= n
              /\ ToEnter(n - Length[offer])'
           \/ /\ n = Len(Convo) /\ Coming' = <<>> /\ link'.linked
              /\ Silent' \/ (stager'.state = "Streaming" /\ Matches' /\ stager'.received = 0)
    BY <1>1, <2>2, ListensToOffer
  <2>4. ASSUME Silent', ToOffer(n)' PROVE Offering'
    <3>1. n = IF step' = "entered" THEN Len(Convo') ELSE Length[offer']
      BY <1>2, <1>c, <2>1
    <3>2. link'.linked /\ n <= Len(Convo') /\ Coming' = SubSeq(Convo', 1, n) /\ Len(link'.rx) < Length[offer']
      BY <2>4 DEF ToOffer
    <3> QED
      BY <1>1, <1>2, <2>3, <2>4, <3>1, <3>2 DEF Offering, ToOffer
  <2>5. ASSUME Silent', stager'.state = "Prepared" => Matches', ToEnter(n - Length[offer])' PROVE Offering'
    <3>1. PICK m \in Int : m = IF step' = "entered" THEN Length["enter"] ELSE 0
      BY <1>c
    <3>2. n - Length[offer'] = m
      BY <1>2, <1>c, <2>1, <3>1
    <3>3. link'.linked /\ m <= Length["enter"] /\ Coming' = SubSeq(Encoded("enter"), 1, m) /\ Len(link'.rx) < Length["enter"]
      BY <2>5, <3>2 DEF ToEnter
    <3> QED
      BY <1>1, <1>2, <2>3, <2>5, <3>1, <3>3 DEF Offering, ToEnter
  <2>6. ASSUME n = Len(Convo), Coming' = <<>>, link'.linked,
               Silent' \/ (stager'.state = "Streaming" /\ Matches' /\ stager'.received = 0)
        PROVE  Offering'
    <3>1. step' = "entered"
      BY <1>2, <1>c, <2>1, <2>6
    <3> QED
      BY <1>1, <1>2, <2>3, <2>6, <3>1 DEF Offering
  <2> QED
    BY <1>3, <2>3, <2>4, <2>5, <2>6
<1>6. ASSUME ToEnter(IF step = "entered" THEN Length["enter"] ELSE 0), stager.state = "Prepared" => Matches
      PROVE  StagerInv'
  <2>1. PICK n \in Nat : n = IF step = "entered" THEN Length["enter"] ELSE 0
    BY <1>c
  <2>2. ToEnter(n)
    BY <1>6, <2>1
  <2>3. /\ toHost' = toHost /\ OkStager(stager')
        /\ \/ stager' = stager /\ Silent' /\ ToEnter(n)'
           \/ /\ n = Length["enter"] /\ Coming' = <<>> /\ link'.linked
              /\ \/ Silent' /\ stager'.state # "Prepared"
                 \/ /\ stager'.state = "Streaming" /\ stager.state = "Prepared" /\ stager'.received = 0
                    /\ stager'.size = stager.size /\ stager'.expected = stager.expected
    BY <1>1, <2>2, ListensToEnter
  <2>4. ASSUME stager' = stager, Silent', ToEnter(n)' PROVE Offering'
    <3>1. n = IF step' = "entered" THEN Length["enter"] ELSE 0
      BY <1>2, <2>1
    <3>2. link'.linked /\ n <= Length["enter"] /\ Coming' = SubSeq(Encoded("enter"), 1, n) /\ Len(link'.rx) < Length["enter"]
      BY <2>4 DEF ToEnter
    <3>3. stager'.state = "Prepared" => Matches'
      BY <1>2, <1>6, <2>4 DEF Matches
    <3> QED
      BY <1>1, <1>2, <2>3, <2>4, <3>1, <3>2, <3>3 DEF Offering, ToEnter
  <2>5. ASSUME n = Length["enter"], Coming' = <<>>, link'.linked,
               \/ Silent' /\ stager'.state # "Prepared"
               \/ /\ stager'.state = "Streaming" /\ stager.state = "Prepared" /\ stager'.received = 0
                  /\ stager'.size = stager.size /\ stager'.expected = stager.expected
        PROVE  Offering'
    <3>1. step' = "entered"
      BY <1>2, <1>c, <2>1, <2>5
    <3>2. Silent' \/ (stager'.state = "Streaming" /\ Matches' /\ stager'.received = 0)
      BY <1>2, <1>6, <2>5 DEF Matches
    <3> QED
      BY <1>1, <1>2, <2>3, <2>5, <3>1, <3>2 DEF Offering
  <2> QED
    BY <1>3, <2>3, <2>4, <2>5
<1>7. ASSUME Doomed, NoMagic(toDevice) PROVE StagerInv'
  <2>1. /\ r.frames = <<>>
        /\ Doomed' \/ (~link'.linked /\ Coming' = toDevice')
        /\ NoMagic(toDevice')
    BY <1>1, <1>7, ListensDoomed
  <2>2. Silent' /\ OkStager(stager') /\ toHost' = <<>>
    BY <1>1, <1>4, <2>1
  <2>3. Offering'
    BY <1>2, <2>1, <2>2 DEF Offering, Deaf
  <2> QED
    BY <1>3, <2>2, <2>3
<1>8. ASSUME Deaf PROVE StagerInv'
  <2>1. r.frames = <<>> /\ Deaf'
    BY <1>1, <1>8, ListensDeaf
  <2>2. Silent' /\ OkStager(stager') /\ toHost' = <<>>
    BY <1>1, <1>4, <2>1
  <2>3. Offering'
    BY <1>2, <2>1, <2>2 DEF Offering
  <2> QED
    BY <1>3, <2>2, <2>3
<1> QED
  BY <1>1, <1>5, <1>6, <1>7, <1>8 DEF Offering

\* An image that is not being staged goes by unheard.
LEMMA ListensToImage ==
  ASSUME StagerInv, step \in {"entered", "failed"}, sent > 0, NEW packet, NEW r, Listens(packet, r)
  PROVE  StagerInv'
<1>1. /\ StagerTyped /\ WireTyped /\ HeldWell(link) /\ Silent /\ toDevice # <<>>
      /\ (OkStager(stager') => StagerTyped')
      /\ packet \in Packets /\ r \in Poll(link, packet) /\ Coming' = r.link.rx \o Rest(packet)
  BY ListensTyped DEF StagerInv, StagerTyped, Listens
<1>2. step' = step /\ acked' = acked /\ sent' = sent
  BY DEF Listens
<1>3. Unheard /\ acked = 0 /\ toHost = <<>>
  BY <1>1 DEF StagerInv, Unheard, Taking, Verified, Silent
<1>4. ASSUME r.frames = <<>> PROVE Silent' /\ OkStager(stager') /\ toHost' = <<>>
  <2>1. \A i \in 1 .. Len(r.frames) : r.frames[i] = "magic"
    BY <1>4
  <2> QED
    BY <1>1, <1>3, <1>4, <2>1, ListensQuietly
<1>5. ASSUME Unheard', OkStager(stager') PROVE StagerInv'
  <2>1. StagerTyped' /\ step' \in {"entered", "failed"} /\ ~(sent' = 0)
    BY <1>1, <1>2, <1>5
  <2> QED
    BY <1>5, <2>1 DEF StagerInv
<1>6. ASSUME Murk(Coming), NoMagic(Coming) PROVE StagerInv'
  <2>1. Murk(Coming') /\ NoMagic(Coming') /\ r.frames = <<>>
    BY <1>1, <1>6, MurkPoll
  <2>2. Silent' /\ OkStager(stager') /\ toHost' = <<>>
    BY <1>4, <2>1
  <2> QED
    BY <1>2, <1>3, <1>5, <2>1, <2>2 DEF Unheard
<1>7. ASSUME Doomed, NoMagic(toDevice) PROVE StagerInv'
  <2>1. /\ r.frames = <<>>
        /\ Doomed' \/ (~link'.linked /\ Coming' = toDevice')
        /\ NoMagic(toDevice')
    BY <1>1, <1>7, ListensDoomed
  <2>2. Silent' /\ OkStager(stager') /\ toHost' = <<>>
    BY <1>4, <2>1
  <2> QED
    BY <1>2, <1>3, <1>5, <2>1, <2>2 DEF Unheard, Deaf
<1>8. ASSUME Deaf PROVE StagerInv'
  <2>1. r.frames = <<>> /\ Deaf'
    BY <1>1, <1>8, ListensDeaf
  <2>2. Silent' /\ OkStager(stager') /\ toHost' = <<>>
    BY <1>4, <2>1
  <2> QED
    BY <1>2, <1>3, <1>5, <2>1, <2>2 DEF Unheard
<1> QED
  BY <1>3, <1>6, <1>7, <1>8 DEF Unheard

LEMMA ListenKeeps ==
  ASSUME StagerInv, NEW packet \in Packets, Listen(packet)
  PROVE  StagerInv'
<1>1. PICK r \in Poll(link, packet) :
        /\ link' = r.link
        /\ stager' \in Admitted(stager, r.frames)
        /\ \E w \in Written(IF ~r.err /\ "magic" \in Range(r.frames) THEN <<MagicReply>> ELSE <<>>) :
             toHost' = toHost \o w
  BY DEF Listen
<1>2. Listens(packet, r)
  BY <1>1 DEF Listen, Listens, Silent, driverVars
<1>3. /\ StagerTyped /\ Silent /\ Coming # <<>> /\ sent \in Nat
      /\ step \in {"idle", "offered", "entered", "refused", "failed", "done"}
      /\ step \in {"offered", "failed"} => (sent > 0 <=> step = "failed")
  BY <1>2, ListensTyped DEF StagerInv, StagerTyped, Listens
<1>4. step \notin {"refused", "done"}
  BY <1>3 DEF StagerInv, TurnedDown, Done
<1>5. CASE step = "idle"
  BY <1>2, <1>5, ListensAtRest
<1>6. CASE step \in {"offered", "entered"} /\ sent = 0
  BY <1>2, <1>6, ListensToDriver
<1>7. CASE step \in {"entered", "failed"} /\ sent > 0
  BY <1>2, <1>7, ListensToImage
<1> QED
  BY <1>3, <1>4, <1>5, <1>6, <1>7

-------------------------------------------------------------------------------
(* Every step of the listener and of its driver.                             *)
LEMMA DialKeeps ==
  ASSUME StagerInv, Dial
  PROVE  StagerInv'
BY OpenPortKeeps, SendMagicKeeps, AwaitReplyKeeps DEF Dial

LEMMA UpgradeKeeps ==
  ASSUME StagerInv, UpgradeNext
  PROVE  StagerInv'
<1>1. CASE StagePacket
  BY <1>1, StreamKeeps, ListenKeeps DEF StagePacket
<1>2. CASE \E f \in DOMAIN Offers : Offer(f)
  BY <1>2, OfferKeeps
<1> QED
  BY <1>1, <1>2, DialKeeps, DrainKeeps, EnterKeeps, SendChunkKeeps, ReadAckKeeps, GiveUpKeeps, HangUpKeeps
  DEF UpgradeNext

LEMMA StagerStays ==
  ASSUME StagerInv, UNCHANGED <<wireVars, stager, driverVars>>
  PROVE  StagerInv'
<1>1. /\ link' = link /\ toDevice' = toDevice /\ toHost' = toHost /\ configured' = configured /\ port' = port
      /\ stager' = stager /\ offer' = offer /\ step' = step /\ sent' = sent /\ acked' = acked
  BY DEF wireVars, driverVars
<1>2. /\ Coming' = Coming /\ Silent' = Silent /\ Replied' = Replied /\ Doomed' = Doomed /\ Deaf' = Deaf
      /\ Convo' = Convo /\ Matches' = Matches /\ Verified' = Verified
  BY <1>1 DEF Coming, Silent, Replied, Doomed, Deaf, Convo, Matches, Verified
<1>3. Hushed' = Hushed
  BY <1>2 DEF Hushed
<1>4. StagerTyped'
  BY <1>1 DEF StagerInv, StagerTyped, WireTyped
<1>5. (\E n \in 0 .. Len(Convo) : ToOffer(n) \/ ToEnter(n)) =>
        \E n \in 0 .. Len(Convo') : ToOffer(n)' \/ ToEnter(n)'
  BY <1>1, <1>2 DEF ToOffer, ToEnter
<1>6. AtRest => AtRest'
  BY <1>1, <1>2, <1>3, <1>5 DEF AtRest, Between
<1>7. Offering => Offering'
  BY <1>1, <1>2 DEF Offering, ToOffer, ToEnter
<1>8. Unheard \/ Taking => Unheard' \/ Taking'
  BY <1>1, <1>2 DEF Unheard, Taking
<1>9. (TurnedDown => TurnedDown') /\ (Done => Done')
  BY <1>1, <1>2 DEF TurnedDown, Done
<1> QED
  BY <1>1, <1>4, <1>6, <1>7, <1>8, <1>9 DEF StagerInv

LEMMA UpgradeStarts == CommsInit => UpgradeInv
<1> SUFFICES ASSUME CommsInit PROVE UpgradeInv
  OBVIOUS
<1>1. /\ link = Unlinked /\ toDevice = <<>> /\ toHost = <<>> /\ configured = FALSE /\ port = "closed"
      /\ stager = Idle /\ offer = "legacy" /\ step = "idle" /\ sent = 0 /\ acked = 0
      /\ mode \in {"session", "upgrade"}
  BY DEF CommsInit, WireInit, UpgradeInit
<1>2. WireTyped /\ HeldWell(link)
  BY <1>1, MagicLenIs DEF WireTyped, HeldWell, Unlinked
<1>3. OkStager(stager)
  BY <1>1 DEF OkStager, Idle
<1>4. offer \in DOMAIN Offers /\ Offers[offer].size \in Nat
  BY <1>1, UpgradeAssumption
<1>5. toHost \in Seq({MagicReply, Ack})
  BY <1>1
<1>6. StagerTyped
  BY <1>1, <1>2, <1>3, <1>4, <1>5 DEF StagerTyped
<1>7. Murk(Coming)
  BY <1>1, NothingIsMurk DEF Coming, Unlinked
<1>8. ~Replied
  BY <1>1 DEF Replied
<1>9. AtRest
  BY <1>1, <1>7, <1>8 DEF AtRest, Between
<1> QED
  BY <1>1, <1>6, <1>9 DEF UpgradeInv, StagerInv

LEMMA UpgradeHolds == CommsSpec => []UpgradeInv
<1>1. ASSUME UpgradeInv, [CommsNext]_commsVars PROVE UpgradeInv'
  <2>1. CASE Session /\ LinkNext
    BY <1>1, <2>1 DEF UpgradeInv, Session, driverVars
  <2>2. CASE Listener /\ UpgradeNext
    BY <1>1, <2>2, UpgradeKeeps DEF UpgradeInv, Listener
  <2>3. CASE UNCHANGED commsVars
    <3>1. UNCHANGED <<wireVars, stager, driverVars>> /\ mode' = mode
      BY <2>3 DEF commsVars
    <3>2. step' = step
      BY <3>1 DEF driverVars
    <3> QED
      BY <1>1, <3>1, <3>2, StagerStays DEF UpgradeInv
  <2> QED
    BY <1>1, <2>1, <2>2, <2>3 DEF CommsNext
<1> QED
  BY <1>1, UpgradeStarts, PTL DEF CommsSpec

\* A driver that has counted the acks of every chunk knows that the image it offered is staged,
\* whole and verified, whatever was cut, misread, refused or lost before. (Stager::feed and verify,
\* upgrade.rs)
THEOREM AcksAreTheVerdict == CommsSpec => []AcksCarryTheVerdict
<1>1. UpgradeInv => AcksCarryTheVerdict
  BY DEF UpgradeInv, StagerInv, Done, Verified, Matches, AcksCarryTheVerdict
<1> QED
  BY <1>1, UpgradeHolds, PTL
=============================================================================
