--------------------------- MODULE RestorationProofs ---------------------------
(* No share is counted on that was never stored.  A share goes from the      *)
(* staging queue of its device to its flash, into an answer, and into the    *)
(* books of the coordinator; the invariant follows it along.                 *)
EXTENDS Restoration, TLAPS

Elements(q) == {q[i] : i \in DOMAIN q}

HolderTypes ==
  /\ flash \in [Devices -> Shares \cup {None}]
  /\ ram \in [Devices -> SUBSET Shares]
  /\ written \in [Devices -> SUBSET Shares]
  /\ staged \in [Devices -> Seq(Shares)]
  /\ tmp \in [Devices -> SUBSET Shares]
  /\ saved \in [Devices -> SUBSET Shares]
  /\ prompt \in [Devices -> Shares \cup {None, Enter}]

FlashWasWritten == \A d \in Devices : flash[d] = None \/ flash[d] \in written[d]

HeldAreBacked == \A d \in Devices : ram[d] \subseteq written[d] \cup Elements(staged[d])

\* What a device says it holds for good was on its flash.
AnswerIsBacked(m, w) ==
  /\ m.from \in Devices
  /\ m.type = "consolidated" => m.of \in w[m.from]
  /\ m.type = "held" /\ (m.of.ref # None \/ ~m.of.needs) => m.of.share \in w[m.from]

AnswersAreBacked == \A m \in fromDevice : AnswerIsBacked(m, written)

HolderInv == HolderTypes /\ FlashWasWritten /\ HeldAreBacked /\ AnswersAreBacked

CollectedAreBacked ==
  /\ restoration = [id \in Restorations |-> restoration[id]]
  /\ \A id \in Restorations : \A h \in restoration[id].held :
       h.device \in Devices /\ (h.needs \/ h.share \in written[h.device])

SavesAreBackups == \A w \in waitingSave : w.held.needs /\ w.id \in Restorations

BooksAreBacked ==
  \A o \in recorded : o.device \in Devices /\ (o \in pending \/ o.share \in written[o.device])

IInv == HolderInv /\ CollectedAreBacked /\ SavesAreBackups /\ BooksAreBacked

-------------------------------------------------------------------------------
LEMMA InitInv == Init => IInv
<1> SUFFICES ASSUME Init PROVE IInv
  OBVIOUS
<1> USE HolderAssumption, RestorationAssumption DEF Init, HolderInit, CoordinatorInit, Loaded
<1>1. HolderTypes
  BY DEF HolderTypes
<1>2. FlashWasWritten /\ HeldAreBacked /\ AnswersAreBacked
  BY DEF FlashWasWritten, HeldAreBacked, AnswersAreBacked
<1>3. CollectedAreBacked /\ SavesAreBackups
  BY DEF CollectedAreBacked, SavesAreBackups, Unused
<1>4. BooksAreBacked
  BY DEF BooksAreBacked
<1> QED
  BY <1>1, <1>2, <1>3, <1>4 DEF IInv, HolderInv

-------------------------------------------------------------------------------
\* What a run leaves: it says something only when nothing is left staged.
RunResult(d, due, answers) ==
  /\ flash' \in [Devices -> Shares \cup {None}]
  /\ written' \in [Devices -> SUBSET Shares]
  /\ staged' \in [Devices -> Seq(Shares)]
  /\ \A e \in Devices : written[e] \subseteq written'[e]
  /\ \A e \in Devices : flash'[e] = None \/ flash'[e] \in written'[e]
  /\ \A e \in Devices \ {d} : staged'[e] = staged[e]
  /\ Elements(due) \subseteq written'[d] \cup Elements(staged'[d])
  /\ \/ fromDevice' = fromDevice
     \/ fromDevice' = fromDevice \cup answers /\ Elements(due) \subseteq written'[d]

LEMMA OnlyElement ==
  ASSUME NEW due \in Seq(Shares), Len(due) = 1
  PROVE  Elements(due) = {Head(due)} /\ Head(due) \in Shares
<1>1. DOMAIN due = 1 .. 1
  OBVIOUS
<1>2. DOMAIN due = {1}
  BY <1>1
<1>3. Head(due) = due[1] /\ due[1] \in Shares
  OBVIOUS
<1> QED
  BY <1>2, <1>3 DEF Elements

LEMMA RunLeaves ==
  ASSUME HolderTypes, FlashWasWritten,
         NEW d \in Devices, NEW due \in Seq(Shares), NEW answers, NEW question, NEW otherwise,
         question \in Shares \cup {None, Enter}, otherwise \in Shares \cup {None, Enter},
         Run(d, due, answers, question, otherwise)
  PROVE  RunResult(d, due, answers) /\ prompt' \in [Devices -> Shares \cup {None, Enter}]
<1> USE DEF HolderTypes, FlashWasWritten, Elements
<1>1. CASE due = <<>> /\ Said(d, answers, question) /\ UNCHANGED <<staged, flash, written, faults>>
  BY <1>1 DEF RunResult, Said
<1>2. CASE Len(due) = 1 /\ Stored(d, Head(due)) /\ Said(d, answers, question)
  <2>1. Elements(due) = {Head(due)} /\ Head(due) \in Shares
    BY <1>2, OnlyElement
  <2>2. /\ flash' = [flash EXCEPT ![d] = Head(due)]
        /\ written' = [written EXCEPT ![d] = @ \cup {Head(due)}]
        /\ staged' = [staged EXCEPT ![d] = <<>>]
    BY <1>2 DEF Stored
  <2>3. /\ flash' \in [Devices -> Shares \cup {None}]
        /\ written' \in [Devices -> SUBSET Shares]
        /\ staged' \in [Devices -> Seq(Shares)]
        /\ \A e \in Devices : written[e] \subseteq written'[e]
        /\ \A e \in Devices \ {d} : staged'[e] = staged[e]
        /\ Head(due) \in written'[d]
    BY <2>1, <2>2
  <2>4. \A e \in Devices : flash'[e] = None \/ flash'[e] \in written'[e]
    BY <2>1, <2>2
  <2>5. /\ fromDevice' = fromDevice \cup answers
        /\ prompt' \in [Devices -> Shares \cup {None, Enter}]
    BY <1>2 DEF Said
  <2>6. Elements(due) \subseteq written'[d]
    BY <2>1, <2>3
  <2> HIDE DEF Elements
  <2> QED
    BY <2>3, <2>4, <2>5, <2>6 DEF RunResult
<1>3. CASE NotStoredNorSaid(d, due, answers, otherwise)
  BY <1>3 DEF RunResult, NotStoredNorSaid, NotStored, KeptWhenRefused
<1> QED
  BY <1>1, <1>2, <1>3 DEF Run

-------------------------------------------------------------------------------
\* A run keeps the invariant of the holder when what is due covers the shares
\* the device then holds, and what it answers is true once all is stored.
LEMMA RunKeeps ==
  ASSUME HolderInv, HolderTypes', NEW d \in Devices, NEW due, NEW answers,
         RunResult(d, due, answers),
         \A e \in Devices \ {d} : ram'[e] = ram[e],
         ram'[d] \subseteq written[d] \cup Elements(due),
         Elements(due) \subseteq written'[d] => \A m \in answers : AnswerIsBacked(m, written')
  PROVE  HolderInv' /\ \A e \in Devices : written[e] \subseteq written'[e]
<1> USE DEF RunResult
<1>1. FlashWasWritten'
  BY DEF FlashWasWritten
<1>2. HeldAreBacked'
  <2> SUFFICES ASSUME NEW e \in Devices
               PROVE  ram'[e] \subseteq written'[e] \cup Elements(staged'[e])
    BY DEF HeldAreBacked, Elements
  <2>1. CASE e = d
    BY <2>1
  <2>2. CASE e # d
    BY <2>2 DEF HolderInv, HeldAreBacked
  <2> QED
    BY <2>1, <2>2
<1>3. AnswersAreBacked'
  <2> SUFFICES ASSUME NEW m \in fromDevice' PROVE AnswerIsBacked(m, written')
    BY DEF AnswersAreBacked, AnswerIsBacked
  <2>1. CASE m \in fromDevice
    BY <2>1 DEF HolderInv, AnswersAreBacked, AnswerIsBacked
  <2>2. CASE m \notin fromDevice
    BY <2>2
  <2> QED
    BY <2>1, <2>2
<1> QED
  BY <1>1, <1>2, <1>3 DEF HolderInv

-------------------------------------------------------------------------------
\* Every step of a device, or of its user, keeps the invariant of the holder,
\* and takes nothing back that was stored.
LEMMA TakeTypes ==
  ASSUME NEW d \in Devices, NEW due \in Seq(Shares), NEW s \in Shares
  PROVE  /\ Append(due, s) \in Seq(Shares)
         /\ Elements(Append(due, s)) = Elements(due) \cup {s}
<1>1. /\ Append(due, s) \in Seq(Shares)
      /\ Len(Append(due, s)) = Len(due) + 1
      /\ \A i \in 1 .. Len(due) : Append(due, s)[i] = due[i]
      /\ Append(due, s)[Len(due) + 1] = s
      /\ DOMAIN Append(due, s) = 1 .. Len(due) + 1
      /\ DOMAIN due = 1 .. Len(due) /\ Len(due) \in Nat
  OBVIOUS
<1>2. 1 .. Len(due) + 1 = (1 .. Len(due)) \cup {Len(due) + 1}
  BY <1>1
<1> QED
  BY <1>1, <1>2 DEF Elements

\* A run that changes no share of the signer.
LEMMA AnswerKeeps ==
  ASSUME HolderInv, NEW d \in Devices, NEW answers, NEW question,
         question \in Shares \cup {None, Enter},
         Run(d, staged[d], answers, question, prompt[d]),
         UNCHANGED ram,
         tmp' \in [Devices -> SUBSET Shares], saved' \in [Devices -> SUBSET Shares],
         Elements(staged[d]) \subseteq written'[d] /\ (\A e \in Devices : written[e] \subseteq written'[e])
           => \A m \in answers : AnswerIsBacked(m, written')
  PROVE  HolderInv' /\ \A e \in Devices : written[e] \subseteq written'[e]
<1>1. HolderTypes /\ FlashWasWritten /\ HeldAreBacked
  BY DEF HolderInv
<1>2. staged[d] \in Seq(Shares) /\ prompt[d] \in Shares \cup {None, Enter}
  BY <1>1 DEF HolderTypes
<1>3. RunResult(d, staged[d], answers) /\ prompt' \in [Devices -> Shares \cup {None, Enter}]
  BY <1>1, <1>2, RunLeaves
<1>4. HolderTypes'
  BY <1>1, <1>3 DEF HolderTypes, RunResult
<1>5. ram'[d] \subseteq written[d] \cup Elements(staged[d])
  BY <1>1 DEF HeldAreBacked
<1>6. Elements(staged[d]) \subseteq written'[d] => \A m \in answers : AnswerIsBacked(m, written')
  BY <1>3 DEF RunResult
<1> QED
  BY <1>3, <1>4, <1>5, <1>6, RunKeeps

\* A step that stores and says nothing.
LEMMA QuietKeeps ==
  ASSUME HolderInv, HolderTypes', UNCHANGED <<flash, written, ram, staged>>,
         fromDevice' \subseteq fromDevice
  PROVE  HolderInv' /\ \A e \in Devices : written[e] \subseteq written'[e]
BY DEF HolderInv, FlashWasWritten, HeldAreBacked, AnswersAreBacked, AnswerIsBacked, Elements

LEMMA HolderKeeps ==
  ASSUME HolderInv, NEW d \in Devices, HolderStep(d)
  PROVE  HolderInv' /\ \A e \in Devices : written[e] \subseteq written'[e]
<1> USE HolderAssumption
<1>0. HolderTypes /\ HeldAreBacked
  BY DEF HolderInv
<1>1. CASE RecvEnter(d)
  <2>1. Run(d, staged[d], {}, Enter, prompt[d]) /\ UNCHANGED <<ram, tmp, saved>>
    BY <1>1 DEF RecvEnter, RunQuestion
  <2>2. tmp' \in [Devices -> SUBSET Shares] /\ saved' \in [Devices -> SUBSET Shares]
    BY <2>1, <1>0 DEF HolderTypes
  <2> QED
    BY <2>1, <2>2, AnswerKeeps
<1>2. CASE RecvSave(d)
  <2> DEFINE s == Head(toDevice[d]).of
  <2>1. CASE s \in tmp[d]
    <3>1. Run(d, staged[d], {Answer(d, "saved", s)}, prompt[d], prompt[d]) /\ UNCHANGED ram
      BY <1>2, <2>1 DEF RecvSave, RunAnswer
    <3>2. tmp' \in [Devices -> SUBSET Shares] /\ saved' \in [Devices -> SUBSET Shares]
      <4>1. /\ tmp' = [tmp EXCEPT ![d] = @ \ {s}]
            /\ saved' = [saved EXCEPT ![d] = @ \cup {s}]
        BY <1>2, <2>1 DEF RecvSave
      <4>2. s \in Shares
        BY <1>0, <2>1 DEF HolderTypes
      <4> HIDE DEF s
      <4> QED
        BY <1>0, <4>1, <4>2 DEF HolderTypes
    <3>3. AnswerIsBacked(Answer(d, "saved", s), written')
      BY DEF Answer, AnswerIsBacked
    <3>4. prompt[d] \in Shares \cup {None, Enter}
      BY <1>0 DEF HolderTypes
    <3> QED
      BY <3>1, <3>2, <3>3, <3>4, AnswerKeeps
  <2>2. CASE s \notin tmp[d]
    <3>1. UNCHANGED <<staged, flash, prompt, fromDevice, written, tmp, saved, ram>>
      BY <1>2, <2>2 DEF RecvSave, Fails
    <3>2. HolderTypes'
      BY <1>0, <3>1 DEF HolderTypes
    <3> QED
      BY <3>1, <3>2, QuietKeeps
  <2> QED
    BY <2>1, <2>2
<1>3. CASE RecvConsolidate(d)
  <2> DEFINE s == Head(toDevice[d]).of
  <2>1. UNCHANGED <<ram, tmp, saved>>
    BY <1>3 DEF RecvConsolidate
  <2>2. tmp' \in [Devices -> SUBSET Shares] /\ saved' \in [Devices -> SUBSET Shares]
    BY <1>0, <2>1 DEF HolderTypes
  <2>3. CASE s \in saved[d] \cup tmp[d]
    <3>1. Run(d, staged[d], {}, s, prompt[d])
      BY <1>3, <2>3 DEF RecvConsolidate, RunQuestion
    <3>2. s \in Shares
      BY <1>0, <2>3 DEF HolderTypes
    <3> HIDE DEF s
    <3> QED
      BY <3>1, <3>2, <2>1, <2>2, AnswerKeeps
  <2>4. CASE s \in ram[d] \ (saved[d] \cup tmp[d])
    <3>1. Run(d, staged[d], {Answer(d, "consolidated", s)}, prompt[d], prompt[d])
      BY <1>3, <2>4 DEF RecvConsolidate, RunAnswer
    <3>2. s \in written[d] \cup Elements(staged[d])
      BY <1>0, <2>4 DEF HeldAreBacked
    <3>3. ASSUME Elements(staged[d]) \subseteq written'[d], \A e \in Devices : written[e] \subseteq written'[e]
          PROVE  AnswerIsBacked(Answer(d, "consolidated", s), written')
      BY <3>2, <3>3 DEF Answer, AnswerIsBacked
    <3>4. prompt[d] \in Shares \cup {None, Enter}
      BY <1>0 DEF HolderTypes
    <3> HIDE DEF s
    <3> QED
      BY <3>1, <3>3, <3>4, <2>1, <2>2, AnswerKeeps
  <2>5. CASE s \notin ram[d] \cup (saved[d] \cup tmp[d])
    <3>1. UNCHANGED <<staged, flash, prompt, fromDevice, written>>
      BY <1>3, <2>5 DEF RecvConsolidate, Fails
    <3>2. HolderTypes'
      BY <1>0, <2>1, <3>1 DEF HolderTypes
    <3> QED
      BY <2>1, <3>1, <3>2, QuietKeeps
  <2> QED
    BY <2>3, <2>4, <2>5
<1>4. CASE RecvRequestHeldShares(d)
  <2> DEFINE answers == {Answer(d, "held", h) : h \in HeldShares(d)}
  <2>1. Run(d, staged[d], answers, prompt[d], prompt[d]) /\ UNCHANGED <<ram, tmp, saved>>
    BY <1>4 DEF RecvRequestHeldShares, RunAnswer
  <2>2. tmp' \in [Devices -> SUBSET Shares] /\ saved' \in [Devices -> SUBSET Shares]
    BY <1>0, <2>1 DEF HolderTypes
  <2>3. ASSUME Elements(staged[d]) \subseteq written'[d], \A e \in Devices : written[e] \subseteq written'[e],
               NEW m \in answers
        PROVE  AnswerIsBacked(m, written')
    <3>1. PICK h \in HeldShares(d) : m = Answer(d, "held", h)
      BY <2>3
    <3>2. CASE \E s \in ram[d] : h = HeldShare(s)
      <4>1. PICK s \in ram[d] : h = HeldShare(s)
        BY <3>2
      <4>2. s \in written[d] \cup Elements(staged[d])
        BY <1>0 DEF HeldAreBacked
      <4> QED
        BY <2>3, <3>1, <4>1, <4>2 DEF Answer, AnswerIsBacked, HeldShare
    <3>3. CASE \E s \in saved[d] : h = Backup(s)
      BY <3>1, <3>3 DEF Answer, AnswerIsBacked, Backup
    <3> QED
      BY <3>1, <3>2, <3>3 DEF HeldShares
  <2>4. prompt[d] \in Shares \cup {None, Enter}
    BY <1>0 DEF HolderTypes
  <2> HIDE DEF answers
  <2> QED
    BY <2>1, <2>2, <2>3, <2>4, AnswerKeeps
<1>5. CASE RecvCancel(d) \/ Decline(d) \/ ConfirmEnter(d)
  <2>1. UNCHANGED <<flash, written, ram, staged, fromDevice>>
    BY <1>5 DEF RecvCancel, Decline, ConfirmEnter
  <2>2. HolderTypes'
    BY <1>0, <1>5, <2>1 DEF HolderTypes, RecvCancel, Decline, ConfirmEnter, Answered
  <2> QED
    BY <2>1, <2>2, QuietKeeps
<1>6. CASE EnterBackup(d)
  <2>1. CASE Fails /\ UNCHANGED tmp
    <3>1. UNCHANGED <<flash, written, ram, staged, fromDevice, prompt, tmp, saved>>
      BY <1>6, <2>1 DEF EnterBackup, Fails
    <3>2. HolderTypes'
      BY <1>0, <3>1 DEF HolderTypes
    <3> QED
      BY <3>1, <3>2, QuietKeeps
  <2>2. ASSUME NEW s \in Paper[d], tmp' = [tmp EXCEPT ![d] = @ \cup {s}],
               RunAnswer(d, {Answer(d, "entered", s)})
        PROVE  HolderInv' /\ \A e \in Devices : written[e] \subseteq written'[e]
    <3>1. Run(d, staged[d], {Answer(d, "entered", s)}, prompt[d], prompt[d]) /\ UNCHANGED <<ram, saved>>
      BY <1>6, <2>2 DEF EnterBackup, RunAnswer
    <3>2. tmp' \in [Devices -> SUBSET Shares] /\ saved' \in [Devices -> SUBSET Shares]
      BY <1>0, <2>2, <3>1 DEF HolderTypes
    <3>3. AnswerIsBacked(Answer(d, "entered", s), written')
      BY DEF Answer, AnswerIsBacked
    <3>4. prompt[d] \in Shares \cup {None, Enter}
      BY <1>0 DEF HolderTypes
    <3> QED
      BY <3>1, <3>2, <3>3, <3>4, AnswerKeeps
  <2> QED
    BY <1>6, <2>1, <2>2 DEF EnterBackup
<1>7. CASE ConfirmConsolidate(d)
  <2> DEFINE s == prompt[d]
             due == Append(staged[d], s)
             answers == {Answer(d, "consolidated", s)}
  <2>1. /\ s \in Shares
        /\ ram' = [ram EXCEPT ![d] = KeyReplaced(@, s)]
        /\ tmp' = [tmp EXCEPT ![d] = @ \ {s}]
        /\ saved' = [saved EXCEPT ![d] = @ \ {s}]
        /\ Run(d, due, answers, None, None)
    BY <1>7 DEF ConfirmConsolidate
  <2>2. staged[d] \in Seq(Shares)
    BY <1>0 DEF HolderTypes
  <2>3. due \in Seq(Shares) /\ Elements(due) = Elements(staged[d]) \cup {s}
    BY <2>1, <2>2, TakeTypes
  <2> HIDE DEF due
  <2>4. RunResult(d, due, answers) /\ prompt' \in [Devices -> Shares \cup {None, Enter}]
    BY <1>0, <2>1, <2>3, RunLeaves DEF HolderInv
  <2>5. HolderTypes'
    BY <1>0, <2>1, <2>4 DEF HolderTypes, RunResult, KeyReplaced
  <2>6. ram'[d] \subseteq written[d] \cup Elements(due) /\ \A e \in Devices \ {d} : ram'[e] = ram[e]
    BY <1>0, <2>1, <2>3 DEF HolderTypes, HeldAreBacked, KeyReplaced
  <2>7. Elements(due) \subseteq written'[d] => \A m \in answers : AnswerIsBacked(m, written')
    BY <2>3 DEF Answer, AnswerIsBacked
  <2> HIDE DEF answers
  <2> QED
    BY <2>4, <2>5, <2>6, <2>7, RunKeeps
<1>8. CASE PowerCut(d)
  <2>1. /\ ram' = [ram EXCEPT ![d] = Loaded(flash[d])]
        /\ staged' = [staged EXCEPT ![d] = <<>>]
        /\ tmp' = [tmp EXCEPT ![d] = {}]
        /\ saved' = [saved EXCEPT ![d] = {}]
        /\ prompt' = [prompt EXCEPT ![d] = None]
        /\ fromDevice' \subseteq fromDevice
        /\ UNCHANGED <<flash, written>>
    BY <1>8 DEF PowerCut
  <2>2. HolderTypes'
    BY <1>0, <2>1 DEF HolderTypes, Loaded
  <2>3. HeldAreBacked'
    <3> SUFFICES ASSUME NEW e \in Devices
                 PROVE  ram'[e] \subseteq written'[e] \cup Elements(staged'[e])
      BY DEF HeldAreBacked, Elements
    <3>1. CASE e = d
      BY <1>0, <2>1, <3>1 DEF HolderInv, FlashWasWritten, HolderTypes, Loaded
    <3>2. CASE e # d
      BY <1>0, <2>1, <3>2 DEF HeldAreBacked, HolderTypes
    <3> QED
      BY <3>1, <3>2
  <2>4. FlashWasWritten' /\ AnswersAreBacked'
    BY <2>1 DEF HolderInv, FlashWasWritten, AnswersAreBacked, AnswerIsBacked
  <2> QED
    BY <2>1, <2>2, <2>3, <2>4 DEF HolderInv
<1> QED
  BY <1>1, <1>2, <1>3, <1>4, <1>5, <1>6, <1>7, <1>8 DEF HolderStep

-------------------------------------------------------------------------------
\* The coordinator: a restoration only gains shares that are backed.
LEMMA CollectedKeeps ==
  ASSUME CollectedAreBacked, UNCHANGED written, NEW id, NEW r,
         restoration' = [restoration EXCEPT ![id] = r],
         \A h \in r.held : h.device \in Devices /\ (h.needs \/ h.share \in written[h.device])
  PROVE  CollectedAreBacked'
BY DEF CollectedAreBacked

LEMMA ProgressKeeps ==
  ASSUME CollectedAreBacked, UNCHANGED written, NEW id \in Restorations, NEW d \in Devices, NEW h,
         h.needs \/ h.share \in written[d],
         Progress(id, d, h)
  PROVE  CollectedAreBacked'
<1> DEFINE share == [device |-> d, share |-> h.share, ref |-> h.ref, needs |-> h.needs]
           all == restoration[id].held \cup {share}
<1>1. CASE UNCHANGED restoration
  BY <1>1 DEF CollectedAreBacked
<1>2. ASSUME NEW k \in Recovered(all), restoration' = [restoration EXCEPT ![id] = Collected(all, k)]
      PROVE  CollectedAreBacked'
  <2>1. Collected(all, k).held = all
    BY DEF Collected
  <2>2. \A g \in all : g.device \in Devices /\ (g.needs \/ g.share \in written[g.device])
    BY DEF CollectedAreBacked
  <2> HIDE DEF all
  <2> QED
    BY <1>2, <2>1, <2>2, CollectedKeeps
<1> QED
  BY <1>1, <1>2 DEF Progress

\* What the coordinator does takes nothing from the devices but their answers.
LEMMA CoordinatorLeavesHolder ==
  ASSUME HolderInv, UNCHANGED <<device, written>>, fromDevice' \subseteq fromDevice
  PROVE  HolderInv'
<1>1. HolderTypes'
  BY DEF HolderInv, HolderTypes, device
<1> QED
  BY <1>1, QuietKeeps DEF device

LEMMA SendLeaves ==
  ASSUME NEW d, NEW type, NEW s, Send(d, type, s)
  PROVE  UNCHANGED <<device, written>>
BY DEF Send

LEMMA AskKeeps ==
  ASSUME IInv, Ask
  PROVE  IInv'
<1> USE DEF IInv
<1>1. ASSUME NEW d \in Devices, RequestHeldShares(d) \/ LoadPhysicalBackup(d) \/ ConsolidatePending(d)
      PROVE  IInv'
  <2>1. UNCHANGED <<device, written, fromDevice, coordinator>>
    BY <1>1, SendLeaves DEF RequestHeldShares, LoadPhysicalBackup, ConsolidatePending, Only
  <2>2. HolderInv'
    BY <2>1, CoordinatorLeavesHolder
  <2> QED
    BY <2>1, <2>2 DEF coordinator, keysVars, tmpVars, CollectedAreBacked, SavesAreBackups, BooksAreBacked
<1>2. ASSUME NEW id \in Restorations, StartRestoring(id) \/ CancelRestoration(id)
      PROVE  IInv'
  <2>1. UNCHANGED <<holder, recorded, pending, waitingSave>>
    BY <1>2 DEF StartRestoring, CancelRestoration, keysVars, tmpVars
  <2>2. CollectedAreBacked'
    BY <1>2, <2>1, CollectedKeeps DEF StartRestoring, CancelRestoration, Collected, Gone, Unused, holder
  <2> QED
    BY <2>1, <2>2, CoordinatorLeavesHolder DEF holder, SavesAreBackups, BooksAreBacked
<1>3. ASSUME NEW id \in Restorations, FinishRestoring(id)
      PROVE  IInv'
  <2> DEFINE r == restoration[id]
             good == {h \in r.held : h.share.key = r.key}
  <2>1. PICK f \in Indexed(good) :
          /\ recorded' = Rerecord({Owed(d, f[d]) : d \in DOMAIN f})
          /\ pending' = pending \cup {Owed(d, f[d]) : d \in NeedConsolidating(good)}
    BY <1>3 DEF FinishRestoring
  <2>2. UNCHANGED <<holder, waitingSave>> /\ restoration' = [restoration EXCEPT ![id] = Gone]
    BY <1>3 DEF FinishRestoring, tmpVars
  <2>3. CollectedAreBacked'
    <3>1. Gone.held = {}
      BY DEF Gone, Unused
    <3>2. UNCHANGED written
      BY <2>2 DEF holder
    <3> HIDE DEF r, good
    <3> QED
      BY <2>2, <3>1, <3>2, CollectedKeeps
  <2>4. ASSUME NEW d \in DOMAIN f
        PROVE  d \in Devices /\ (Owed(d, f[d]) \in pending' \/ f[d] \in written[d])
    <3>1. PICK h \in good : h.device = d /\ h.share = f[d]
      BY DEF Indexed
    <3>2. d \in Devices /\ (h.needs \/ f[d] \in written[d])
      BY <3>1 DEF CollectedAreBacked
    <3>3. h.needs => d \in NeedConsolidating(good)
      BY <3>1 DEF NeedConsolidating
    <3> HIDE DEF good
    <3> QED
      BY <2>1, <3>2, <3>3
  <2>5. BooksAreBacked'
    <3> HIDE DEF good, r
    <3> SUFFICES ASSUME NEW o \in recorded'
                 PROVE  o.device \in Devices /\ (o \in pending' \/ o.share \in written'[o.device])
      BY DEF BooksAreBacked
    <3>1. CASE o \in recorded
      BY <2>1, <2>2, <3>1 DEF BooksAreBacked, holder
    <3>2. ASSUME NEW d \in DOMAIN f, o = Owed(d, f[d])
          PROVE  o.device \in Devices /\ (o \in pending' \/ o.share \in written'[o.device])
      <4>1. o.device = d /\ o.share = f[d]
        BY <3>2 DEF Owed
      <4> QED
        BY <2>2, <2>4, <3>2, <4>1 DEF holder
    <3> QED
      BY <2>1, <3>1, <3>2 DEF Rerecord
  <2> QED
    BY <2>2, <2>3, <2>5, CoordinatorLeavesHolder DEF holder, SavesAreBackups
<1>4. ASSUME NEW id \in Restorations, NEW d \in Devices, DeleteRestorationShare(id, d)
      PROVE  IInv'
  <2>1. UNCHANGED <<holder, recorded, pending, waitingSave>>
    BY <1>4 DEF DeleteRestorationShare, keysVars, tmpVars
  <2>2. PICK h \in restoration[id].held : \E k \in Recovered(restoration[id].held \ {h}) :
          restoration' = [restoration EXCEPT ![id] = Collected(restoration[id].held \ {h}, k)]
    BY <1>4 DEF DeleteRestorationShare
  <2>3. \A g \in restoration[id].held : g.device \in Devices /\ (g.needs \/ g.share \in written[g.device])
    BY DEF CollectedAreBacked
  <2>4. CollectedAreBacked'
    <3>1. PICK k : restoration' = [restoration EXCEPT ![id] = Collected(restoration[id].held \ {h}, k)]
      BY ONLY <2>2
    <3> DEFINE r == Collected(restoration[id].held \ {h}, k)
    <3>2. \A g \in r.held : g.device \in Devices /\ (g.needs \/ g.share \in written[g.device])
      BY ONLY <2>3 DEF Collected
    <3>3. UNCHANGED written /\ CollectedAreBacked
      BY <2>1 DEF holder
    <3> HIDE DEF r
    <3>4. restoration' = [restoration EXCEPT ![id] = r]
      BY ONLY <3>1 DEF r
    <3> QED
      BY ONLY <3>2, <3>3, <3>4, CollectedKeeps
  <2> QED
    BY <2>1, <2>4, CoordinatorLeavesHolder DEF holder, SavesAreBackups, BooksAreBacked
<1>5. ASSUME NEW k \in Keys, DeleteKey(k)
      PROVE  IInv'
  <2>1. UNCHANGED <<holder, restoration, waitingSave>>
    BY <1>5 DEF DeleteKey
  <2>2. BooksAreBacked'
    BY <1>5, <2>1 DEF DeleteKey, BooksAreBacked, holder
  <2> QED
    BY <2>1, <2>2, CoordinatorLeavesHolder DEF holder, CollectedAreBacked, SavesAreBackups
<1>6. ASSUME NEW o \in recorded, DeleteShare(o)
      PROVE  IInv'
  <2>1. UNCHANGED <<holder, restoration, pending, waitingSave>> /\ recorded' \subseteq recorded
    BY <1>6 DEF DeleteShare, tmpVars
  <2> QED
    BY <2>1, CoordinatorLeavesHolder DEF holder, CollectedAreBacked, SavesAreBackups, BooksAreBacked
<1>7. CASE ClearTmpData
  <2>1. UNCHANGED <<device, written, fromDevice, recorded, restoration, pending>> /\ waitingSave' = {}
    BY <1>7 DEF ClearTmpData, keysVars
  <2>2. HolderInv'
    BY <2>1, CoordinatorLeavesHolder
  <2> QED
    BY <2>1, <2>2 DEF CollectedAreBacked, SavesAreBackups, BooksAreBacked
<1> QED
  BY <1>1, <1>2, <1>3, <1>4, <1>5, <1>6, <1>7 DEF Ask

LEMMA RecvKeeps ==
  ASSUME IInv, Recv
  PROVE  IInv'
<1> USE DEF IInv
<1> PICK m \in fromDevice :
      \/ Ignore(m)
      \/ ConsolidateBackup(m)
      \/ RecvSaved(m)
      \/ RecvConsolidated(m)
      \/ RecoverShare(m)
      \/ \E id \in Restorations : SaveBackup(m, id) \/ AddRecoveryShare(m, id) \/ StartFromShare(m, id)
  BY DEF Recv
<1>0. m.from \in Devices /\ AnswerIsBacked(m, written)
  BY DEF HolderInv, AnswersAreBacked, AnswerIsBacked
<1>1. HolderInv' /\ UNCHANGED written
  <2>1. UNCHANGED <<device, written>> /\ fromDevice' \subseteq fromDevice
    BY SendLeaves DEF Ignore, ConsolidateBackup, RecvSaved, RecvConsolidated, RecoverShare,
       SaveBackup, AddRecoveryShare, StartFromShare, Act, Forget
  <2> QED
    BY <2>1, CoordinatorLeavesHolder
<1>2. CASE Ignore(m) \/ ConsolidateBackup(m)
  <2>1. UNCHANGED <<restoration, recorded, pending, waitingSave>>
    BY <1>2 DEF Ignore, ConsolidateBackup, coordinator, keysVars, tmpVars
  <2> QED
    BY <1>1, <2>1 DEF CollectedAreBacked, SavesAreBackups, BooksAreBacked
<1>3. CASE RecvSaved(m)
  <2>1. UNCHANGED <<recorded, pending>>
    BY <1>3 DEF RecvSaved, keysVars
  <2>2. CASE UNCHANGED <<waitingSave, restoration>>
    BY <1>1, <2>1, <2>2 DEF CollectedAreBacked, SavesAreBackups, BooksAreBacked
  <2>3. ASSUME NEW w \in waitingSave, waitingSave' = waitingSave \ {w}, Progress(w.id, m.from, w.held)
        PROVE  CollectedAreBacked' /\ SavesAreBackups'
    <3>1. w.held.needs /\ w.id \in Restorations
      BY DEF SavesAreBackups
    <3>2. CollectedAreBacked'
      BY <1>0, <1>1, <2>3, <3>1, ProgressKeeps
    <3> QED
      BY <2>3, <3>2 DEF SavesAreBackups
  <2> QED
    BY <1>1, <1>3, <2>1, <2>2, <2>3 DEF RecvSaved, BooksAreBacked
<1>4. CASE RecvConsolidated(m)
  <2> DEFINE c == Owed(m.from, m.of)
  <2>1. UNCHANGED <<restoration, waitingSave>>
    BY <1>4 DEF RecvConsolidated
  <2>2. c.device = m.from /\ c.share = m.of /\ m.of \in written[m.from]
    BY <1>0, <1>4 DEF RecvConsolidated, Hear, AnswerIsBacked, Owed
  <2>3. pending \ {c} \subseteq pending' /\ recorded' \subseteq recorded \cup {c}
    BY <1>4 DEF RecvConsolidated, Rerecord
  <2> HIDE DEF c
  <2>4. BooksAreBacked'
    BY <1>0, <1>1, <2>2, <2>3 DEF BooksAreBacked
  <2> QED
    BY <1>1, <2>1, <2>4 DEF CollectedAreBacked, SavesAreBackups
<1>5. CASE RecoverShare(m)
  <2> DEFINE c == Owed(m.from, m.of.share)
  <2>1. UNCHANGED <<restoration, waitingSave>>
    BY <1>5 DEF RecoverShare, tmpVars
  <2>2. c.device = m.from /\ c.share = m.of.share
    BY DEF Owed
  <2>3. m.of.ref = None \/ m.of.share \in written[m.from]
    BY <1>0, <1>5 DEF RecoverShare, Hear, AnswerIsBacked
  <2>4. /\ pending' = IF m.of.ref = None THEN pending \cup {c} ELSE pending
        /\ recorded' \subseteq recorded \cup {c}
    BY <1>5 DEF RecoverShare, Rerecord
  <2> HIDE DEF c
  <2>5. BooksAreBacked'
    BY <1>0, <1>1, <2>2, <2>3, <2>4 DEF BooksAreBacked
  <2> QED
    BY <1>1, <2>1, <2>5 DEF CollectedAreBacked, SavesAreBackups
<1>6. ASSUME NEW id \in Restorations, SaveBackup(m, id)
      PROVE  IInv'
  <2>1. UNCHANGED <<restoration, recorded, pending>>
    BY <1>6 DEF SaveBackup, keysVars
  <2>2. PICK h \in Prepared(id, m.from, m.of) :
          waitingSave' = {w \in waitingSave : w.device # m.from \/ w.held.share # m.of}
                           \cup {[device |-> m.from, held |-> h, id |-> id]}
    BY <1>6 DEF SaveBackup
  <2>3. h.needs
    BY DEF Prepared, Backup
  <2>4. SavesAreBackups'
    BY <2>2, <2>3 DEF SavesAreBackups
  <2> QED
    BY <1>1, <2>1, <2>4 DEF CollectedAreBacked, BooksAreBacked
<1>7. ASSUME NEW id \in Restorations, AddRecoveryShare(m, id)
      PROVE  IInv'
  <2>1. UNCHANGED <<recorded, pending, waitingSave>> /\ Progress(id, m.from, m.of)
    BY <1>7 DEF AddRecoveryShare, keysVars, tmpVars
  <2>2. m.of.needs \/ m.of.share \in written[m.from]
    BY <1>0, <1>7 DEF AddRecoveryShare, Hear, AnswerIsBacked
  <2>3. CollectedAreBacked'
    BY <1>0, <1>1, <2>1, <2>2, ProgressKeeps
  <2> QED
    BY <1>1, <2>1, <2>3 DEF SavesAreBackups, BooksAreBacked
<1>8. ASSUME NEW id \in Restorations, StartFromShare(m, id)
      PROVE  IInv'
  <2> DEFINE h == [device |-> m.from, share |-> m.of.share, ref |-> m.of.ref, needs |-> m.of.needs]
  <2>1. /\ UNCHANGED <<recorded, pending, waitingSave>>
        /\ restoration' = [restoration EXCEPT ![id] = Collected({h}, None)]
    BY <1>8 DEF StartFromShare, keysVars, tmpVars
  <2>2. m.of.needs \/ m.of.share \in written[m.from]
    BY <1>0, <1>8 DEF StartFromShare, Hear, AnswerIsBacked
  <2>3. h.device \in Devices /\ (h.needs \/ h.share \in written[h.device])
    BY <1>0, <2>2
  <2> HIDE DEF h
  <2>4. Collected({h}, None).held = {h}
    BY DEF Collected
  <2>5. CollectedAreBacked'
    BY <1>1, <2>1, <2>3, <2>4, CollectedKeeps
  <2> QED
    BY <1>1, <2>1, <2>5 DEF SavesAreBackups, BooksAreBacked
<1> QED
  BY <1>2, <1>3, <1>4, <1>5, <1>6, <1>7, <1>8

-------------------------------------------------------------------------------
LEMMA NextKeeps == IInv /\ [Next]_vars => IInv'
<1> SUFFICES ASSUME IInv, [Next]_vars PROVE IInv'
  OBVIOUS
<1>1. CASE Ask
  BY <1>1, AskKeeps
<1>2. CASE Recv
  BY <1>2, RecvKeeps
<1>3. CASE Holder
  <2>1. HolderInv' /\ \A e \in Devices : written[e] \subseteq written'[e]
    BY <1>3, HolderKeeps DEF Holder, IInv
  <2>2. UNCHANGED <<restoration, recorded, pending, waitingSave>>
    BY <1>3 DEF Holder, coordinator, keysVars, tmpVars
  <2> QED
    BY <2>1, <2>2 DEF IInv, CollectedAreBacked, SavesAreBackups, BooksAreBacked
<1>4. CASE UNCHANGED vars
  <2>1. HolderInv'
    BY <1>4, CoordinatorLeavesHolder DEF vars, holder, IInv
  <2> QED
    BY <1>4, <2>1 DEF vars, holder, coordinator, keysVars, tmpVars,
       IInv, CollectedAreBacked, SavesAreBackups, BooksAreBacked
<1> QED
  BY <1>1, <1>2, <1>3, <1>4 DEF Next

LEMMA InvHolds == Spec => []IInv
BY InitInv, NextKeeps, PTL DEF Spec

\* Whatever saves are refused and whenever the power fails, a share the signer
\* holds was on flash or is still staged for it (Session::run, store.rs).
THEOREM RefusedSavesAreKept == Spec => []HeldSharesAreWrittenOrStaged
<1>1. IInv => HeldSharesAreWrittenOrStaged
  BY DEF IInv, HolderInv, HeldAreBacked, Elements, HeldSharesAreWrittenOrStaged
<1> QED
  BY <1>1, InvHolds, PTL

\* For every number of devices, keys, restorations and messages under way: the
\* coordinator records no share, but for the consolidations it waits for, that
\* its device did not once have on flash.
THEOREM SharesCountedOnWereStored == Spec => []RecordedSharesWereStored
<1>1. IInv => RecordedSharesWereStored
  BY DEF IInv, BooksAreBacked, RecordedSharesWereStored
<1> QED
  BY <1>1, InvHolds, PTL

-------------------------------------------------------------------------------
\* A consolidation, owed or asked for, is of a key the coordinator has:
\* deleting a key takes both with it (clear_up_key_deletion).
THEOREM NoConsolidationOfUnknownKeys == Spec => []ConsolidationsAreOfKnownKeys
<1>1. Init => ConsolidationsAreOfKnownKeys
  BY DEF Init, CoordinatorInit, ConsolidationsAreOfKnownKeys
<1>2. ASSUME ConsolidationsAreOfKnownKeys, [Next]_vars
      PROVE  ConsolidationsAreOfKnownKeys'
  <2> USE DEF ConsolidationsAreOfKnownKeys, keysVars, tmpVars
  <2>1. CASE UNCHANGED coordinator
    BY <1>2, <2>1 DEF coordinator
  <2>2. CASE Ask
    <3>1. ASSUME NEW id \in Restorations, FinishRestoring(id)
          PROVE  ConsolidationsAreOfKnownKeys'
      <4> DEFINE r == restoration[id]
                 good == {h \in r.held : h.share.key = r.key}
      <4>1. PICK f \in Indexed(good) :
              pending' = pending \cup {Owed(d, f[d]) : d \in NeedConsolidating(good)}
        BY <3>1 DEF FinishRestoring
      <4>2. known' = known \cup {r.key} /\ UNCHANGED waitingStore
        BY <3>1 DEF FinishRestoring
      <4>3. ASSUME NEW d \in NeedConsolidating(good)
            PROVE  Owed(d, f[d]).share.key = r.key
        BY DEF NeedConsolidating, Indexed, Owed
      <4> HIDE DEF good
      <4> QED
        BY <1>2, <4>1, <4>2, <4>3
    <3>2. ASSUME NEW k \in Keys, DeleteKey(k)
          PROVE  ConsolidationsAreOfKnownKeys'
      BY <1>2, <3>2 DEF DeleteKey, Cleared
    <3>3. ASSUME NEW o \in recorded, DeleteShare(o)
          PROVE  ConsolidationsAreOfKnownKeys'
      BY <1>2, <3>3 DEF DeleteShare
    <3>4. CASE ClearTmpData
      BY <1>2, <3>4 DEF ClearTmpData
    <3>5. ASSUME NEW d \in Devices, RequestHeldShares(d) \/ LoadPhysicalBackup(d) \/ ConsolidatePending(d)
          PROVE  ConsolidationsAreOfKnownKeys'
      BY <2>1, <3>5 DEF RequestHeldShares, LoadPhysicalBackup, ConsolidatePending, Only
    <3>6. ASSUME NEW id \in Restorations, StartRestoring(id) \/ CancelRestoration(id)
          PROVE  ConsolidationsAreOfKnownKeys'
      BY <1>2, <3>6 DEF StartRestoring, CancelRestoration
    <3>7. ASSUME NEW id \in Restorations, NEW d \in Devices, DeleteRestorationShare(id, d)
          PROVE  ConsolidationsAreOfKnownKeys'
      BY <1>2, <3>7 DEF DeleteRestorationShare
    <3> QED
      BY <2>2, <3>1, <3>2, <3>3, <3>4, <3>5, <3>6, <3>7 DEF Ask
  <2>3. ASSUME NEW m \in fromDevice, ConsolidateBackup(m)
        PROVE  ConsolidationsAreOfKnownKeys'
    BY <1>2, <2>3 DEF ConsolidateBackup, Owed
  <2>4. ASSUME NEW m \in fromDevice, RecvConsolidated(m)
        PROVE  ConsolidationsAreOfKnownKeys'
    BY <1>2, <2>4 DEF RecvConsolidated
  <2>5. ASSUME NEW m \in fromDevice, RecoverShare(m)
        PROVE  ConsolidationsAreOfKnownKeys'
    BY <1>2, <2>5 DEF RecoverShare, Owed
  <2>6. ASSUME NEW m \in fromDevice, NEW id \in Restorations,
               SaveBackup(m, id) \/ AddRecoveryShare(m, id) \/ StartFromShare(m, id)
        PROVE  ConsolidationsAreOfKnownKeys'
    BY <1>2, <2>6 DEF SaveBackup, AddRecoveryShare, StartFromShare
  <2>7. ASSUME NEW m \in fromDevice, Ignore(m) \/ RecvSaved(m)
        PROVE  ConsolidationsAreOfKnownKeys'
    BY <1>2, <2>7 DEF Ignore, RecvSaved, coordinator
  <2> QED
    BY <1>2, <2>1, <2>2, <2>3, <2>4, <2>5, <2>6, <2>7 DEF Next, Recv, Holder, vars
<1> QED
  BY <1>1, <1>2, PTL DEF Spec
===============================================================================
