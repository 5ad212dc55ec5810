------------------------------ MODULE ShareHolder ------------------------------
(* The shares of a device: what the signer holds in RAM, the one record its  *)
(* flash keeps, and the restoration messages it answers.  A share is known   *)
(* by its image, which tells its key and its index.  Restored backups stay   *)
(* in RAM until a consolidation the user confirms stores the share.          *)
EXTENDS Naturals, Sequences, FiniteSets

CONSTANTS Devices, Keys, Indexes, None,
          Enter,        \* the question whether to type a backup in
          Paper,        \* the backups at hand for each device
          MaxFaults,    \* bound: refused saves
          MaxCuts       \* bound: power cuts

Shares == [key: Keys, index: Indexes]

ASSUME HolderAssumption ==
  /\ None \notin Shares /\ Enter \notin Shares /\ Enter # None
  /\ Paper \in [Devices -> SUBSET Shares]

VARIABLES
  flash,      \* the record of each device, or None
  ram,        \* the shares of the signer's keys
  staged,     \* saved shares not yet on flash, oldest first
  tmp,        \* backups typed in (tmp_loaded_backups)
  saved,      \* backups kept (saved_backups)
  prompt,     \* the question on the glass: Enter, a share to store, or None
  entry,      \* whether a backup is being typed in
  toDevice,   \* messages on their way to each device, in order
  fromDevice, \* answers its coordinator has not acted on yet
  written,    \* ghost: the shares each flash ever held
  faults, cuts

device == <<flash, ram, staged, tmp, saved, prompt, entry>>
holder == <<device, toDevice, fromDevice, written, faults, cuts>>

-------------------------------------------------------------------------------
Loaded(share) == IF share = None THEN {} ELSE {share}

HolderInit(record) ==
  /\ flash = record
  /\ ram = [d \in Devices |-> Loaded(record[d])]
  /\ written = ram
  /\ staged = [d \in Devices |-> <<>>]
  /\ tmp = [d \in Devices |-> {}] /\ saved = tmp
  /\ prompt = [d \in Devices |-> None]
  /\ entry = [d \in Devices |-> FALSE]
  /\ toDevice = [d \in Devices |-> <<>>]
  /\ fromDevice = {}
  /\ faults = 0 /\ cuts = 0

\* A share the device holds for good, and one that still is a typed backup.
HeldShare(s) == [share |-> s, ref |-> s.key, needs |-> FALSE]
Backup(s) == [share |-> s, ref |-> None, needs |-> TRUE]

HeldShares(d) == {HeldShare(s) : s \in ram[d]} \cup {Backup(s) : s \in saved[d]}

-------------------------------------------------------------------------------
(* Session::run: what is staged is stored before anything is said.  The      *)
(* store keeps one share, so it takes one staged share or none: a second     *)
(* one next to a share that was refused is refused too, until the reset.     *)

\* What the device tells and asks when nothing is left to store.
Said(d, answers, question) ==
  /\ fromDevice' = fromDevice \cup answers
  /\ prompt' = [prompt EXCEPT ![d] = question]

Stored(d, share) ==
  /\ staged' = [staged EXCEPT ![d] = <<>>]
  /\ flash' = [flash EXCEPT ![d] = share]
  /\ written' = [written EXCEPT ![d] = @ \cup {share}]
  /\ UNCHANGED faults

\* What stays staged when it could not be stored.  Mutant: nothing does.
DroppedWhenRefused(due) == <<>>
KeptWhenRefused(due) == due

\* The flash refuses, or two shares are staged: nothing is said.  A refused
\* save can leave the record of before unreadable.
NotStored(d, due, otherwise) ==
  /\ staged' = [staged EXCEPT ![d] = KeptWhenRefused(due)]
  /\ \/ /\ Len(due) = 1 /\ faults < MaxFaults
        /\ faults' = faults + 1
        /\ \E left \in {flash[d], None} : flash' = [flash EXCEPT ![d] = left]
     \/ /\ Len(due) > 1
        /\ UNCHANGED <<faults, flash>>
  /\ prompt' = [prompt EXCEPT ![d] = otherwise]
  /\ UNCHANGED written

\* Mutant: the answers leave before the share is known to be on flash.
NotStoredButSaid(d, due, answers, otherwise) ==
  /\ NotStored(d, due, otherwise)
  /\ fromDevice' = fromDevice \cup answers

NotStoredNorSaid(d, due, answers, otherwise) ==
  /\ NotStored(d, due, otherwise)
  /\ UNCHANGED fromDevice

Run(d, due, answers, question, otherwise) ==
  \/ /\ due = <<>>
     /\ Said(d, answers, question)
     /\ UNCHANGED <<staged, flash, written, faults>>
  \/ /\ Len(due) = 1
     /\ Stored(d, Head(due))
     /\ Said(d, answers, question)
  \/ NotStoredNorSaid(d, due, answers, otherwise)

Answer(d, type, s) == [from |-> d, type |-> type, of |-> s]

-------------------------------------------------------------------------------
(* Messages of the coordinator.                                              *)

Take(d, type) ==
  /\ toDevice[d] # <<>>
  /\ Head(toDevice[d]).type = type
  /\ toDevice' = [toDevice EXCEPT ![d] = Tail(@)]
  /\ UNCHANGED cuts

RunAnswer(d, answers) == Run(d, staged[d], answers, prompt[d], prompt[d])
RunQuestion(d, question) == Run(d, staged[d], {}, question, prompt[d])
Fails == UNCHANGED <<staged, flash, prompt, fromDevice, written, faults>>

RecvEnter(d) ==
  /\ Take(d, "enter")
  /\ RunQuestion(d, Enter)
  /\ UNCHANGED <<ram, tmp, saved, entry>>

\* SavePhysicalBackup2: a typed backup is kept, in RAM only; the mutation that
\* would store it is dropped.  One that was not typed in is an error.
RecvSave(d) ==
  LET s == Head(toDevice[d]).of IN
  /\ Take(d, "save")
  /\ \/ /\ s \in tmp[d]
        /\ tmp' = [tmp EXCEPT ![d] = @ \ {s}]
        /\ saved' = [saved EXCEPT ![d] = @ \cup {s}]
        /\ RunAnswer(d, {Answer(d, "saved", s)})
     \/ /\ s \notin tmp[d]
        /\ Fails
        /\ UNCHANGED <<tmp, saved>>
  /\ UNCHANGED <<ram, entry>>

\* Consolidate: a backup is asked about; a share already held is answered.
RecvConsolidate(d) ==
  LET s == Head(toDevice[d]).of
      backups == saved[d] \cup tmp[d]
  IN
  /\ Take(d, "consolidate")
  /\ \/ /\ s \in backups
        /\ RunQuestion(d, s)
     \/ /\ s \in ram[d] \ backups
        /\ RunAnswer(d, {Answer(d, "consolidated", s)})
     \/ /\ s \notin ram[d] \cup backups
        /\ Fails
  /\ UNCHANGED <<ram, tmp, saved, entry>>

\* One answer for each share of the list: its reader takes one at a time.
RecvRequestHeldShares(d) ==
  /\ Take(d, "request")
  /\ RunAnswer(d, {Answer(d, "held", h) : h \in HeldShares(d)})
  /\ UNCHANGED <<ram, tmp, saved, entry>>

\* Cancel drops the typed backups and the entry, not the parked question.
RecvCancel(d) ==
  /\ Take(d, "cancel")
  /\ tmp' = [tmp EXCEPT ![d] = {}]
  /\ entry' = [entry EXCEPT ![d] = FALSE]
  /\ UNCHANGED <<flash, ram, staged, saved, prompt, fromDevice, written, faults>>

-------------------------------------------------------------------------------
(* The user.                                                                 *)

Answered(d) ==
  /\ prompt[d] # None
  /\ prompt' = [prompt EXCEPT ![d] = None]
  /\ UNCHANGED <<toDevice, cuts>>

Decline(d) ==
  /\ Answered(d)
  /\ UNCHANGED <<flash, ram, staged, tmp, saved, entry, fromDevice, written, faults>>

ConfirmEnter(d) ==
  /\ prompt[d] = Enter
  /\ Answered(d)
  /\ entry' = [entry EXCEPT ![d] = TRUE]
  /\ UNCHANGED <<flash, ram, staged, tmp, saved, fromDevice, written, faults>>

\* The last word of a backup; the words may be of any share, or be given up.
EnterBackup(d) ==
  /\ entry[d] /\ prompt[d] = None
  /\ entry' = [entry EXCEPT ![d] = FALSE]
  /\ \/ \E s \in Paper[d] : /\ tmp' = [tmp EXCEPT ![d] = @ \cup {s}]
                         /\ RunAnswer(d, {Answer(d, "entered", s)})
     \/ Fails /\ UNCHANGED tmp
  /\ UNCHANGED <<ram, saved, toDevice, cuts>>

\* Saving a share starts its key afresh and drops the typed backup of it.
KeyReplaced(had, s) == {h \in had : h.key # s.key} \cup {s}

\* finish_consolidation: staged, stored, and only then answered.
ConfirmConsolidate(d) ==
  LET s == prompt[d] IN
  /\ s \in Shares
  /\ ram' = [ram EXCEPT ![d] = KeyReplaced(@, s)]
  /\ tmp' = [tmp EXCEPT ![d] = @ \ {s}]
  /\ saved' = [saved EXCEPT ![d] = @ \ {s}]
  /\ Run(d, Append(staged[d], s), {Answer(d, "consolidated", s)}, None, None)
  /\ UNCHANGED <<entry, toDevice, cuts>>

\* The device loses power: its RAM and the messages to it go, and what it
\* had said may be lost with it.
PowerCut(d) ==
  /\ cuts < MaxCuts
  /\ cuts' = cuts + 1
  /\ ram' = [ram EXCEPT ![d] = Loaded(flash[d])]
  /\ staged' = [staged EXCEPT ![d] = <<>>]
  /\ tmp' = [tmp EXCEPT ![d] = {}]
  /\ saved' = [saved EXCEPT ![d] = {}]
  /\ prompt' = [prompt EXCEPT ![d] = None]
  /\ entry' = [entry EXCEPT ![d] = FALSE]
  /\ toDevice' = [toDevice EXCEPT ![d] = <<>>]
  /\ \E heard \in SUBSET {m \in fromDevice : m.from = d} :
       fromDevice' = {m \in fromDevice : m.from # d} \cup heard
  /\ UNCHANGED <<flash, written, faults>>

HolderStep(d) ==
  \/ RecvEnter(d)
  \/ RecvSave(d)
  \/ RecvConsolidate(d)
  \/ RecvRequestHeldShares(d)
  \/ RecvCancel(d)
  \/ Decline(d)
  \/ ConfirmEnter(d)
  \/ EnterBackup(d)
  \/ ConfirmConsolidate(d)
  \/ PowerCut(d)
-------------------------------------------------------------------------------
\* A share the device holds for good was on its flash or is still staged for
\* it: a refused save is neither forgotten nor taken for done, so no later
\* answer speaks of a share the next power cut takes away unwritten.
HeldSharesAreWrittenOrStaged ==
  \A d \in Devices, s \in Shares :
    s \in ram[d] => s \in written[d] \/ \E i \in DOMAIN staged[d] : staged[d][i] = s
===============================================================================
