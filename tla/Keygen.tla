-------------------------------- MODULE Keygen --------------------------------
(* Key generation: the coordinator's pending keygens, the phases on each     *)
(* device, its screen, and the one share record it keeps on flash.  A key is *)
(* known by the keygen that makes it.  Coordinator and device are joined by  *)
(* two ordered channels, which are lost with the device's RAM on a reset.    *)
EXTENDS AbFormat, FiniteSets, Sequences

CONSTANTS Devices, Keygens,
          Members,      \* the devices of each keygen
          FlashFaults,  \* whether writes may fail or be cut by a power loss
          MayCancel,    \* whether keygens are cancelled or declined
          Naming,       \* whether the application previews device names
          MaxInFlight,  \* bound: messages in a channel
          MaxResets     \* bound: devices unplugged

ASSUME KeygenAssumption ==
  /\ Members \in [Keygens -> SUBSET Devices]
  /\ \A k \in Keygens : Members[k] # {}
  /\ None \notin Keygens
  /\ {FlashFaults, MayCancel, Naming} \subseteq BOOLEAN
  /\ MaxInFlight \in Nat /\ MaxResets \in Nat

VARIABLES kg,         \* KeyGenState of each keygen
          got,        \* the devices that have answered in that state
          dev,        \* each device, see FreshDevice
          toDevice, toCoord,
          resets,
          confirmed,  \* ghost: keygens confirmed on each device's screen
          saved       \* ghost: shares that were ever readable on its flash

vars == <<kg, got, dev, toDevice, toCoord, resets, confirmed, saved>>
coordVars == <<kg, got>>

Waiting == {"responses", "certificates", "acks"}
Pending == Waiting \cup {"finalize"}

(* A device: the tmp_keygen maps, the prompt on the screen, the shares the   *)
(* signer holds in the order it got them, the staged mutations (one keygen   *)
(* triple per element), the share record, the previewed and the stored name. *)
FreshDevice ==
  [tmp |-> [k \in Keygens |-> "none"], parked |-> None, ram |-> <<>>, staged |-> <<>>,
   flash |-> Blank, preview |-> None, name |-> None]

Init == /\ kg = [k \in Keygens |-> "new"]
        /\ got = [k \in Keygens |-> {}]
        /\ dev = [d \in Devices |-> FreshDevice]
        /\ toDevice = [d \in Devices |-> <<>>]
        /\ toCoord = [d \in Devices |-> <<>>]
        /\ resets = 0
        /\ confirmed = [d \in Devices |-> {}]
        /\ saved = [d \in Devices |-> {}]

Room(channel) == Len(channel) < MaxInFlight

-------------------------------------------------------------------------------
(* The coordinator.                                                          *)

\* One message to every member.
Broadcast(k, type) ==
  /\ \A d \in Members[k] : Room(toDevice[d])
  /\ toDevice' = [d \in Devices |-> IF d \notin Members[k] THEN toDevice[d]
                                    ELSE Append(toDevice[d], [type |-> type, keygen |-> k])]

\* begin_keygen
BeginKeygen(k) ==
  /\ kg[k] = "new"
  /\ kg' = [kg EXCEPT ![k] = "responses"]
  /\ Broadcast(k, "begin")
  /\ UNCHANGED <<got, dev, toCoord, resets, confirmed, saved>>

Received(d) == Head(toCoord[d])
Receiving(d, type) ==
  /\ toCoord[d] # <<>> /\ Received(d).type = type
  /\ toCoord' = [toCoord EXCEPT ![d] = Tail(@)]

\* Mutant: everyone has answered when all but one have.
AllButOne(k, answers) == Cardinality(answers) + 1 >= Cardinality(Members[k])
AllIn(k, answers) == answers = Members[k]

\* take_entry takes the state out of the map, and an answer the state does
\* not wait for returns before it is put back.
Dropped(k) == /\ kg' = [kg EXCEPT ![k] = IF @ \in Pending THEN "dropped" ELSE @]
              /\ got' = [got EXCEPT ![k] = {}]

\* An answer in the state that waits for it: with the last of them the keygen
\* moves on and `next` is asked of the members.
Answered(d, k, after, next) ==
  LET answers == got[k] \cup {d}
  IN IF AllIn(k, answers)
     THEN /\ kg' = [kg EXCEPT ![k] = after]
          /\ got' = [got EXCEPT ![k] = {}]
          /\ IF next = None THEN UNCHANGED toDevice ELSE Broadcast(k, next)
     ELSE /\ got' = [got EXCEPT ![k] = answers]
          /\ UNCHANGED <<kg, toDevice>>

RecvAnswer(d, type, state, after, next) ==
  LET k == Received(d).keygen
  IN /\ Receiving(d, type)
     /\ IF kg[k] = state THEN Answered(d, k, after, next)
        ELSE Dropped(k) /\ UNCHANGED toDevice
     /\ UNCHANGED <<dev, resets, confirmed, saved>>

RecvResponse(d) == RecvAnswer(d, "response", "responses", "certificates", "certify")
RecvCertify(d)  == RecvAnswer(d, "certificate", "certificates", "acks", "check")
RecvAck(d)      == RecvAnswer(d, "ack", "acks", "finalize", None)

\* The name a device says it has.
RecvSetName(d) ==
  /\ Receiving(d, "name")
  /\ UNCHANGED <<coordVars, dev, toDevice, resets, confirmed, saved>>

\* finalize_keygen, which the application calls once every device has acked:
\* the key is the coordinator's from here on.
FinalizeKeygen(k) ==
  /\ kg[k] = "finalize"
  /\ kg' = [kg EXCEPT ![k] = "done"]
  /\ Broadcast(k, "finalize")
  /\ UNCHANGED <<got, dev, toCoord, resets, confirmed, saved>>

\* cancel_keygen, and the Cancel the application sends to the devices.
CancelKeygen(k) ==
  /\ MayCancel
  /\ kg[k] \in Pending
  /\ kg' = [kg EXCEPT ![k] = "cancelled"]
  /\ got' = [got EXCEPT ![k] = {}]
  /\ Broadcast(k, "cancel")
  /\ UNCHANGED <<dev, toCoord, resets, confirmed, saved>>

\* The application sends a name that is being typed, for a ceremony under way.
PreviewName(d, k) ==
  /\ Naming
  /\ d \in Members[k] /\ kg[k] \in Pending
  /\ Room(toDevice[d])
  /\ toDevice' = [toDevice EXCEPT ![d] = Append(@, [type |-> "preview", keygen |-> k])]
  /\ UNCHANGED <<coordVars, dev, toCoord, resets, confirmed, saved>>

-------------------------------------------------------------------------------
(* The device's flash, and Session::run, which every handler ends in.        *)

\* ShareStore::load: a record that does not verify is no share.
Loaded(flash) == IF AbRead(flash) = None THEN <<>> ELSE <<AbRead(flash)>>

\* Session::open after a reset.
Rebooted(v) ==
  [FreshDevice EXCEPT !.flash = v.flash, !.name = v.name, !.ram = Loaded(v.flash)]

\* Mutant: a write that was not committed counts as done.
ClearedAlways(outcome) == TRUE
Cleared(outcome) == outcome \in {"committed", "single_copy"}

\* persist_staged: what it leaves and whether it failed or power was cut in it.
PersistStaged(v) ==
  IF v.staged = <<>> THEN {[dev |-> v, result |-> "ok"]}
  ELSE IF Len(v.staged) # 1 THEN {[dev |-> v, result |-> "fault"]}  \* NotOneKeygen
  ELSE LET after(w) == [v EXCEPT !.flash = w.slots,
                                 !.staged = IF Cleared(w.outcome) THEN <<>> ELSE @]
       IN {IF w.outcome = "crash" THEN [dev |-> Rebooted(after(w)), result |-> "crash"]
           ELSE [dev |-> after(w), result |-> IF Cleared(w.outcome) THEN "ok" ELSE "fault"] :
             w \in {x \in WriteResults(v.flash, v.staged[1]) :
                     FlashFaults \/ x.outcome = "committed" \/ Exhausted(v.flash)}}

\* commit_name: SetName is sent once the name is stored.
CommitName(v) ==
  IF v.preview = None THEN {[dev |-> v, sends |-> <<>>]}
  ELSE LET stored(n) == [v EXCEPT !.preview = None, !.name = n]
       IN {[dev |-> stored(v.preview), sends |-> <<[type |-> "name", keygen |-> v.preview]>>]}
          \cup (IF FlashFaults THEN [dev : {stored(n) : n \in {v.preview, v.name, None}},
                                     sends : {<<>>}]
                ELSE {})

\* What the signer hands to run: one message, one prompt, or the end of a keygen.
ToCoordinator(type, k) == [to |-> "coordinator", type |-> type, keygen |-> k]
CheckKeyGen(k)         == [to |-> "screen", type |-> "check", keygen |-> k]
FinalizedKeyGen(k)     == [to |-> "screen", type |-> "finalized", keygen |-> k]

Performed(v, send) ==
  IF send.to = "coordinator"
  THEN {[dev |-> v, sends |-> <<[type |-> send.type, keygen |-> send.keygen]>>]}
  ELSE IF send.type = "check"
  THEN {[dev |-> [v EXCEPT !.parked = send.keygen], sends |-> <<>>]}
  ELSE CommitName(v)

\* Mutant: the outbox is filled before the share is stored.
SendFirst(v, send) ==
  {[dev |-> r.dev, sends |-> r.sends, up |-> p.result # "crash"] :
     r \in UNION {Performed(q.dev, send) : q \in PersistStaged(v)}, p \in PersistStaged(v)}

\* run: nothing is sent and nothing is shown unless what was staged is stored.
Run(v, send) ==
  UNION {IF p.result = "ok"
         THEN {[dev |-> r.dev, sends |-> r.sends, up |-> TRUE] : r \in Performed(p.dev, send)}
         ELSE {[dev |-> p.dev, sends |-> <<>>, up |-> p.result # "crash"]} :
           p \in PersistStaged(v)}

-------------------------------------------------------------------------------
(* The device's handlers: the state the signer goes to before run.           *)

Message(d) == Head(toDevice[d])
Handling(d, type) == toDevice[d] # <<>> /\ Message(d).type = type

\* Whatever is readable on flash was saved.
Recorded(d) == saved' = [saved EXCEPT ![d] =
                 @ \cup {s \in {AbRead(dev'[d].flash)} : s # None}]

\* The device runs `send` from state v; `rest` is what stays of its input.
Runs(d, v, send, rest) ==
  /\ Room(toCoord[d])
  /\ \E r \in Run(v, send) :
       /\ dev' = [dev EXCEPT ![d] = r.dev]
       /\ toDevice' = [toDevice EXCEPT ![d] = IF r.up THEN rest ELSE <<>>]
       /\ toCoord' = [toCoord EXCEPT ![d] = IF r.up THEN @ \o r.sends ELSE <<>>]
  /\ Recorded(d)
  /\ UNCHANGED <<coordVars, resets>>

\* A message without the phase it continues is refused, and nothing runs.
Refused(d) ==
  /\ toDevice' = [toDevice EXCEPT ![d] = Tail(@)]
  /\ UNCHANGED <<coordVars, dev, toCoord, resets, saved>>

\* The device goes from phase `from` of the keygen to `to`.
Phase(d, type, from, to, send) ==
  LET k == Message(d).keygen
      v == dev[d]
  IN /\ Handling(d, type)
     /\ IF from # None /\ v.tmp[k] # from THEN Refused(d)
        ELSE Runs(d, [v EXCEPT !.tmp[k] = to], send, Tail(toDevice[d]))
     /\ UNCHANGED confirmed

\* keygen_begin, keygen_certify_please, keygen_check: the phase moves into the
\* prompt, which takes the place of the one on the screen.
RecvBegin(d) ==
  Phase(d, "begin", None, "phase1", ToCoordinator("response", Message(d).keygen))
RecvCertifyPlease(d) ==
  Phase(d, "certify", "phase1", "phase2", ToCoordinator("certificate", Message(d).keygen))
RecvCheck(d) ==
  Phase(d, "check", "phase2", "none", CheckKeyGen(Message(d).keygen))

\* Mutant: the share is staged with the ack, for a key that may never be.
StagedEarly(v, k) == [v EXCEPT !.tmp[k] = "none", !.ram = Append(@, k),
                               !.staged = Append(@, k), !.parked = None]

\* keygen_ack keeps the share until the coordinator finalizes.
Acked(v, k) == [v EXCEPT !.tmp[k] = "pending", !.parked = None]

\* confirm_at: the user agrees to the session hash on the screen.
Confirm(d) ==
  LET k == dev[d].parked
  IN /\ k # None
     /\ Runs(d, Acked(dev[d], k), ToCoordinator("ack", k), toDevice[d])
     /\ confirmed' = [confirmed EXCEPT ![d] = @ \cup {k}]

Decline(d) ==
  /\ MayCancel
  /\ dev[d].parked # None
  /\ dev' = [dev EXCEPT ![d].parked = None]
  /\ UNCHANGED <<coordVars, toDevice, toCoord, resets, confirmed, saved>>

\* keygen_finalize and save_complete_share.
RecvFinalize(d) ==
  LET k == Message(d).keygen
      v == dev[d]
  IN /\ Handling(d, "finalize")
     /\ IF v.tmp[k] # "pending" THEN Refused(d)
        ELSE Runs(d, [v EXCEPT !.tmp[k] = "none", !.ram = Append(@, k), !.staged = Append(@, k)],
                  FinalizedKeyGen(k), Tail(toDevice[d]))
     /\ UNCHANGED confirmed

\* Cancel abandons every keygen and the name, not the prompt.
Abandoned(v) == [v EXCEPT !.tmp = FreshDevice.tmp, !.preview = None]

RecvCancel(d) ==
  /\ Handling(d, "cancel")
  /\ toDevice' = [toDevice EXCEPT ![d] = Tail(@)]
  /\ dev' = [dev EXCEPT ![d] = Abandoned(@)]
  /\ UNCHANGED <<coordVars, toCoord, resets, confirmed, saved>>

\* Mutant: a preview is stored.
Renamed(v, n) == [v EXCEPT !.preview = n, !.name = n]
Previewed(v, n) == [v EXCEPT !.preview = n]

RecvPreview(d) ==
  /\ Handling(d, "preview")
  /\ toDevice' = [toDevice EXCEPT ![d] = Tail(@)]
  /\ dev' = [dev EXCEPT ![d] = Previewed(@, Message(d).keygen)]
  /\ UNCHANGED <<coordVars, toCoord, resets, confirmed, saved>>

\* The cable is pulled.
Unplug(d) ==
  /\ resets < MaxResets
  /\ resets' = resets + 1
  /\ dev' = [dev EXCEPT ![d] = Rebooted(@)]
  /\ toDevice' = [toDevice EXCEPT ![d] = <<>>]
  /\ toCoord' = [toCoord EXCEPT ![d] = <<>>]
  /\ UNCHANGED <<coordVars, confirmed, saved>>

-------------------------------------------------------------------------------
Next ==
  \/ \E k \in Keygens :
       \/ BeginKeygen(k) \/ FinalizeKeygen(k) \/ CancelKeygen(k)
       \/ \E d \in Devices : PreviewName(d, k)
  \/ \E d \in Devices :
       \/ RecvResponse(d) \/ RecvCertify(d) \/ RecvAck(d) \/ RecvSetName(d)
       \/ RecvBegin(d) \/ RecvCertifyPlease(d) \/ RecvCheck(d) \/ Confirm(d)
       \/ Decline(d) \/ RecvFinalize(d) \/ RecvCancel(d) \/ RecvPreview(d)
       \/ Unplug(d)

Spec == Init /\ [][Next]_vars

\* The link delivers, the application finalizes, users confirm what they see.
Fairness ==
  /\ \A k \in Keygens : WF_vars(FinalizeKeygen(k))
  /\ \A d \in Devices :
       /\ WF_vars(RecvResponse(d)) /\ WF_vars(RecvCertify(d)) /\ WF_vars(RecvAck(d))
       /\ WF_vars(RecvBegin(d)) /\ WF_vars(RecvCertifyPlease(d)) /\ WF_vars(RecvCheck(d))
       /\ WF_vars(Confirm(d)) /\ WF_vars(RecvFinalize(d))

FairSpec == Spec /\ Fairness

-------------------------------------------------------------------------------
Shares(v) == {v.ram[i] : i \in 1..Len(v.ram)}

(* Every variable has its type, and what is staged for flash is what the     *)
(* signer got last.                                                          *)
TypeOK ==
  /\ kg \in [Keygens -> Pending \cup {"new", "done", "dropped", "cancelled"}]
  /\ \A k \in Keygens : got[k] \subseteq Members[k] /\ (kg[k] \notin Waiting => got[k] = {})
  /\ \A d \in Devices :
       LET v == dev[d]
       IN /\ v.tmp \in [Keygens -> {"none", "phase1", "phase2", "pending"}]
          /\ {v.parked, v.preview, v.name} \subseteq Keygens \cup {None}
          /\ Shares(v) \subseteq Keygens
          /\ v.flash \in [Copies -> SlotOver(Keygens)]
          /\ Len(v.staged) <= Len(v.ram)
          /\ v.staged = SubSeq(v.ram, Len(v.ram) - Len(v.staged) + 1, Len(v.ram))
  /\ resets \in 0..MaxResets

(* A key the coordinator keeps was agreed to on the screen of every member:  *)
(* nobody can be counted in who has not compared the session hash.           *)
KeysAreConfirmed ==
  \A k \in Keygens : kg[k] = "done" => \A d \in Members[k] : k \in confirmed[d]

(* A device keeps a share, in RAM or on flash, only of a key the coordinator *)
(* finalized: an abandoned ceremony leaves nothing behind.                   *)
SharesAreOfFinishedKeys ==
  \A d \in Devices : \A k \in Shares(dev[d]) \cup saved[d] : kg[k] = "done"

(* Once nothing is staged, a reset brings back the share the device got last *)
(* or finds the record damaged: never a share that a later one replaced.     *)
NoOlderShareReturns ==
  \A d \in Devices :
    LET v == dev[d]
    IN v.staged = <<>> /\ v.ram # <<>> => AbRead(v.flash) \in {v.ram[Len(v.ram)], None}

(* A device says nothing to the coordinator while a share of it is not on    *)
(* flash: run persists before it fills the outbox.                           *)
NothingIsSaidUnsaved ==
  [][\A d \in Devices : Len(toCoord'[d]) > Len(toCoord[d]) => dev'[d].staged = <<>>]_vars

(* A name is stored only on a device whose user has agreed to a keygen that  *)
(* was finished: the coordinator cannot rename a device on its own.          *)
NamesAreApproved ==
  \A d \in Devices : dev[d].name # None => \E k \in confirmed[d] : kg[k] = "done"

(* The name previewed for a cancelled ceremony is forgotten before anything  *)
(* sent later is handled, so that the next keygen does not store it.         *)
PreviewsAreForgotten ==
  \A d \in Devices : \A k \in Keygens : dev[d].preview = k /\ kg[k] = "cancelled" =>
    \E i \in 1..Len(toDevice[d]) : toDevice[d][i].type = "cancel"

(* No keygen is lost by an answer that comes in a state that does not wait   *)
(* for it, where take_entry has removed the state.                           *)
KeygensAreNotDropped == \A k \in Keygens : kg[k] # "dropped"

(* Left alone, a keygen ends with its key at the coordinator and its share   *)
(* on the flash of every member.                                             *)
KeygenCompletes ==
  \A k \in Keygens :
    kg[k] = "responses" ~> kg[k] = "done" /\ \A d \in Members[k] : k \in saved[d]

(* lib.rs and store.rs say that the share is on flash before the ack leaves, *)
(* so that the coordinator never counts a share that a power cut has lost:   *)
(* the share of a finished key is saved, or is about to be.                  *)
FinishedSharesExist ==
  \A k \in Keygens : kg[k] = "done" => \A d \in Members[k] :
    \/ k \in saved[d]
    \/ \E i \in 1..Len(dev[d].staged) : dev[d].staged[i] = k
    \/ /\ dev[d].tmp[k] = "pending"
       /\ \E i \in 1..Len(toDevice[d]) : toDevice[d][i] = [type |-> "finalize", keygen |-> k]
===============================================================================
