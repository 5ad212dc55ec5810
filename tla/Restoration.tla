------------------------------ MODULE Restoration ------------------------------
(* Restoring keys: the coordinator's restorations, keys and consolidations,  *)
(* composed with the devices that hold the shares.  A key is back when       *)
(* Threshold of its shares are collected; a backup that was typed into a     *)
(* device then waits for the consolidation that stores it there.             *)
EXTENDS ShareHolder

CONSTANTS Restorations, Threshold,
          Backed,       \* the record each device starts with, or None
          Knows,        \* the keys the coordinator starts with
          MaxInFlight   \* bound: messages and answers outstanding when one is sent

ASSUME RestorationAssumption == Backed \in [Devices -> Shares \cup {None}]

VARIABLES
  known,        \* the keys of the coordinator
  recorded,     \* which device has which share of them (device_to_share_index)
  restoration,  \* per id: "unused", "gone", or what it has collected
  pending,      \* consolidations that are owed (pending_physical_consolidations)
  waitingStore, \* consolidations asked for (tmp_waiting_consolidate)
  waitingSave   \* backups asked to be kept (tmp_waiting_save)

keysVars == <<known, recorded>>
tmpVars == <<waitingStore, waitingSave>>
coordinator == <<keysVars, restoration, pending, tmpVars>>
vars == <<holder, coordinator>>

-------------------------------------------------------------------------------
Unused == [state |-> "unused", held |-> {}, key |-> None]
Gone == [Unused EXCEPT !.state = "gone"]

CoordinatorInit ==
  /\ known = Knows
  /\ recorded = {[device |-> d, share |-> Backed[d]] :
                   d \in {e \in Devices : Backed[e] # None /\ Backed[e].key \in Knows}}
  /\ restoration = [r \in Restorations |-> Unused]
  /\ pending = {} /\ waitingStore = {} /\ waitingSave = {}

Init == HolderInit(Backed) /\ CoordinatorInit

Open(r) == restoration[r].state = "open"

\* try_fuzzy_recovery: a key of which Threshold indexes are there.  With more
\* than one such key, which is found first is left open.
Images(held) == {h.share : h \in held}
Recoverable(held) ==
  {k \in Keys : Cardinality({s.index : s \in {t \in Images(held) : t.key = k}}) >= Threshold}
Recovered(held) == IF Recoverable(held) = {} THEN {None} ELSE Recoverable(held)

Collected(held, key) == [state |-> "open", held |-> held, key |-> key]

\* The key a restoration is for: recovered, or named by a share it has.
RefOf(r) == (IF r.key = None THEN {h.ref : h \in r.held} ELSE {r.key}) \ {None}

\* RestorationProgress2.  Fails when the restoration is not there, or the share
\* names another key than the restoration's.
ProgressFails(id, held) ==
  ~Open(id) \/ (held.ref # None /\ RefOf(restoration[id]) \notin {{}, {held.ref}})

Progress(id, d, h) ==
  LET share == [device |-> d, share |-> h.share, ref |-> h.ref, needs |-> h.needs]
      r == restoration[id]
      all == r.held \cup {share}
      gotIt == \E o \in r.held : o.device = d /\ o.share = h.share
  IN
  \/ /\ gotIt \/ ProgressFails(id, h)
     /\ UNCHANGED restoration
  \/ /\ ~gotIt /\ ~ProgressFails(id, h)
     /\ \E k \in Recovered(all) : restoration' = [restoration EXCEPT ![id] = Collected(all, k)]

-------------------------------------------------------------------------------
(* What the app asks of the coordinator.                                     *)

Outstanding == Cardinality({d \in Devices : toDevice[d] # <<>>}) + Cardinality(fromDevice)

Send(d, type, s) ==
  /\ toDevice[d] = <<>> /\ Outstanding < MaxInFlight
  /\ toDevice' = [toDevice EXCEPT ![d] = Append(@, [type |-> type, of |-> s])]
  /\ UNCHANGED <<device, written, faults, cuts>>

Only(d, type, s) == Send(d, type, s) /\ UNCHANGED <<fromDevice, coordinator>>

RequestHeldShares(d) == fromDevice = {} /\ Only(d, "request", None)
LoadPhysicalBackup(d) == Paper[d] # {} /\ Only(d, "enter", None)
ConsolidatePending(d) == \E p \in pending : p.device = d /\ Only(d, "consolidate", p.share)

StartRestoring(id) ==
  /\ restoration[id] = Unused
  /\ restoration' = [restoration EXCEPT ![id] = Collected({}, None)]
  /\ UNCHANGED <<holder, keysVars, pending, tmpVars>>

CancelRestoration(id) ==
  /\ Open(id)
  /\ restoration' = [restoration EXCEPT ![id] = Gone]
  /\ UNCHANGED <<holder, keysVars, pending, tmpVars>>

DeleteRestorationShare(id, d) ==
  /\ Open(id)
  /\ \E h \in restoration[id].held :
       LET left == restoration[id].held \ {h} IN
       /\ h.device = d
       /\ \E k \in Recovered(left) :
            restoration' = [restoration EXCEPT ![id] = Collected(left, k)]
  /\ UNCHANGED <<holder, keysVars, pending, tmpVars>>

\* One index for each device that has a share of the key: its last, and which
\* that is is left open.
Indexed(held) ==
  {f \in [{h.device : h \in held} -> Shares] :
     \A d \in DOMAIN f : \E h \in held : h.device = d /\ h.share = f[d]}

Rerecord(news) ==
  {o \in recorded : \A n \in news : o.device # n.device \/ o.share.key # n.share.key} \cup news

Owed(d, s) == [device |-> d, share |-> s]

\* Mutant: the backups that were collected count as stored.
NeedNothing(held) == {}
NeedConsolidating(held) == {h.device : h \in {o \in held : o.needs}}

\* finish_restoring: the key is there, with the backups still to be stored.
FinishRestoring(id) ==
  LET r == restoration[id]
      good == {h \in r.held : h.share.key = r.key}
  IN
  /\ Open(id) /\ r.key # None
  /\ known' = known \cup {r.key}
  /\ \E f \in Indexed(good) :
       /\ recorded' = Rerecord({Owed(d, f[d]) : d \in DOMAIN f})
       /\ pending' = pending \cup {Owed(d, f[d]) : d \in NeedConsolidating(good)}
  /\ restoration' = [restoration EXCEPT ![id] = Gone]
  /\ UNCHANGED <<holder, tmpVars>>

\* Mutant: deleting a key leaves the consolidations it was asked for.
ClearedPendingOnly(k, asked) == asked
Cleared(k, asked) == {o \in asked : o.share.key # k}

\* DeleteKey, with clear_up_key_deletion.
DeleteKey(k) ==
  /\ k \in known
  /\ known' = known \ {k}
  /\ recorded' = {o \in recorded : o.share.key # k}
  /\ pending' = {p \in pending : p.share.key # k}
  /\ waitingStore' = Cleared(k, waitingStore)
  /\ UNCHANGED <<holder, restoration, waitingSave>>

DeleteShare(o) ==
  /\ o \in recorded
  /\ recorded' = recorded \ {o}
  /\ UNCHANGED <<holder, known, restoration, pending, tmpVars>>

\* Cancel: the app drops what it waits for and tells every device; a second one
\* behind one that is under way would change nothing more.
ClearTmpData ==
  /\ \A d \in Devices : \A i \in DOMAIN toDevice[d] : toDevice[d][i].type # "cancel"
  /\ toDevice' = [d \in Devices |-> Append(toDevice[d], [type |-> "cancel", of |-> None])]
  /\ waitingStore' = {} /\ waitingSave' = {}
  /\ UNCHANGED <<device, fromDevice, written, faults, cuts, keysVars, restoration, pending>>

-------------------------------------------------------------------------------
(* What the devices answer, and what the app does with it.  An answer waits  *)
(* until the app acts on it; the answers that ask nothing of the app are     *)
(* handled as they come.                                                     *)

Hear(m, type) == m \in fromDevice /\ m.type = type

Forget(m) ==
  /\ fromDevice' = fromDevice \ {m}
  /\ UNCHANGED <<device, written, faults, cuts>>

Act(m) == Forget(m) /\ UNCHANGED toDevice

Ignore(m) ==
  /\ m.type \in {"entered", "held"}
  /\ Act(m)
  /\ UNCHANGED coordinator

\* prepare_save_physical_backup: the key is named when the backup completes it.
Prepared(id, d, s) ==
  LET all == restoration[id].held \cup {[device |-> d, share |-> s, ref |-> None, needs |-> TRUE]}
  IN  {[Backup(s) EXCEPT !.ref = IF k = s.key THEN k ELSE None] : k \in Recovered(all)}

\* tell_device_to_save_physical_backup
SaveBackup(m, id) ==
  /\ Hear(m, "entered") /\ Open(id)
  /\ \E h \in Prepared(id, m.from, m.of) :
       waitingSave' = {w \in waitingSave : w.device # m.from \/ w.held.share # m.of}
                        \cup {[device |-> m.from, held |-> h, id |-> id]}
  /\ Send(m.from, "save", m.of)
  /\ fromDevice' = fromDevice \ {m}
  /\ UNCHANGED <<keysVars, restoration, pending, waitingStore>>

\* tell_device_to_consolidate_physical_backup: the backup is of a known key.
ConsolidateBackup(m) ==
  /\ Hear(m, "entered") /\ m.of.key \in known
  /\ waitingStore' = waitingStore \cup {Owed(m.from, m.of)}
  /\ Send(m.from, "consolidate", m.of)
  /\ fromDevice' = fromDevice \ {m}
  /\ UNCHANGED <<keysVars, restoration, pending, waitingSave>>

RecvSaved(m) ==
  /\ Hear(m, "saved") /\ Act(m)
  /\ \/ \E w \in waitingSave :
          /\ w.device = m.from /\ w.held.share = m.of
          /\ waitingSave' = waitingSave \ {w}
          /\ Progress(w.id, m.from, w.held)
     \/ /\ \A w \in waitingSave : w.device # m.from \/ w.held.share # m.of
        /\ UNCHANGED <<waitingSave, restoration>>
  /\ UNCHANGED <<keysVars, pending, waitingStore>>

\* FinishedConsolidation: one that was asked for records the share; one that
\* was owed is settled; any other is an error.
RecvConsolidated(m) ==
  LET c == Owed(m.from, m.of) IN
  /\ Hear(m, "consolidated") /\ Act(m)
  /\ \/ /\ c \in waitingStore
        /\ waitingStore' = waitingStore \ {c}
        /\ recorded' = IF m.of.key \in known THEN Rerecord({c}) ELSE recorded
        /\ UNCHANGED pending
     \/ /\ c \notin waitingStore
        /\ pending' = pending \ {c}
        /\ UNCHANGED <<recorded, waitingStore>>
  /\ UNCHANGED <<known, restoration, waitingSave>>

\* find_share: a share of a known key, or of a restoration, belongs there.
FoundIn(s) ==
  IF s.key \in known THEN {None}
  ELSE {id \in Restorations :
          Open(id) /\ (s \in Images(restoration[id].held) \/ restoration[id].key = s.key)}

\* add_recovery_share_to_restoration
AddRecoveryShare(m, id) ==
  LET r == restoration[id] IN
  /\ Hear(m, "held") /\ Open(id)
  /\ FoundIn(m.of.share) \subseteq {id}
  /\ \A h \in r.held : h.device # m.from \/ h.share # m.of.share
  /\ ~ProgressFails(id, m.of)
  /\ Act(m)
  /\ Progress(id, m.from, m.of)
  /\ UNCHANGED <<keysVars, pending, tmpVars>>

\* start_restoring_key_from_recover_share
StartFromShare(m, id) ==
  LET h == [device |-> m.from, share |-> m.of.share, ref |-> m.of.ref, needs |-> m.of.needs] IN
  /\ Hear(m, "held") /\ restoration[id] = Unused
  /\ m.of.ref \notin known
  /\ Act(m)
  /\ restoration' = [restoration EXCEPT ![id] = Collected({h}, None)]
  /\ UNCHANGED <<keysVars, pending, tmpVars>>

\* recover_share: a device with no share of a known key recorded has one.
RecoverShare(m) ==
  LET s == m.of.share IN
  /\ Hear(m, "held") /\ s.key \in known
  /\ \A o \in recorded : o.device # m.from \/ o.share.key # s.key
  /\ Act(m)
  /\ recorded' = Rerecord({Owed(m.from, s)})
  /\ pending' = IF m.of.ref = None THEN pending \cup {Owed(m.from, s)} ELSE pending
  /\ UNCHANGED <<known, restoration, tmpVars>>

-------------------------------------------------------------------------------
Ask ==
  \/ \E d \in Devices : RequestHeldShares(d) \/ LoadPhysicalBackup(d) \/ ConsolidatePending(d)
  \/ \E id \in Restorations :
       \/ StartRestoring(id)
       \/ CancelRestoration(id)
       \/ FinishRestoring(id)
       \/ \E d \in Devices : DeleteRestorationShare(id, d)
  \/ \E k \in Keys : DeleteKey(k)
  \/ \E o \in recorded : DeleteShare(o)
  \/ ClearTmpData

Recv ==
  \E m \in fromDevice :
    \/ Ignore(m)
    \/ ConsolidateBackup(m)
    \/ RecvSaved(m)
    \/ RecvConsolidated(m)
    \/ RecoverShare(m)
    \/ \E id \in Restorations : SaveBackup(m, id) \/ AddRecoveryShare(m, id) \/ StartFromShare(m, id)

Holder == (\E d \in Devices : HolderStep(d)) /\ UNCHANGED coordinator

Next == Ask \/ Recv \/ Holder
Spec == Init /\ [][Next]_vars
-------------------------------------------------------------------------------
\* A share the coordinator counts on and does not wait for was on the flash of
\* its device: neither a refused save, a power cut, a cancelled flow nor a
\* deleted key makes it count on one that never was.
RecordedSharesWereStored ==
  \A o \in recorded : o \in pending \/ o.share \in written[o.device]

\* A consolidation that is owed or asked for is of a key the coordinator has:
\* both paths take the key with expect("invariant") or fail without it.
ConsolidationsAreOfKnownKeys == \A o \in pending \cup waitingStore : o.share.key \in known
===============================================================================
