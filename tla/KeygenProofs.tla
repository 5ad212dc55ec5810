----------------------------- MODULE KeygenProofs -----------------------------
(* The ceremony's promises, for every set of devices and keygens, channels   *)
(* of any length, and whatever the flash and the cable do.                   *)
EXTENDS Keygen, AbSlotProofs, SequenceTheorems

Finished == {k \in Keygens : kg[k] = "done"}

Asks == {"begin", "certify", "check", "finalize", "cancel", "preview"}
Says == {"response", "certificate", "ack", "name"}

\* What can be on the wire, given the keys that are done and the keygens the
\* user of the device has agreed to.
Requests(done) ==
  {m \in [type : Asks, keygen : Keygens] : m.type = "finalize" => m.keygen \in done}
Answers(agreed) ==
  {m \in [type : Says, keygen : Keygens] : m.type = "ack" => m.keygen \in agreed}

Phases == {"none", "phase1", "phase2", "pending"}
DeviceState ==
  [tmp : [Keygens -> Phases], parked : Keygens \cup {None}, ram : Seq(Keygens),
   staged : Seq(Keygens), flash : PairOver(Keygens), preview : Keygens \cup {None},
   name : Keygens \cup {None}]

Newest(shares) == shares[Len(shares)]

(* A device: a share waits for the Finalize only if the user agreed, shares  *)
(* are of finished keys wherever they are, and the share on flash is the one *)
(* the signer got last, unless that one is staged.                           *)
Sound(v, agreed, done) ==
  /\ v \in DeviceState
  /\ \A k \in Keygens : v.tmp[k] = "pending" => k \in agreed
  /\ \A i \in 1..Len(v.ram) : v.ram[i] \in done
  /\ AbRead(v.flash) \in done \cup {None}
  /\ v.staged # <<>> => v.ram # <<>> /\ Newest(v.staged) = Newest(v.ram)
  /\ v.staged = <<>> /\ v.ram # <<>> => AbRead(v.flash) \in {Newest(v.ram), None}
  /\ v.name # None => agreed \cap done # {}

CoordInv ==
  /\ kg \in [Keygens -> Pending \cup {"new", "done", "dropped", "cancelled"}]
  /\ got \in [Keygens -> SUBSET Devices]
  /\ confirmed \in [Devices -> SUBSET Keygens]
  /\ saved \in [Devices -> SUBSET Finished]
  /\ \A k \in Keygens :
       /\ kg[k] = "acks" => \A d \in got[k] : k \in confirmed[d]
       /\ kg[k] \in {"finalize", "done"} => \A d \in Members[k] : k \in confirmed[d]

DeviceInv ==
  /\ dev = [d \in Devices |-> dev[d]]
  /\ \A d \in Devices : Sound(dev[d], confirmed[d], Finished)

WireInv ==
  /\ toDevice = [d \in Devices |-> toDevice[d]]
  /\ toCoord = [d \in Devices |-> toCoord[d]]
  /\ \A d \in Devices : /\ toDevice[d] \in Seq(Requests(Finished))
                        /\ toCoord[d] \in Seq(Answers(confirmed[d]))

IInv == CoordInv /\ DeviceInv /\ WireInv

\* What a step may say, as NothingIsSaidUnsaved has it.
SaidIsSaved == \A d \in Devices : Len(toCoord'[d]) > Len(toCoord[d]) => dev'[d].staged = <<>>
-------------------------------------------------------------------------------
LEMMA QueueOf ==
  ASSUME NEW S, NEW q \in Seq(S)
  PROVE  /\ \A m \in S : Append(q, m) \in Seq(S)
         /\ q # <<>> => Head(q) \in S /\ Tail(q) \in Seq(S) /\ Len(Tail(q)) < Len(q)
         /\ <<>> \in Seq(S)
  OBVIOUS

\* More keys done and more agreed to: whatever was right stays so.
LEMMA MoreIsSound ==
  ASSUME NEW A, NEW A2, NEW D, NEW D2, A \subseteq A2, D \subseteq D2, NEW v, Sound(v, A, D)
  PROVE  Sound(v, A2, D2)
<1> HIDE DEF DeviceState
<1> QED BY DEF Sound

LEMMA MoreOnTheWire ==
  ASSUME NEW A, NEW A2, NEW D, NEW D2, A \subseteq A2, D \subseteq D2
  PROVE  /\ \A q \in Seq(Requests(D)) : q \in Seq(Requests(D2))
         /\ \A q \in Seq(Answers(A)) : q \in Seq(Answers(A2))
<1>1. Requests(D) \subseteq Requests(D2) /\ Answers(A) \subseteq Answers(A2)
  BY DEF Requests, Answers
<1> QED
  BY <1>1, SeqMonotonic

-------------------------------------------------------------------------------
\* What survives a reset is the record and the name.
LEMMA RebootedSound ==
  ASSUME NEW A, NEW D \in SUBSET Keygens, NEW v,
         v.flash \in PairOver(Keygens), AbRead(v.flash) \in D \cup {None},
         v.name \in Keygens \cup {None}, v.name # None => A \cap D # {}
  PROVE  Sound(Rebooted(v), A, D)
<1> DEFINE x == AbRead(v.flash)
           w == Rebooted(v)
           none == [k \in Keygens |-> "none"]
           shares == Loaded(v.flash)
<1>0. none \in [Keygens -> Phases] /\ \A k \in Keygens : none[k] # "pending"
  BY DEF Phases
<1> HIDE DEF none, x, shares
<1>1. w = [tmp |-> none, parked |-> None, ram |-> shares,
           staged |-> <<>>, flash |-> v.flash, preview |-> None, name |-> v.name]
  <2>1. FreshDevice = [tmp |-> none, parked |-> None, ram |-> <<>>, staged |-> <<>>,
                       flash |-> Blank, preview |-> None, name |-> None]
    BY Zenon DEF FreshDevice, none
  <2>2. w = [FreshDevice EXCEPT !.flash = v.flash, !.name = v.name, !.ram = shares]
    BY Zenon DEF Rebooted, shares
  <2> HIDE DEF w
  <2> QED
    BY <2>1, <2>2
<1>2. \/ shares = <<>>
      \/ shares = <<x>> /\ x \in D
  BY DEF Loaded, x, shares
<1>3. /\ shares \in Seq(Keygens) /\ \A i \in 1..Len(shares) : shares[i] \in D
      /\ shares # <<>> => x = Newest(shares)
  <2>1. CASE shares = <<>>
    BY <2>1
  <2>2. CASE shares = <<x>> /\ x \in D
    <3>1. <<x>> \in Seq(Keygens) /\ Len(<<x>>) = 1 /\ <<x>>[1] = x
      BY <2>2
    <3> QED
      BY <2>2, <3>1 DEF Newest
  <2> QED
    BY <1>2, <2>1, <2>2
<1>4. w \in DeviceState
  BY <1>0, <1>1, <1>3 DEF DeviceState
<1>5. w.ram = shares /\ (w.ram # <<>> => AbRead(w.flash) \in {Newest(w.ram), None})
  BY <1>1, <1>3 DEF x
<1>6. /\ \A k \in Keygens : w.tmp[k] # "pending"
      /\ w.staged = <<>> /\ w.name = v.name /\ w.flash = v.flash
  BY <1>0, <1>1
<1> HIDE DEF w
<1>7. Sound(w, A, D)
  BY <1>3, <1>4, <1>5, <1>6 DEF Sound
<1> QED
  BY <1>7 DEF w

\* Sound, when the flash and what is staged changed.
LEMMA StoredSound ==
  ASSUME NEW A, NEW D \in SUBSET Keygens, NEW v, Sound(v, A, D), NEW f \in PairOver(Keygens),
         AbRead(f) \in D \cup {None}, NEW g,
         \/ g = v.staged /\ g # <<>>
         \/ g = <<>> /\ (v.ram # <<>> => AbRead(f) \in {Newest(v.ram), None})
  PROVE  Sound([v EXCEPT !.flash = f, !.staged = g], A, D)
<1> DEFINE w == [v EXCEPT !.flash = f, !.staged = g]
<1>1. v \in DeviceState
  BY Zenon DEF Sound
<1>2. g \in Seq(Keygens)
  <2>1. v.staged \in Seq(Keygens)
    BY <1>1 DEF DeviceState
  <2>2. <<>> \in Seq(Keygens)
    OBVIOUS
  <2> QED
    BY <2>1, <2>2, Zenon
<1>3. /\ w \in DeviceState /\ w.tmp = v.tmp /\ w.ram = v.ram /\ w.name = v.name
      /\ w.flash = f /\ w.staged = g
  BY <1>1, <1>2 DEF DeviceState
<1> HIDE DEF w
<1>4. Sound(w, A, D)
  BY <1>3 DEF Sound
<1> QED
  BY <1>4 DEF w

\* persist_staged leaves a sound device, and one with nothing staged when it
\* says so.
LEMMA PersistSound ==
  ASSUME NEW A, NEW D \in SUBSET Keygens, NEW v, Sound(v, A, D), NEW p \in PersistStaged(v)
  PROVE  Sound(p.dev, A, D) /\ (p.result = "ok" => p.dev.staged = <<>>)
<1>1. CASE v.staged = <<>>
  BY <1>1 DEF PersistStaged
<1>2. CASE v.staged # <<>> /\ Len(v.staged) # 1
  BY <1>2 DEF PersistStaged
<1>3. CASE v.staged # <<>> /\ Len(v.staged) = 1
  <2> DEFINE after(w) == [v EXCEPT !.flash = w.slots,
                                   !.staged = IF Cleared(w.outcome) THEN <<>> ELSE @]
             y == v.staged[1]
  <2>1. PICK w \in WriteResults(v.flash, y) :
          p = IF w.outcome = "crash" THEN [dev |-> Rebooted(after(w)), result |-> "crash"]
              ELSE [dev |-> after(w), result |-> IF Cleared(w.outcome) THEN "ok" ELSE "fault"]
    BY <1>3, Zenon DEF PersistStaged
  <2>2. /\ v \in DeviceState /\ v.ram # <<>> /\ Newest(v.staged) = Newest(v.ram)
        /\ \A i \in 1..Len(v.ram) : v.ram[i] \in D
        /\ AbRead(v.flash) \in D \cup {None}
        /\ v.name # None => A \cap D # {}
    BY <1>3, Zenon DEF Sound
  <2>3. v.flash \in PairOver(Keygens) /\ v.ram \in Seq(Keygens) /\ v.name \in Keygens \cup {None}
    BY <2>2 DEF DeviceState
  <2>4. y = Newest(v.ram) /\ y \in D /\ y \in Keygens
    BY <1>3, <2>2, <2>3 DEF Newest
  <2>5. /\ w.slots \in PairOver(Keygens) /\ AbRead(w.slots) \in {AbRead(v.flash), None, y}
        /\ Cleared(w.outcome) => AbRead(w.slots) \in {y, None}
    BY <2>3, <2>4, ReadAfterWrite, KeygenAssumption DEF KeygenAssumption, Cleared
  <2>6. AbRead(w.slots) \in D \cup {None}
    BY <2>2, <2>4, <2>5
  <2> HIDE DEF y
  <2>7. Sound(after(w), A, D)
    <3>1. CASE Cleared(w.outcome)
      BY <2>4, <2>5, <2>6, <3>1, StoredSound
    <3>2. CASE ~Cleared(w.outcome)
      BY <1>3, <2>5, <2>6, <3>2, StoredSound
    <3> QED
      BY <3>1, <3>2
  <2>8. /\ after(w).flash = w.slots /\ after(w).name = v.name
        /\ Cleared(w.outcome) => after(w).staged = <<>>
    BY <2>2 DEF DeviceState
  <2> HIDE DEF after
  <2>9. Sound(Rebooted(after(w)), A, D)
    BY <2>2, <2>3, <2>5, <2>6, <2>8, RebootedSound
  <2> QED
    BY <2>1, <2>7, <2>8, <2>9
<1> QED
  BY <1>1, <1>2, <1>3

-------------------------------------------------------------------------------
(* What a handler hands to run: an ack only of what the user agreed to, and  *)
(* the end of a keygen only of one that is finished and was agreed to.       *)
MayRun(send, agreed, done) ==
  \E k \in Keygens :
    \/ send \in {ToCoordinator("response", k), ToCoordinator("certificate", k), CheckKeyGen(k)}
    \/ send = ToCoordinator("ack", k) /\ k \in agreed
    \/ send = FinalizedKeyGen(k) /\ k \in agreed \cap done

Named(v, n) == [v EXCEPT !.preview = None, !.name = n]

LEMMA NamedSound ==
  ASSUME NEW A, NEW D, NEW v, Sound(v, A, D), NEW n \in Keygens \cup {None},
         n # None => A \cap D # {}
  PROVE  Sound(Named(v, n), A, D) /\ Named(v, n).staged = v.staged
<1> DEFINE w == Named(v, n)
<1>1. v \in DeviceState
  BY Zenon DEF Sound
<1>2. /\ w \in DeviceState /\ w.tmp = v.tmp /\ w.ram = v.ram /\ w.name = n
      /\ w.flash = v.flash /\ w.staged = v.staged
  BY <1>1 DEF DeviceState, Named
<1> HIDE DEF w
<1>3. Sound(w, A, D)
  BY <1>2 DEF Sound
<1> QED
  BY <1>2, <1>3 DEF w

LEMMA ParkedSound ==
  ASSUME NEW A, NEW D, NEW v, Sound(v, A, D), NEW k \in Keygens \cup {None}
  PROVE  /\ Sound([v EXCEPT !.parked = k], A, D)
         /\ [v EXCEPT !.parked = k].staged = v.staged
<1> DEFINE w == [v EXCEPT !.parked = k]
<1>1. v \in DeviceState
  BY Zenon DEF Sound
<1>2. /\ w \in DeviceState /\ w.tmp = v.tmp /\ w.ram = v.ram /\ w.name = v.name
      /\ w.flash = v.flash /\ w.staged = v.staged
  BY <1>1 DEF DeviceState
<1> HIDE DEF w
<1>3. Sound(w, A, D)
  BY <1>2 DEF Sound
<1> QED
  BY <1>2, <1>3 DEF w

LEMMA CommitNameSound ==
  ASSUME NEW A, NEW D, NEW v, Sound(v, A, D), A \cap D # {}, NEW r \in CommitName(v)
  PROVE  /\ Sound(r.dev, A, D) /\ r.dev.staged = v.staged
         /\ r.sends \in Seq(Answers(A))
<1>1. v \in DeviceState
  BY Zenon DEF Sound
<1>2. v.preview \in Keygens \cup {None} /\ v.name \in Keygens \cup {None}
  BY <1>1 DEF DeviceState
<1>3. CASE v.preview = None
  <2>1. r.dev = v /\ r.sends = <<>>
    BY <1>3 DEF CommitName
  <2> QED
    BY <2>1
<1>4. CASE v.preview # None
  <2>1. PICK n \in {v.preview, v.name, None} :
          /\ r.dev = Named(v, n)
          /\ r.sends \in {<<>>, <<[type |-> "name", keygen |-> v.preview]>>}
    BY <1>4 DEF CommitName, Named
  <2>2. [type |-> "name", keygen |-> v.preview] \in Answers(A)
    BY <1>2, <1>4 DEF Answers, Says
  <2>3. <<>> \in Seq(Answers(A)) /\ \A m \in Answers(A) : <<m>> \in Seq(Answers(A))
    OBVIOUS
  <2>4. n \in Keygens \cup {None}
    BY <1>2
  <2>5. Sound(Named(v, n), A, D) /\ Named(v, n).staged = v.staged
    BY <2>4, NamedSound
  <2>6. r.sends \in Seq(Answers(A))
    BY <2>1, <2>2, <2>3, Zenon
  <2> QED
    BY <2>1, <2>5, <2>6
<1> QED
  BY <1>3, <1>4

LEMMA PerformedSound ==
  ASSUME NEW A \in SUBSET Keygens, NEW D, NEW v, Sound(v, A, D), NEW send, MayRun(send, A, D),
         NEW r \in Performed(v, send)
  PROVE  /\ Sound(r.dev, A, D) /\ r.dev.staged = v.staged
         /\ r.sends \in Seq(Answers(A))
<1> PICK k \in Keygens :
      \/ send \in {ToCoordinator("response", k), ToCoordinator("certificate", k), CheckKeyGen(k)}
      \/ send = ToCoordinator("ack", k) /\ k \in A
      \/ send = FinalizedKeyGen(k) /\ k \in A \cap D
  BY Zenon DEF MayRun
<1>1. ASSUME NEW t \in {"response", "certificate", "ack"}, send = ToCoordinator(t, k),
             t = "ack" => k \in A
      PROVE  /\ Sound(r.dev, A, D) /\ r.dev.staged = v.staged
             /\ r.sends \in Seq(Answers(A))
  <2>1. r.dev = v /\ r.sends = <<[type |-> t, keygen |-> k]>>
    BY <1>1 DEF Performed, ToCoordinator
  <2>2. [type |-> t, keygen |-> k] \in Answers(A)
    BY <1>1 DEF Answers, Says
  <2>3. \A m \in Answers(A) : <<m>> \in Seq(Answers(A))
    OBVIOUS
  <2> QED
    BY <2>1, <2>2, <2>3
<1>2. CASE send = CheckKeyGen(k)
  <2>1. r.dev = [v EXCEPT !.parked = k] /\ r.sends = <<>>
    BY <1>2 DEF Performed, CheckKeyGen
  <2> QED
    BY <2>1, ParkedSound
<1>3. CASE send = FinalizedKeyGen(k) /\ k \in A \cap D
  <2>1. r \in CommitName(v)
    BY <1>3 DEF Performed, FinalizedKeyGen
  <2> QED
    BY <1>3, <2>1, CommitNameSound
<1> QED
  BY <1>1, <1>2, <1>3

\* run ends sound, and says nothing while a share is staged.
LEMMA RunSound ==
  ASSUME NEW A \in SUBSET Keygens, NEW D \in SUBSET Keygens, NEW v, Sound(v, A, D),
         NEW send, MayRun(send, A, D), NEW r \in Run(v, send)
  PROVE  /\ Sound(r.dev, A, D) /\ r.sends \in Seq(Answers(A))
         /\ r.sends # <<>> => r.dev.staged = <<>>
<1> PICK p \in PersistStaged(v) :
      r \in IF p.result = "ok"
            THEN {[dev |-> x.dev, sends |-> x.sends, up |-> TRUE] : x \in Performed(p.dev, send)}
            ELSE {[dev |-> p.dev, sends |-> <<>>, up |-> p.result # "crash"]}
  BY Zenon DEF Run
<1>1. Sound(p.dev, A, D) /\ (p.result = "ok" => p.dev.staged = <<>>)
  BY PersistSound
<1>2. CASE p.result = "ok"
  <2> PICK x \in Performed(p.dev, send) : r = [dev |-> x.dev, sends |-> x.sends, up |-> TRUE]
    BY <1>2, Zenon
  <2>1. r.dev = x.dev /\ r.sends = x.sends
    OBVIOUS
  <2> QED
    BY <1>1, <1>2, <2>1, PerformedSound
<1>3. CASE p.result # "ok"
  <2>1. r.dev = p.dev /\ r.sends = <<>>
    BY <1>3
  <2> QED
    BY <1>1, <2>1
<1> QED
  BY <1>2, <1>3
-------------------------------------------------------------------------------
(* The parts of the invariant, when what is finished and agreed to grows.    *)
Grows ==
  /\ Finished \subseteq Finished'
  /\ confirmed' \in [Devices -> SUBSET Keygens]
  /\ \A d \in Devices : confirmed[d] \subseteq confirmed'[d]

LEMMA WireKept ==
  ASSUME WireInv, Grows, NEW e \in Devices, NEW asked, NEW said,
         toDevice' = [toDevice EXCEPT ![e] = asked], asked \in Seq(Requests(Finished')),
         toCoord' = [toCoord EXCEPT ![e] = said], said \in Seq(Answers(confirmed'[e]))
  PROVE  WireInv'
<1> SUFFICES ASSUME NEW d \in Devices
             PROVE  /\ toDevice'[d] \in Seq(Requests(Finished'))
                    /\ toCoord'[d] \in Seq(Answers(confirmed'[d]))
  BY DEF WireInv
<1>1. /\ toDevice[d] \in Seq(Requests(Finished)) /\ toCoord[d] \in Seq(Answers(confirmed[d]))
      /\ toDevice'[d] = IF d = e THEN asked ELSE toDevice[d]
      /\ toCoord'[d] = IF d = e THEN said ELSE toCoord[d]
  BY Zenon DEF WireInv
<1>2. /\ toDevice[d] \in Seq(Requests(Finished'))
      /\ toCoord[d] \in Seq(Answers(confirmed'[d]))
  BY <1>1, MoreOnTheWire DEF Grows
<1> QED
  BY <1>1, <1>2

LEMMA DevicesKept ==
  ASSUME DeviceInv, Grows, UNCHANGED dev
  PROVE  DeviceInv'
<1> SUFFICES ASSUME NEW d \in Devices
             PROVE  Sound(dev[d], confirmed'[d], Finished')
  BY DEF DeviceInv
<1>1. Sound(dev[d], confirmed[d], Finished)
  BY Zenon DEF DeviceInv
<1> QED
  BY <1>1, MoreIsSound DEF Grows

LEMMA DeviceChanged ==
  ASSUME DeviceInv, Grows, NEW e \in Devices, NEW w, dev' = [dev EXCEPT ![e] = w],
         Sound(w, confirmed'[e], Finished')
  PROVE  DeviceInv'
<1> SUFFICES ASSUME NEW d \in Devices
             PROVE  Sound(dev'[d], confirmed'[d], Finished')
  BY DEF DeviceInv
<1>1. Sound(dev[d], confirmed[d], Finished) /\ dev'[d] = IF d = e THEN w ELSE dev[d]
  BY Zenon DEF DeviceInv
<1> QED
  BY <1>1, MoreIsSound DEF Grows

\* What stands still, when the coordinator and the ghosts do.
LEMMA StillGrows ==
  ASSUME CoordInv, UNCHANGED <<kg, confirmed>>
  PROVE  Finished' = Finished /\ Grows
BY DEF CoordInv, Finished, Grows

\* A device's step leaves the coordinator alone.
LEMMA CoordKept ==
  ASSUME CoordInv, UNCHANGED coordVars, Grows,
         saved' \in [Devices -> SUBSET Finished]
  PROVE  CoordInv'
<1>1. /\ kg' = kg /\ got' = got /\ Finished' = Finished
      /\ kg \in [Keygens -> Pending \cup {"new", "done", "dropped", "cancelled"}]
      /\ got \in [Keygens -> SUBSET Devices]
      /\ confirmed' \in [Devices -> SUBSET Keygens]
  BY DEF CoordInv, coordVars, Finished, Grows
<1>2. ASSUME NEW k \in Keygens
      PROVE  /\ kg[k] = "acks" => \A d \in got[k] : k \in confirmed'[d]
             /\ kg[k] \in {"finalize", "done"} => \A d \in Members[k] : k \in confirmed'[d]
  <2>1. got[k] \subseteq Devices /\ Members[k] \subseteq Devices
    BY <1>1, KeygenAssumption DEF KeygenAssumption
  <2>2. /\ kg[k] = "acks" => \A d \in got[k] : k \in confirmed[d]
        /\ kg[k] \in {"finalize", "done"} => \A d \in Members[k] : k \in confirmed[d]
    BY Zenon DEF CoordInv
  <2> QED
    BY <2>1, <2>2 DEF Grows
<1> QED
  BY <1>1, <1>2 DEF CoordInv

-------------------------------------------------------------------------------
(* Every handler that ends in run.                                           *)
LEMMA RunsKeep ==
  ASSUME IInv, Grows, NEW d \in Devices, NEW v, Sound(v, confirmed'[d], Finished),
         NEW send, MayRun(send, confirmed'[d], Finished),
         NEW rest \in Seq(Requests(Finished)), Runs(d, v, send, rest)
  PROVE  IInv' /\ SaidIsSaved
<1>1. PICK r \in Run(v, send) :
        /\ dev' = [dev EXCEPT ![d] = r.dev]
        /\ toDevice' = [toDevice EXCEPT ![d] = IF r.up THEN rest ELSE <<>>]
        /\ toCoord' = [toCoord EXCEPT ![d] = IF r.up THEN @ \o r.sends ELSE <<>>]
  BY Zenon DEF Runs
<1>2. UNCHANGED coordVars /\ Recorded(d) /\ CoordInv /\ DeviceInv /\ WireInv
  BY Zenon DEF Runs, IInv
<1>3. Finished' = Finished /\ Finished \in SUBSET Keygens
  BY <1>2 DEF Finished, coordVars
<1>4. confirmed'[d] \in SUBSET Keygens
  BY Zenon DEF Grows
<1>5. /\ Sound(r.dev, confirmed'[d], Finished) /\ r.sends \in Seq(Answers(confirmed'[d]))
      /\ r.sends # <<>> => r.dev.staged = <<>>
  BY <1>3, <1>4, RunSound
<1>6. DeviceInv'
  BY <1>1, <1>2, <1>3, <1>5, DeviceChanged
<1>7. /\ toDevice[d] \in Seq(Requests(Finished)) /\ toCoord[d] \in Seq(Answers(confirmed[d]))
      /\ dev'[d] = r.dev
      /\ toCoord' = [toCoord EXCEPT ![d] = IF r.up THEN toCoord[d] \o r.sends ELSE <<>>]
      /\ \A e \in Devices : toCoord'[e] = IF e # d THEN toCoord[e]
                                          ELSE IF r.up THEN toCoord[d] \o r.sends ELSE <<>>
  BY <1>1, <1>2 DEF WireInv, DeviceInv
<1>8. toCoord[d] \in Seq(Answers(confirmed'[d]))
  BY <1>7, MoreOnTheWire DEF Grows
<1>9. /\ toCoord[d] \o r.sends \in Seq(Answers(confirmed'[d]))
      /\ Len(toCoord[d] \o r.sends) = Len(toCoord[d]) + Len(r.sends)
      /\ r.sends = <<>> => Len(r.sends) = 0
  BY <1>5, <1>8, ConcatProperties
<1>10. /\ (IF r.up THEN rest ELSE <<>>) \in Seq(Requests(Finished'))
       /\ (IF r.up THEN toCoord[d] \o r.sends ELSE <<>>) \in Seq(Answers(confirmed'[d]))
  BY <1>3, <1>9, QueueOf
<1>11. WireInv'
  BY <1>1, <1>2, <1>7, <1>10, WireKept
<1>12. AbRead(r.dev.flash) \in Finished \cup {None}
  BY <1>5, Zenon DEF Sound
<1>13. saved' \in [Devices -> SUBSET Finished]
  BY <1>2, <1>7, <1>12 DEF Recorded, CoordInv
<1>14. CoordInv'
  BY <1>2, <1>13, CoordKept
<1>15. ASSUME NEW e \in Devices, Len(toCoord'[e]) > Len(toCoord[e])
       PROVE  dev'[e].staged = <<>>
  <2>1. Len(toCoord[e]) \in Nat
    BY <1>2, LenProperties DEF WireInv
  <2>2. e = d /\ r.up
    <3>1. CASE e # d
      BY <1>7, <1>15, <2>1, <3>1
    <3>2. CASE e = d /\ ~r.up
      <4>1. toCoord'[e] = <<>> /\ Len(toCoord'[e]) = 0
        BY <1>7, <3>2
      <4> QED
        BY <1>15, <2>1, <4>1
    <3> QED
      BY <3>1, <3>2
  <2>3. r.sends # <<>>
    BY <1>7, <1>9, <1>15, <2>1, <2>2
  <2> QED
    BY <1>5, <1>7, <2>2, <2>3
<1> QED
  BY <1>6, <1>11, <1>14, <1>15 DEF IInv, SaidIsSaved

\* A message for the signer comes off the channel.
LEMMA Delivered ==
  ASSUME IInv, NEW d \in Devices, NEW type, Handling(d, type)
  PROVE  /\ Message(d) \in Requests(Finished) /\ Message(d).keygen \in Keygens
         /\ Message(d).type = type
         /\ type = "finalize" => Message(d).keygen \in Finished
         /\ Tail(toDevice[d]) \in Seq(Requests(Finished))
<1>1. toDevice[d] \in Seq(Requests(Finished)) /\ toDevice[d] # <<>> /\ Message(d).type = type
  BY DEF IInv, WireInv, Handling
<1>2. Message(d) \in Requests(Finished) /\ Tail(toDevice[d]) \in Seq(Requests(Finished))
  BY <1>1, QueueOf DEF Message
<1> QED
  BY <1>1, <1>2 DEF Requests

\* What only takes a message, and leaves a sound device, keeps the invariant.
LEMMA TakenKeeps ==
  ASSUME IInv, NEW d \in Devices, NEW type, Handling(d, type),
         toDevice' = [toDevice EXCEPT ![d] = Tail(@)],
         UNCHANGED <<coordVars, toCoord, confirmed, saved>>,
         \/ UNCHANGED dev
         \/ \E w : dev' = [dev EXCEPT ![d] = w] /\ Sound(w, confirmed[d], Finished)
  PROVE  IInv' /\ SaidIsSaved
<1>1. /\ CoordInv /\ DeviceInv /\ WireInv /\ kg' = kg /\ confirmed' = confirmed
      /\ UNCHANGED <<coordVars, toCoord, saved>>
  BY DEF IInv, coordVars
<1>2. Finished' = Finished /\ Grows
  BY <1>1, StillGrows
<1>3. DeviceInv'
  BY <1>1, <1>2, DevicesKept, DeviceChanged
<1>4. saved' \in [Devices -> SUBSET Finished]
  BY <1>1 DEF CoordInv
<1>5. CoordInv'
  BY <1>1, <1>2, <1>4, CoordKept
<1>6. /\ toDevice' = [toDevice EXCEPT ![d] = Tail(toDevice[d])]
      /\ toCoord' = [toCoord EXCEPT ![d] = toCoord[d]]
      /\ toCoord[d] \in Seq(Answers(confirmed'[d]))
  BY <1>1 DEF WireInv
<1>7. Tail(toDevice[d]) \in Seq(Requests(Finished'))
  BY <1>2, Delivered
<1>8. WireInv'
  BY <1>1, <1>2, <1>6, <1>7, WireKept
<1>9. \A e \in Devices : Len(toCoord[e]) \in Nat
  BY <1>1, LenProperties DEF WireInv
<1> QED
  BY <1>1, <1>3, <1>5, <1>8, <1>9 DEF IInv, SaidIsSaved
-------------------------------------------------------------------------------
(* The device's handlers.                                                    *)
Stepped(v, k, to) == [v EXCEPT !.tmp[k] = to]

LEMMA SteppedSound ==
  ASSUME NEW A, NEW D, NEW v, Sound(v, A, D), NEW k \in Keygens, NEW to \in Phases,
         to = "pending" => k \in A
  PROVE  Sound(Stepped(v, k, to), A, D)
<1> DEFINE w == Stepped(v, k, to)
<1>1. v \in DeviceState
  BY Zenon DEF Sound
<1>2. /\ w \in DeviceState /\ w.ram = v.ram /\ w.name = v.name
      /\ w.flash = v.flash /\ w.staged = v.staged
      /\ \A j \in Keygens : w.tmp[j] = IF j = k THEN to ELSE v.tmp[j]
  BY <1>1 DEF DeviceState, Stepped
<1> HIDE DEF w
<1>3. Sound(w, A, D)
  BY <1>2 DEF Sound
<1> QED
  BY <1>3 DEF w

LEMMA PhaseKeeps ==
  ASSUME IInv, NEW d \in Devices, NEW type, NEW from, NEW to \in Phases \ {"pending"}, NEW send,
         Message(d).keygen \in Keygens =>
           MayRun(send, confirmed[d], Finished),
         Phase(d, type, from, to, send)
  PROVE  IInv' /\ SaidIsSaved
<1> DEFINE k == Message(d).keygen
<1>1. /\ Handling(d, type) /\ UNCHANGED confirmed
      /\ IF from # None /\ dev[d].tmp[k] # from THEN Refused(d)
         ELSE Runs(d, Stepped(dev[d], k, to), send, Tail(toDevice[d]))
  BY DEF Phase, Stepped
<1>2. k \in Keygens /\ Tail(toDevice[d]) \in Seq(Requests(Finished))
  BY <1>1, Delivered
<1> HIDE DEF k
<1>3. CASE Refused(d)
  BY <1>1, <1>3, TakenKeeps DEF Refused
<1>4. CASE Runs(d, Stepped(dev[d], k, to), send, Tail(toDevice[d]))
  <2>1. UNCHANGED kg /\ CoordInv /\ Sound(dev[d], confirmed[d], Finished)
    BY <1>4 DEF Runs, coordVars, IInv, DeviceInv
  <2>2. Grows
    BY <1>1, <2>1, StillGrows
  <2>3. Sound(Stepped(dev[d], k, to), confirmed'[d], Finished)
    BY <1>1, <1>2, <2>1, SteppedSound
  <2>4. MayRun(send, confirmed'[d], Finished)
    BY <1>1, <1>2 DEF k
  <2> QED
    BY <1>2, <1>4, <2>2, <2>3, <2>4, RunsKeep
<1> QED
  BY <1>1, <1>3, <1>4

LEMMA RecvBeginKeeps ==
  ASSUME IInv, NEW d \in Devices, RecvBegin(d)
  PROVE  IInv' /\ SaidIsSaved
<1>1. Message(d).keygen \in Keygens =>
        MayRun(ToCoordinator("response", Message(d).keygen), confirmed[d], Finished)
  BY DEF MayRun
<1> QED
  BY <1>1, PhaseKeeps DEF RecvBegin, Phases

LEMMA RecvCertifyPleaseKeeps ==
  ASSUME IInv, NEW d \in Devices, RecvCertifyPlease(d)
  PROVE  IInv' /\ SaidIsSaved
<1>1. Message(d).keygen \in Keygens =>
        MayRun(ToCoordinator("certificate", Message(d).keygen), confirmed[d], Finished)
  BY DEF MayRun
<1> QED
  BY <1>1, PhaseKeeps DEF RecvCertifyPlease, Phases

LEMMA RecvCheckKeeps ==
  ASSUME IInv, NEW d \in Devices, RecvCheck(d)
  PROVE  IInv' /\ SaidIsSaved
<1>1. Message(d).keygen \in Keygens =>
        MayRun(CheckKeyGen(Message(d).keygen), confirmed[d], Finished)
  BY DEF MayRun
<1> QED
  BY <1>1, PhaseKeeps DEF RecvCheck, Phases

LEMMA ConfirmKeeps ==
  ASSUME IInv, NEW d \in Devices, Confirm(d)
  PROVE  IInv' /\ SaidIsSaved
<1> DEFINE k == dev[d].parked
           A == confirmed'[d]
<1>1. /\ k # None /\ Runs(d, Acked(dev[d], k), ToCoordinator("ack", k), toDevice[d])
      /\ confirmed' = [confirmed EXCEPT ![d] = @ \cup {k}]
  BY DEF Confirm
<1>2. CoordInv /\ Sound(dev[d], confirmed[d], Finished) /\ toDevice[d] \in Seq(Requests(Finished))
  BY DEF IInv, DeviceInv, WireInv
<1>3. k \in Keygens /\ dev[d] \in DeviceState
  <2>1. dev[d] \in DeviceState
    BY <1>2, Zenon DEF Sound
  <2> QED
    BY <1>1, <2>1 DEF DeviceState
<1>4. kg' = kg /\ Finished' = Finished
  BY <1>1 DEF Runs, coordVars, Finished
<1>5. /\ confirmed' \in [Devices -> SUBSET Keygens] /\ confirmed[d] \subseteq A /\ k \in A
      /\ \A e \in Devices : confirmed[e] \subseteq confirmed'[e]
  BY <1>1, <1>2, <1>3 DEF CoordInv
<1>6. Grows
  BY <1>4, <1>5 DEF Grows
<1> HIDE DEF k, A
<1>7. Sound(dev[d], A, Finished)
  BY <1>2, <1>5, MoreIsSound
<1>8. Acked(dev[d], k) = [Stepped(dev[d], k, "pending") EXCEPT !.parked = None]
  BY <1>3 DEF Acked, Stepped, DeviceState
<1>9. Sound(Acked(dev[d], k), A, Finished)
  <2>1. Sound(Stepped(dev[d], k, "pending"), A, Finished)
    BY <1>3, <1>5, <1>7, SteppedSound DEF Phases
  <2> QED
    BY <1>8, <2>1, ParkedSound
<1>10. MayRun(ToCoordinator("ack", k), A, Finished)
  BY <1>3, <1>5 DEF MayRun
<1> QED
  BY <1>1, <1>2, <1>6, <1>9, <1>10, RunsKeep DEF A

\* The share that was waiting is the newest one, and the one to be saved.
Taken(v, k) ==
  [v EXCEPT !.tmp[k] = "none", !.ram = Append(@, k), !.staged = Append(@, k)]

LEMMA TakenSound ==
  ASSUME NEW A, NEW D, NEW v, Sound(v, A, D), NEW k \in Keygens, k \in D
  PROVE  Sound(Taken(v, k), A, D)
<1> DEFINE w == Taken(v, k)
<1>1. v \in DeviceState
  BY Zenon DEF Sound
<1>2. v.ram \in Seq(Keygens) /\ v.staged \in Seq(Keygens)
  BY <1>1 DEF DeviceState
<1>3. /\ w.ram = Append(v.ram, k) /\ w.staged = Append(v.staged, k)
      /\ w.flash = v.flash /\ w.name = v.name
      /\ \A j \in Keygens : w.tmp[j] = IF j = k THEN "none" ELSE v.tmp[j]
  BY <1>1 DEF DeviceState, Taken
<1>4. Append(v.ram, k) \in Seq(Keygens) /\ Append(v.staged, k) \in Seq(Keygens)
  BY <1>2, QueueOf
<1>5. w \in DeviceState
  BY <1>1, <1>4 DEF DeviceState, Taken, Phases
<1>6. \A q \in Seq(Keygens) : Append(q, k) # <<>> /\ Newest(Append(q, k)) = k
  BY AppendProperties DEF Newest
<1>7. \A i \in 1..Len(v.ram) : v.ram[i] \in D
  BY Zenon DEF Sound
<1>8. \A i \in 1..Len(w.ram) : w.ram[i] \in D
  BY <1>2, <1>3, <1>7, AppendProperties
<1> HIDE DEF w
<1>9. Sound(w, A, D)
  BY <1>2, <1>3, <1>5, <1>6, <1>8 DEF Sound
<1> QED
  BY <1>9 DEF w

LEMMA RecvFinalizeKeeps ==
  ASSUME IInv, NEW d \in Devices, RecvFinalize(d)
  PROVE  IInv' /\ SaidIsSaved
<1> DEFINE k == Message(d).keygen
<1>1. /\ Handling(d, "finalize") /\ UNCHANGED confirmed
      /\ IF dev[d].tmp[k] # "pending" THEN Refused(d)
         ELSE Runs(d, Taken(dev[d], k), FinalizedKeyGen(k), Tail(toDevice[d]))
  BY DEF RecvFinalize, Taken
<1>2. k \in Keygens /\ k \in Finished /\ Tail(toDevice[d]) \in Seq(Requests(Finished))
  BY <1>1, Delivered
<1> HIDE DEF k
<1>3. CASE dev[d].tmp[k] # "pending"
  BY <1>1, <1>3, TakenKeeps DEF Refused
<1>4. CASE dev[d].tmp[k] = "pending"
  <2>1. Runs(d, Taken(dev[d], k), FinalizedKeyGen(k), Tail(toDevice[d]))
    BY <1>1, <1>4
  <2>2. UNCHANGED kg /\ CoordInv /\ Sound(dev[d], confirmed[d], Finished)
    BY <2>1 DEF Runs, coordVars, IInv, DeviceInv
  <2>3. Grows
    BY <1>1, <2>2, StillGrows
  <2>4. k \in confirmed[d]
    BY <1>2, <1>4, <2>2 DEF Sound
  <2>5. MayRun(FinalizedKeyGen(k), confirmed'[d], Finished)
    BY <1>1, <1>2, <2>4 DEF MayRun
  <2>6. Sound(Taken(dev[d], k), confirmed'[d], Finished)
    BY <1>1, <1>2, <2>2, TakenSound
  <2> QED
    BY <1>2, <2>1, <2>3, <2>5, <2>6, RunsKeep
<1> QED
  BY <1>3, <1>4
LEMMA AbandonedSound ==
  ASSUME NEW A, NEW D, NEW v, Sound(v, A, D)
  PROVE  Sound(Abandoned(v), A, D)
<1> DEFINE w == Abandoned(v)
           none == [k \in Keygens |-> "none"]
<1>1. v \in DeviceState
  BY Zenon DEF Sound
<1>2. none \in [Keygens -> Phases] /\ \A k \in Keygens : none[k] # "pending"
  BY DEF Phases
<1>3. FreshDevice.tmp = none
  BY DEF FreshDevice
<1> HIDE DEF none
<1>4. /\ w \in DeviceState /\ w.tmp = none /\ w.ram = v.ram /\ w.name = v.name
      /\ w.flash = v.flash /\ w.staged = v.staged
  BY <1>1, <1>2, <1>3 DEF Abandoned, DeviceState
<1> HIDE DEF w
<1>5. Sound(w, A, D)
  BY <1>2, <1>4 DEF Sound
<1> QED
  BY <1>5 DEF w

LEMMA PreviewedSound ==
  ASSUME NEW A, NEW D, NEW v, Sound(v, A, D), NEW n \in Keygens
  PROVE  Sound(Previewed(v, n), A, D)
<1> DEFINE w == Previewed(v, n)
<1>1. v \in DeviceState
  BY Zenon DEF Sound
<1>2. /\ w \in DeviceState /\ w.tmp = v.tmp /\ w.ram = v.ram /\ w.name = v.name
      /\ w.flash = v.flash /\ w.staged = v.staged
  BY <1>1 DEF DeviceState, Previewed
<1> HIDE DEF w
<1>3. Sound(w, A, D)
  BY <1>2 DEF Sound
<1> QED
  BY <1>3 DEF w

LEMMA RecvCancelKeeps ==
  ASSUME IInv, NEW d \in Devices, RecvCancel(d)
  PROVE  IInv' /\ SaidIsSaved
<1>1. Sound(dev[d], confirmed[d], Finished)
  BY DEF IInv, DeviceInv
<1>2. Sound(Abandoned(dev[d]), confirmed[d], Finished)
  BY <1>1, AbandonedSound
<1>3. /\ Handling(d, "cancel") /\ toDevice' = [toDevice EXCEPT ![d] = Tail(@)]
      /\ UNCHANGED <<coordVars, toCoord, confirmed, saved>>
      /\ dev' = [dev EXCEPT ![d] = Abandoned(dev[d])]
  BY DEF RecvCancel, IInv, DeviceInv
<1> QED
  BY <1>2, <1>3, TakenKeeps

LEMMA RecvPreviewKeeps ==
  ASSUME IInv, NEW d \in Devices, RecvPreview(d)
  PROVE  IInv' /\ SaidIsSaved
<1> DEFINE n == Message(d).keygen
<1>1. Sound(dev[d], confirmed[d], Finished)
  BY DEF IInv, DeviceInv
<1>2. /\ Handling(d, "preview") /\ toDevice' = [toDevice EXCEPT ![d] = Tail(@)]
      /\ UNCHANGED <<coordVars, toCoord, confirmed, saved>>
      /\ dev' = [dev EXCEPT ![d] = Previewed(dev[d], n)]
  BY DEF RecvPreview, IInv, DeviceInv
<1>3. n \in Keygens
  BY <1>2, Delivered
<1>4. Sound(Previewed(dev[d], n), confirmed[d], Finished)
  BY <1>1, <1>3, PreviewedSound
<1> HIDE DEF n
<1> QED
  BY <1>2, <1>4, TakenKeeps

\* What changes no message and no share: declining, and the reset.
LEMMA QuietKeeps ==
  ASSUME IInv, NEW d \in Devices, NEW w, dev' = [dev EXCEPT ![d] = w],
         Sound(w, confirmed[d], Finished), UNCHANGED <<coordVars, confirmed, saved>>,
         \/ UNCHANGED <<toDevice, toCoord>>
         \/ /\ toDevice' = [toDevice EXCEPT ![d] = <<>>]
            /\ toCoord' = [toCoord EXCEPT ![d] = <<>>]
  PROVE  IInv' /\ SaidIsSaved
<1>1. /\ CoordInv /\ DeviceInv /\ WireInv /\ kg' = kg /\ confirmed' = confirmed
      /\ UNCHANGED <<coordVars, saved>>
  BY DEF IInv, coordVars
<1>2. Finished' = Finished /\ Grows
  BY <1>1, StillGrows
<1>3. DeviceInv'
  BY <1>1, <1>2, DeviceChanged
<1>4. saved' \in [Devices -> SUBSET Finished]
  BY <1>1 DEF CoordInv
<1>5. CoordInv'
  BY <1>1, <1>2, <1>4, CoordKept
<1>6. \A e \in Devices : Len(toCoord[e]) \in Nat
  BY <1>1, LenProperties DEF WireInv
<1>7. CASE UNCHANGED <<toDevice, toCoord>>
  <2>1. WireInv'
    BY <1>1, <1>2, <1>7 DEF WireInv
  <2> QED
    BY <1>3, <1>5, <1>6, <1>7, <2>1 DEF IInv, SaidIsSaved
<1>8. CASE /\ toDevice' = [toDevice EXCEPT ![d] = <<>>]
           /\ toCoord' = [toCoord EXCEPT ![d] = <<>>]
  <2>1. <<>> \in Seq(Requests(Finished')) /\ <<>> \in Seq(Answers(confirmed'[d]))
    OBVIOUS
  <2>2. WireInv'
    BY <1>1, <1>2, <1>8, <2>1, WireKept
  <2>3. \A e \in Devices : toCoord'[e] = IF e = d THEN <<>> ELSE toCoord[e]
    BY <1>1, <1>8 DEF WireInv
  <2>4. ASSUME NEW e \in Devices PROVE ~(Len(toCoord'[e]) > Len(toCoord[e]))
    <3>1. Len(<<>>) = 0
      OBVIOUS
    <3> QED
      BY <1>6, <2>3, <3>1
  <2> QED
    BY <1>3, <1>5, <2>2, <2>4 DEF IInv, SaidIsSaved
<1> QED
  BY <1>7, <1>8

LEMMA DeclineKeeps ==
  ASSUME IInv, NEW d \in Devices, Decline(d)
  PROVE  IInv' /\ SaidIsSaved
<1> DEFINE w == [dev[d] EXCEPT !.parked = None]
<1>1. /\ dev' = [dev EXCEPT ![d] = w]
      /\ UNCHANGED <<coordVars, toDevice, toCoord, confirmed, saved>>
  BY DEF Decline, IInv, DeviceInv
<1>2. Sound(dev[d], confirmed[d], Finished)
  BY DEF IInv, DeviceInv
<1>3. Sound(w, confirmed[d], Finished)
  BY <1>2, ParkedSound
<1> HIDE DEF w
<1> QED
  BY <1>1, <1>3, QuietKeeps

LEMMA UnplugKeeps ==
  ASSUME IInv, NEW d \in Devices, Unplug(d)
  PROVE  IInv' /\ SaidIsSaved
<1>1. /\ dev' = [dev EXCEPT ![d] = Rebooted(dev[d])]
      /\ UNCHANGED <<coordVars, confirmed, saved>>
      /\ toDevice' = [toDevice EXCEPT ![d] = <<>>]
      /\ toCoord' = [toCoord EXCEPT ![d] = <<>>]
  BY DEF Unplug, IInv, DeviceInv
<1>2. Sound(dev[d], confirmed[d], Finished)
  BY DEF IInv, DeviceInv
<1>3. /\ dev[d] \in DeviceState /\ AbRead(dev[d].flash) \in Finished \cup {None}
      /\ dev[d].name # None => confirmed[d] \cap Finished # {}
  BY <1>2, Zenon DEF Sound
<1>4. dev[d].flash \in PairOver(Keygens) /\ dev[d].name \in Keygens \cup {None}
  BY <1>3 DEF DeviceState
<1>5. Finished \in SUBSET Keygens
  BY DEF Finished
<1>6. Sound(Rebooted(dev[d]), confirmed[d], Finished)
  BY <1>3, <1>4, <1>5, RebootedSound
<1> QED
  BY <1>1, <1>6, QuietKeeps
-------------------------------------------------------------------------------
(* The coordinator's steps: they leave the devices alone, may tell every     *)
(* member the same, and take at most one answer off a channel.               *)
Told ==
  \/ UNCHANGED toDevice
  \/ \E k \in Keygens, type \in Asks :
       Broadcast(k, type) /\ (type = "finalize" => k \in Finished')
  \/ \E k \in Keygens, d \in Devices :
       toDevice' = [toDevice EXCEPT ![d] = Append(@, [type |-> "preview", keygen |-> k])]

Asked ==
  /\ toDevice' = [d \in Devices |-> toDevice'[d]]
  /\ \A d \in Devices : toDevice'[d] \in Seq(Requests(Finished'))

Heard == UNCHANGED toCoord \/ \E d \in Devices, type \in Says : Receiving(d, type)

Left ==
  /\ toCoord' = [d \in Devices |-> toCoord'[d]]
  /\ \A d \in Devices : /\ toCoord'[d] \in Seq(Answers(confirmed[d]))
                       /\ ~(Len(toCoord'[d]) > Len(toCoord[d]))

LEMMA CoordStepKeeps ==
  ASSUME IInv, CoordInv', Finished \subseteq Finished', UNCHANGED <<dev, confirmed, saved>>,
         Told, Heard
  PROVE  IInv' /\ SaidIsSaved
<1>1. CoordInv /\ DeviceInv /\ WireInv /\ confirmed' = confirmed
  BY DEF IInv
<1>2. Grows
  BY <1>1 DEF Grows, CoordInv
<1>3. DeviceInv'
  BY <1>1, <1>2, DevicesKept
<1>4. ASSUME NEW d \in Devices
      PROVE  /\ toDevice[d] \in Seq(Requests(Finished'))
             /\ toCoord[d] \in Seq(Answers(confirmed[d]))
  <2>1. toDevice[d] \in Seq(Requests(Finished)) /\ toCoord[d] \in Seq(Answers(confirmed[d]))
    BY <1>1 DEF WireInv
  <2> QED
    BY <2>1, MoreOnTheWire
<1>5. Asked
  <2>1. CASE UNCHANGED toDevice
    BY <1>1, <1>4, <2>1 DEF WireInv, Asked
  <2>2. ASSUME NEW k \in Keygens, NEW type \in Asks, Broadcast(k, type),
               type = "finalize" => k \in Finished'
        PROVE  Asked
    <3> DEFINE m == [type |-> type, keygen |-> k]
    <3>1. m \in Requests(Finished')
      BY <2>2 DEF Requests
    <3> HIDE DEF m
    <3>2. toDevice' = [d \in Devices |-> IF d \notin Members[k] THEN toDevice[d]
                                        ELSE Append(toDevice[d], m)]
      BY <2>2 DEF Broadcast, m
    <3>3. \A d \in Devices : Append(toDevice[d], m) \in Seq(Requests(Finished'))
      BY <1>4, <3>1, QueueOf
    <3> QED
      BY <1>4, <3>2, <3>3 DEF Asked
  <2>3. ASSUME NEW k \in Keygens, NEW e \in Devices,
               toDevice' = [toDevice EXCEPT ![e] = Append(@, [type |-> "preview", keygen |-> k])]
        PROVE  Asked
    <3> DEFINE m == [type |-> "preview", keygen |-> k]
    <3>1. m \in Requests(Finished')
      BY DEF Requests, Asks
    <3> HIDE DEF m
    <3>2. toDevice' = [d \in Devices |-> IF d # e THEN toDevice[d] ELSE Append(toDevice[d], m)]
      BY <1>1, <2>3 DEF m, WireInv
    <3>3. \A d \in Devices : Append(toDevice[d], m) \in Seq(Requests(Finished'))
      BY <1>4, <3>1, QueueOf
    <3> QED
      BY <1>4, <3>2, <3>3 DEF Asked
  <2> QED
    BY <2>1, <2>2, <2>3 DEF Told
<1>6. Left
  <2>1. \A d \in Devices : Len(toCoord[d]) \in Nat
    BY <1>4, LenProperties
  <2>2. CASE UNCHANGED toCoord
    BY <1>1, <1>4, <2>1, <2>2 DEF WireInv, Left
  <2>3. ASSUME NEW e \in Devices, NEW type, Receiving(e, type)
        PROVE  Left
    <3>1. /\ toCoord[e] # <<>>
          /\ toCoord' = [d \in Devices |-> IF d = e THEN Tail(toCoord[e]) ELSE toCoord[d]]
      BY <1>1, <2>3 DEF Receiving, WireInv
    <3>2. Tail(toCoord[e]) \in Seq(Answers(confirmed[e])) /\ Len(Tail(toCoord[e])) < Len(toCoord[e])
      BY <1>4, <3>1, QueueOf
    <3>3. Len(Tail(toCoord[e])) \in Nat
      BY <3>2, LenProperties
    <3> QED
      BY <1>4, <2>1, <3>1, <3>2, <3>3 DEF Left
  <2> QED
    BY <2>2, <2>3 DEF Heard
<1>7. WireInv'
  BY <1>1, <1>5, <1>6 DEF WireInv, Asked, Left
<1> QED
  BY <1>3, <1>6, <1>7 DEF Left, IInv, SaidIsSaved
States == Pending \cup {"new", "done", "dropped", "cancelled"}

\* One keygen moves to state x, with the answers g.
LEMMA MovedKeeps ==
  ASSUME CoordInv, NEW k \in Keygens, NEW x \in States, NEW g \in SUBSET Devices,
         kg' = [kg EXCEPT ![k] = x], got' = [got EXCEPT ![k] = g],
         UNCHANGED <<confirmed, saved>>, kg[k] = "done" => x = "done",
         x = "acks" => \A d \in g : k \in confirmed[d],
         x \in {"finalize", "done"} => \A d \in Members[k] : k \in confirmed[d]
  PROVE  CoordInv' /\ Finished \subseteq Finished' /\ (x = "done" => k \in Finished')
<1>1. /\ kg \in [Keygens -> States] /\ got \in [Keygens -> SUBSET Devices]
      /\ confirmed \in [Devices -> SUBSET Keygens] /\ saved \in [Devices -> SUBSET Finished]
  BY Zenon DEF CoordInv, States
<1>2. /\ kg' \in [Keygens -> States] /\ got' \in [Keygens -> SUBSET Devices]
      /\ \A j \in Keygens : /\ kg'[j] = IF j = k THEN x ELSE kg[j]
                           /\ got'[j] = IF j = k THEN g ELSE got[j]
  BY <1>1
<1>3. Finished \subseteq Finished' /\ (x = "done" => k \in Finished')
  BY <1>2 DEF Finished
<1>4. saved' \in [Devices -> SUBSET Finished']
  BY <1>1, <1>3
<1>5. ASSUME NEW j \in Keygens
      PROVE  /\ kg'[j] = "acks" => \A d \in got'[j] : j \in confirmed[d]
             /\ kg'[j] \in {"finalize", "done"} => \A d \in Members[j] : j \in confirmed[d]
  <2>1. /\ kg[j] = "acks" => \A d \in got[j] : j \in confirmed[d]
        /\ kg[j] \in {"finalize", "done"} => \A d \in Members[j] : j \in confirmed[d]
    BY Zenon DEF CoordInv
  <2> QED
    BY <1>2, <2>1
<1> QED
  BY <1>1, <1>2, <1>3, <1>4, <1>5 DEF CoordInv, States

LEMMA BeginKeygenKeeps ==
  ASSUME IInv, NEW k \in Keygens, BeginKeygen(k)
  PROVE  IInv' /\ SaidIsSaved
<1>1. /\ kg[k] = "new" /\ kg' = [kg EXCEPT ![k] = "responses"] /\ Broadcast(k, "begin")
      /\ UNCHANGED <<got, dev, toCoord, confirmed, saved>>
  BY DEF BeginKeygen
<1>2. CoordInv /\ got[k] \in SUBSET Devices /\ got' = [got EXCEPT ![k] = got[k]]
  BY <1>1 DEF IInv, CoordInv
<1>3. CoordInv' /\ Finished \subseteq Finished'
  BY <1>1, <1>2, MovedKeeps DEF States, Pending, Waiting
<1>4. Told /\ Heard
  BY <1>1 DEF Told, Heard, Asks
<1> QED
  BY <1>1, <1>3, <1>4, CoordStepKeeps

LEMMA FinalizeKeygenKeeps ==
  ASSUME IInv, NEW k \in Keygens, FinalizeKeygen(k)
  PROVE  IInv' /\ SaidIsSaved
<1>1. /\ kg[k] = "finalize" /\ kg' = [kg EXCEPT ![k] = "done"] /\ Broadcast(k, "finalize")
      /\ UNCHANGED <<got, dev, toCoord, confirmed, saved>>
  BY DEF FinalizeKeygen
<1>2. CoordInv /\ got[k] \in SUBSET Devices /\ got' = [got EXCEPT ![k] = got[k]]
  BY <1>1 DEF IInv, CoordInv
<1>3. \A d \in Members[k] : k \in confirmed[d]
  BY <1>1, <1>2 DEF CoordInv
<1>4. CoordInv' /\ Finished \subseteq Finished' /\ k \in Finished'
  BY <1>1, <1>2, <1>3, MovedKeeps DEF States
<1>5. Told /\ Heard
  BY <1>1, <1>4 DEF Told, Heard, Asks
<1> QED
  BY <1>1, <1>4, <1>5, CoordStepKeeps

LEMMA CancelKeygenKeeps ==
  ASSUME IInv, NEW k \in Keygens, CancelKeygen(k)
  PROVE  IInv' /\ SaidIsSaved
<1>1. /\ kg[k] \in Pending /\ kg' = [kg EXCEPT ![k] = "cancelled"] /\ Broadcast(k, "cancel")
      /\ got' = [got EXCEPT ![k] = {}] /\ UNCHANGED <<dev, toCoord, confirmed, saved>>
  BY DEF CancelKeygen
<1>2. CoordInv
  BY DEF IInv
<1>3. CoordInv' /\ Finished \subseteq Finished'
  BY <1>1, <1>2, MovedKeeps DEF States, Pending, Waiting
<1>4. Told /\ Heard
  BY <1>1 DEF Told, Heard, Asks
<1> QED
  BY <1>1, <1>3, <1>4, CoordStepKeeps

\* A step of the coordinator that leaves its own state alone.
LEMMA IdleCoord ==
  ASSUME IInv, UNCHANGED <<coordVars, confirmed, saved>>
  PROVE  CoordInv' /\ Finished \subseteq Finished'
<1>1. CoordInv /\ kg' = kg /\ got' = got /\ confirmed' = confirmed /\ saved' = saved
  BY DEF IInv, coordVars
<1> QED
  BY <1>1 DEF CoordInv, Finished

LEMMA PreviewNameKeeps ==
  ASSUME IInv, NEW k \in Keygens, NEW d \in Devices, PreviewName(d, k)
  PROVE  IInv' /\ SaidIsSaved
<1>1. CoordInv' /\ Finished \subseteq Finished'
  BY IdleCoord DEF PreviewName
<1>2. Told /\ Heard /\ UNCHANGED <<dev, confirmed, saved>>
  BY DEF Told, Heard, PreviewName
<1> QED
  BY <1>1, <1>2, CoordStepKeeps

LEMMA RecvSetNameKeeps ==
  ASSUME IInv, NEW d \in Devices, RecvSetName(d)
  PROVE  IInv' /\ SaidIsSaved
<1>1. CoordInv' /\ Finished \subseteq Finished'
  BY IdleCoord DEF RecvSetName
<1>2. Told /\ Heard /\ UNCHANGED <<dev, confirmed, saved>>
  BY DEF Told, Heard, RecvSetName, Says
<1> QED
  BY <1>1, <1>2, CoordStepKeeps

\* What the coordinator takes off a channel.
LEMMA Answering ==
  ASSUME IInv, NEW d \in Devices, NEW type, Receiving(d, type)
  PROVE  /\ Received(d).keygen \in Keygens
         /\ type = "ack" => Received(d).keygen \in confirmed[d]
<1>1. toCoord[d] \in Seq(Answers(confirmed[d])) /\ toCoord[d] # <<>> /\ Received(d).type = type
  BY DEF IInv, WireInv, Receiving
<1>2. Received(d) \in Answers(confirmed[d])
  BY <1>1, QueueOf DEF Received
<1> QED
  BY <1>1, <1>2 DEF Answers

(* An answer: the last ack that is missing is one more user who agreed.      *)
LEMMA RecvAnswerKeeps ==
  ASSUME IInv, NEW d \in Devices, NEW type \in Says, NEW state \in Waiting,
         NEW after \in States \ {"done"}, NEW next, next = None \/ next \in Asks \ {"finalize"},
         state = "acks" => type = "ack", after = "finalize" => state = "acks",
         RecvAnswer(d, type, state, after, next)
  PROVE  IInv' /\ SaidIsSaved
<1> DEFINE k == Received(d).keygen
           answers == got[k] \cup {d}
<1>1. /\ Receiving(d, type) /\ UNCHANGED <<dev, confirmed, saved>>
      /\ IF kg[k] = state THEN Answered(d, k, after, next) ELSE Dropped(k) /\ UNCHANGED toDevice
  BY DEF RecvAnswer
<1>2. k \in Keygens /\ (type = "ack" => k \in confirmed[d]) /\ CoordInv
  BY <1>1, Answering DEF IInv
<1> HIDE DEF k
<1>3. /\ kg \in [Keygens -> States] /\ got \in [Keygens -> SUBSET Devices]
      /\ got[k] \in SUBSET Devices /\ kg[k] \in States
  BY <1>2 DEF CoordInv, States
<1>4. kg[k] = "acks" => \A e \in got[k] : k \in confirmed[e]
  BY <1>2 DEF CoordInv
<1>5. CoordInv' /\ Finished \subseteq Finished' /\ Told
  <2>1. CASE kg[k] = state /\ AllIn(k, answers)
    <3>1. /\ kg' = [kg EXCEPT ![k] = after] /\ got' = [got EXCEPT ![k] = {}]
          /\ IF next = None THEN UNCHANGED toDevice ELSE Broadcast(k, next)
      BY <1>1, <2>1 DEF Answered
    <3>2. kg[k] # "done" /\ (after = "finalize" => \A e \in Members[k] : k \in confirmed[e])
      BY <1>2, <1>4, <2>1 DEF AllIn, Waiting
    <3>3. CoordInv' /\ Finished \subseteq Finished'
      BY <1>1, <1>2, <3>1, <3>2, MovedKeeps
    <3> QED
      BY <1>2, <3>1, <3>3 DEF Told
  <2>2. CASE kg[k] = state /\ ~AllIn(k, answers)
    <3>1. UNCHANGED <<kg, toDevice>> /\ got' = [got EXCEPT ![k] = answers]
      BY <1>1, <2>2 DEF Answered
    <3>2. kg' = [kg EXCEPT ![k] = kg[k]] /\ answers \in SUBSET Devices
      BY <1>3, <3>1
    <3>3. /\ kg[k] = "acks" => \A e \in answers : k \in confirmed[e]
          /\ kg[k] \notin {"finalize", "done"}
      BY <1>2, <1>4, <2>2 DEF Waiting
    <3> HIDE DEF answers
    <3>4. CoordInv' /\ Finished \subseteq Finished'
      BY <1>1, <1>2, <1>3, <3>1, <3>2, <3>3, MovedKeeps
    <3> QED
      BY <3>1, <3>4 DEF Told
  <2>3. CASE kg[k] # state
    <3> DEFINE x == IF kg[k] \in Pending THEN "dropped" ELSE kg[k]
    <3>1. /\ kg' = [kg EXCEPT ![k] = x] /\ got' = [got EXCEPT ![k] = {}]
          /\ UNCHANGED toDevice
      BY <1>1, <2>3 DEF Dropped
    <3>2. /\ x \in States /\ (kg[k] = "done" => x = "done") /\ x # "acks"
          /\ x \in {"finalize", "done"} => kg[k] = x
      BY <1>3 DEF States, Pending, Waiting
    <3>3. x \in {"finalize", "done"} => \A e \in Members[k] : k \in confirmed[e]
      BY <1>2, <3>2 DEF CoordInv
    <3> HIDE DEF x
    <3>4. {} \in SUBSET Devices /\ UNCHANGED <<confirmed, saved>> /\ x \in States
      BY <1>1, <3>2
    <3>5. kg[k] = "done" => x = "done"
      BY <3>2
    <3>6. x = "acks" => \A e \in {} : k \in confirmed[e]
      OBVIOUS
    <3>7. CoordInv' /\ Finished \subseteq Finished'
      BY <1>2, <3>1, <3>3, <3>4, <3>5, <3>6, MovedKeeps
    <3> QED
      BY <3>1, <3>7 DEF Told
  <2> QED
    BY <2>1, <2>2, <2>3
<1>6. Heard
  BY <1>1 DEF Heard
<1> QED
  BY <1>1, <1>5, <1>6, CoordStepKeeps

LEMMA RecvResponseKeeps ==
  ASSUME IInv, NEW d \in Devices, RecvResponse(d)
  PROVE  IInv' /\ SaidIsSaved
BY RecvAnswerKeeps DEF RecvResponse, Says, Asks, Waiting, States, Pending

LEMMA RecvCertifyKeeps ==
  ASSUME IInv, NEW d \in Devices, RecvCertify(d)
  PROVE  IInv' /\ SaidIsSaved
BY RecvAnswerKeeps DEF RecvCertify, Says, Asks, Waiting, States, Pending

LEMMA RecvAckKeeps ==
  ASSUME IInv, NEW d \in Devices, RecvAck(d)
  PROVE  IInv' /\ SaidIsSaved
BY RecvAnswerKeeps DEF RecvAck, Says, Asks, Waiting, States, Pending
-------------------------------------------------------------------------------
LEMMA InitInv == Init => IInv
<1> SUFFICES ASSUME Init PROVE IInv
  OBVIOUS
<1>1. CoordInv
  BY DEF Init, CoordInv
<1>2. /\ Blank \in PairOver(Keygens) /\ AbRead(Blank) = None
  BY EmptyIndexAssumption
  DEF Blank, Erased, PairOver, SlotOver, Copies, AbRead, SlotRead, Current, ReadIndex
<1>3. Sound(Rebooted([flash |-> Blank, name |-> None]), {}, Finished)
  BY <1>2, RebootedSound DEF Finished
<1>4. Rebooted([flash |-> Blank, name |-> None]) = FreshDevice
  <2>1. Loaded(Blank) = <<>>
    BY <1>2 DEF Loaded
  <2> DEFINE none == [k \in Keygens |-> "none"]
             seen == [flash |-> Blank, name |-> None]
  <2>2. FreshDevice = [tmp |-> none, parked |-> None, ram |-> <<>>, staged |-> <<>>,
                       flash |-> Blank, preview |-> None, name |-> None]
    BY Zenon DEF FreshDevice
  <2> HIDE DEF none, seen
  <2>3. seen.flash = Blank /\ seen.name = None
    BY DEF seen
  <2>4. Rebooted(seen) = [FreshDevice EXCEPT !.flash = Blank, !.name = None, !.ram = <<>>]
    BY <2>1, <2>3 DEF Rebooted
  <2> QED
    BY <2>2, <2>4 DEF seen
<1>5. DeviceInv
  <2> SUFFICES ASSUME NEW d \in Devices PROVE Sound(dev[d], confirmed[d], Finished)
    BY DEF Init, DeviceInv
  <2>1. dev[d] = FreshDevice /\ confirmed[d] = {}
    BY DEF Init
  <2> QED
    BY <1>3, <1>4, <2>1
<1>6. WireInv
  BY DEF Init, WireInv
<1> QED
  BY <1>1, <1>5, <1>6 DEF IInv

LEMMA StutterKeeps == IInv /\ UNCHANGED vars => IInv' /\ SaidIsSaved
<1> SUFFICES ASSUME IInv, UNCHANGED vars PROVE IInv' /\ SaidIsSaved
  OBVIOUS
<1>1. /\ kg' = kg /\ got' = got /\ dev' = dev /\ toDevice' = toDevice
      /\ toCoord' = toCoord /\ confirmed' = confirmed /\ saved' = saved
  BY DEF vars
<1>2. \A d \in Devices : Len(toCoord[d]) \in Nat
  BY LenProperties DEF IInv, WireInv
<1>3. SaidIsSaved
  BY <1>1, <1>2 DEF SaidIsSaved
<1>4. IInv'
  BY <1>1 DEF IInv, CoordInv, DeviceInv, WireInv, Finished
<1> QED
  BY <1>3, <1>4

LEMMA NextKeeps == IInv /\ [Next]_vars => IInv' /\ SaidIsSaved
<1> SUFFICES ASSUME IInv, [Next]_vars PROVE IInv' /\ SaidIsSaved
  OBVIOUS
<1>1. ASSUME NEW k \in Keygens, BeginKeygen(k) \/ FinalizeKeygen(k) \/ CancelKeygen(k)
      PROVE  IInv' /\ SaidIsSaved
  BY <1>1, BeginKeygenKeeps, FinalizeKeygenKeeps, CancelKeygenKeeps
<1>2. ASSUME NEW k \in Keygens, NEW d \in Devices, PreviewName(d, k)
      PROVE  IInv' /\ SaidIsSaved
  BY <1>2, PreviewNameKeeps
<1>3. ASSUME NEW d \in Devices,
             RecvResponse(d) \/ RecvCertify(d) \/ RecvAck(d) \/ RecvSetName(d)
      PROVE  IInv' /\ SaidIsSaved
  BY <1>3, RecvResponseKeeps, RecvCertifyKeeps, RecvAckKeeps, RecvSetNameKeeps
<1>4. ASSUME NEW d \in Devices,
             RecvBegin(d) \/ RecvCertifyPlease(d) \/ RecvCheck(d) \/ Confirm(d) \/ RecvFinalize(d)
      PROVE  IInv' /\ SaidIsSaved
  BY <1>4, RecvBeginKeeps, RecvCertifyPleaseKeeps, RecvCheckKeeps, ConfirmKeeps, RecvFinalizeKeeps
<1>5. ASSUME NEW d \in Devices, Decline(d) \/ RecvCancel(d) \/ RecvPreview(d) \/ Unplug(d)
      PROVE  IInv' /\ SaidIsSaved
  BY <1>5, DeclineKeeps, RecvCancelKeeps, RecvPreviewKeeps, UnplugKeeps
<1>6. CASE UNCHANGED vars
  BY <1>6, StutterKeeps
<1> QED
  BY <1>1, <1>2, <1>3, <1>4, <1>5, <1>6 DEF Next

(* Every reachable state of the ceremony satisfies IInv.                     *)
THEOREM Invariant == Spec => []IInv
<1> QED
  BY InitInv, NextKeeps, PTL DEF Spec

(* A key the coordinator keeps was agreed to on every member's screen: an    *)
(* ack is sent for nothing else, and each member's is waited for.            *)
THEOREM FinishedKeysAreConfirmed == Spec => []KeysAreConfirmed
<1>1. IInv => KeysAreConfirmed
  BY DEF IInv, CoordInv, KeysAreConfirmed
<1> QED
  BY <1>1, Invariant, PTL

(* An abandoned ceremony leaves no share on any device, in RAM or on flash.  *)
THEOREM NoShareOfAnUnfinishedKey == Spec => []SharesAreOfFinishedKeys
<1>1. IInv => SharesAreOfFinishedKeys
  <2> SUFFICES ASSUME IInv, NEW d \in Devices, NEW k \in Shares(dev[d]) \cup saved[d]
               PROVE  kg[k] = "done"
    BY DEF SharesAreOfFinishedKeys
  <2>1. \A i \in 1..Len(dev[d].ram) : dev[d].ram[i] \in Finished
    BY DEF IInv, DeviceInv, Sound
  <2>2. saved[d] \subseteq Finished
    BY DEF IInv, CoordInv
  <2> QED
    BY <2>1, <2>2 DEF Shares, Finished
<1> QED
  BY <1>1, Invariant, PTL

(* Whatever was refused or cut, the share that a reset brings back is the    *)
(* one the signer got last.                                                  *)
THEOREM ResetBringsTheNewestShare == Spec => []NoOlderShareReturns
<1>1. IInv => NoOlderShareReturns
  BY DEF IInv, DeviceInv, Sound, Newest, NoOlderShareReturns
<1> QED
  BY <1>1, Invariant, PTL

(* The coordinator cannot rename a device whose user agreed to nothing.      *)
THEOREM NamesNeedApproval == Spec => []NamesAreApproved
<1>1. IInv => NamesAreApproved
  <2> SUFFICES ASSUME IInv, NEW d \in Devices, dev[d].name # None
               PROVE  \E k \in confirmed[d] : kg[k] = "done"
    BY DEF NamesAreApproved
  <2>1. confirmed[d] \cap Finished # {}
    BY DEF IInv, DeviceInv, Sound
  <2> QED
    BY <2>1 DEF Finished
<1> QED
  BY <1>1, Invariant, PTL

(* run persists before it fills the outbox.                                  *)
THEOREM SavedBeforeSaid == Spec => NothingIsSaidUnsaved
<1>1. IInv /\ [Next]_vars => [SaidIsSaved]_vars
  BY NextKeeps
<1>2. Spec => [][SaidIsSaved]_vars
  BY <1>1, Invariant, PTL DEF Spec
<1> QED
  BY <1>2, PTL DEF NothingIsSaidUnsaved, SaidIsSaved
===============================================================================
