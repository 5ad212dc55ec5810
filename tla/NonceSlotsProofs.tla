--------------------------- MODULE NonceSlotsProofs ---------------------------
(* No nonce of a device signs for two sessions: for any number of slots,     *)
(* streams, sessions and items per session, and whatever the flash does.     *)
EXTENDS NonceSlots, AbSlotProofs, WellFoundedInduction

\* Every seed in use was drawn, so the next one drawn is new.
SeedsWereDrawn ==
  /\ \A i \in SlotIds : Readable(i) => Value(i).seed <= seeds
  /\ \A e \in emitted : e.nonce.seed <= seeds

IInv == /\ TypeOK /\ SeedsWereDrawn /\ SeedsAreDistinct /\ SpentIsBehind
        /\ CacheIsOneSession /\ NoNonceReuse

-------------------------------------------------------------------------------
\* A nonempty set of naturals has a least element.
LEMMA Least ==
  ASSUME NEW S \in SUBSET Nat, S # {}
  PROVE  \E x \in S : \A y \in S : x <= y
  <1>1. PICK x \in S : \A y \in S : <<y, x>> \notin OpToRel(<, Nat)
    BY NatLessThanWellFounded, WFMin
  <1>2. \A y \in S : ~(y < x)
    BY <1>1 DEF OpToRel
  <1> QED BY <1>2

LEMMA FirstInFact ==
  ASSUME NEW S \in SUBSET SlotIds, S # {}
  PROVE  FirstIn(S) \in S
  <1>1. S \in SUBSET Nat
    BY NonceAssumption DEF SlotIds
  <1>2. \E x \in S : \A y \in S : x <= y
    BY <1>1, Least
  <1> QED BY <1>2 DEF FirstIn

\* get yields no slot, or one that reads as the stream asked for.
LEMMA GetFact ==
  ASSUME NEW s, Get(s) # 0
  PROVE  Get(s) \in SlotIds /\ Readable(Get(s)) /\ Value(Get(s)).stream = s
  <1> DEFINE S == {i \in SlotIds : Readable(i) /\ Value(i).stream = s}
  <1>1. S # {}
    BY DEF Get, FirstIn
  <1>2. Get(s) \in S
    BY <1>1, FirstInFact DEF Get
  <1> QED BY <1>2

\* What a slot of well-typed flash reads as.
LEMMA ValueType ==
  ASSUME flash \in [SlotIds -> PairOver(SlotValues)], NEW i \in SlotIds
  PROVE  Value(i) \in SlotValues \cup {None}
  <1>1. flash[i] \in PairOver(SlotValues) OBVIOUS
  <1>2. Current(flash[i]) \in Copies
    BY DEF Current, Copies
  <1> QED BY <1>1, <1>2 DEF Value, AbRead, SlotRead, PairOver, SlotOver

\* get_or_create always settles on one of the slots.
LEMMA ChosenFact ==
  ASSUME flash \in [SlotIds -> PairOver(SlotValues)], NEW s
  PROVE  Chosen(s) \in SlotIds
  <1> DEFINE hits == {i \in SlotIds : ~Readable(i) \/ Value(i).stream = s}
             oldest == {i \in SlotIds : \A j \in SlotIds : Value(i).used <= Value(j).used}
  <1>1. CASE hits # {}
    <2>1. FirstIn(hits) \in hits
      BY <1>1, FirstInFact
    <2> QED BY <1>1, <2>1 DEF Chosen
  <1>2. CASE hits = {}
    <2> DEFINE used == {Value(i).used : i \in SlotIds}
    <2>1. \A i \in SlotIds : Value(i) \in SlotValues
      BY <1>2, ValueType DEF Readable
    <2>2. used \in SUBSET Nat /\ used # {}
      <3>1. 1 \in SlotIds BY NonceAssumption DEF SlotIds
      <3> QED BY <2>1, <3>1 DEF SlotValues
    <2>3. PICK u \in used : \A w \in used : u <= w
      BY <2>2, Least
    <2>4. oldest # {}
      BY <2>3
    <2>5. FirstIn(oldest) \in oldest
      BY <2>4, FirstInFact
    <2> QED BY <1>2, <2>5 DEF Chosen
  <1> QED BY <1>1, <1>2

(* Writing to one slot: the others read as before, and it reads as before,   *)
(* as the value written, or as nothing.                                      *)
LEMMA WriteFact ==
  ASSUME flash \in [SlotIds -> PairOver(SlotValues)],
         NEW i \in SlotIds, NEW v \in SlotValues,
         NEW r \in Results(flash[i], v),
         flash' = [flash EXCEPT ![i] = r.slots]
  PROVE  /\ flash' \in [SlotIds -> PairOver(SlotValues)]
         /\ Value(i)' = AbRead(r.slots)
         /\ Value(i)' \in {Value(i), None, v}
         /\ \A j \in SlotIds \ {i} : Value(j)' = Value(j)
  <1>1. flash[i] \in PairOver(SlotValues) /\ r \in WriteResults(flash[i], v)
    BY DEF Results
  <1>2. /\ r.slots \in PairOver(SlotValues)
        /\ AbRead(r.slots) \in {AbRead(flash[i]), None, v}
    BY <1>1, NoneAssumption, ReadAfterWrite
  <1>3. /\ flash' \in [SlotIds -> PairOver(SlotValues)]
        /\ flash'[i] = r.slots
        /\ \A j \in SlotIds \ {i} : flash'[j] = flash[j]
    BY <1>2
  <1> QED BY <1>2, <1>3 DEF Value

\* The nonces of a job start at the slot's index and end below u32::MAX.
LEMMA ReconcileFact ==
  ASSUME NEW v \in SlotValues, NEW st \in CoordStates
  PROVE  /\ Reconcile(v, st) \in SUBSET AllNonces
         /\ \A n \in Reconcile(v, st) : n.seed = v.seed /\ n.index >= v.index
  <1> DEFINE length == IF v.index > st.index \/ st.remaining < Batch THEN Batch
                       ELSE IF v.index = st.index THEN 0
                       ELSE IF st.index - v.index < Batch THEN st.index - v.index
                       ELSE Batch
  <1>1. /\ v.index \in 0..MaxNonce /\ v.seed \in Nat
        /\ st.index \in 0..MaxNonce /\ st.remaining \in Nat
        /\ Batch \in Nat /\ MaxNonce \in Nat
    BY NonceAssumption DEF SlotValues, CoordStates
  <1>2. length \in Nat
    BY <1>1
  <1>3. Reconcile(v, st) = IF v.index + length >= MaxNonce THEN {}
                           ELSE Nonces(v, v.index, length)
    BY DEF Reconcile
  <1> HIDE DEF length
  <1>4. CASE v.index + length >= MaxNonce
    BY <1>3, <1>4
  <1>5. CASE ~(v.index + length >= MaxNonce)
    BY <1>1, <1>2, <1>3, <1>5 DEF Nonces, AllNonces
  <1> QED BY <1>4, <1>5

-------------------------------------------------------------------------------
(* The safety part of IInv survives a step that emits nothing and leaves     *)
(* each slot reading as before or as nothing.                                *)
LEMMA OnlyForgets ==
  ASSUME IInv, TypeOK',
         \A i \in SlotIds : Value(i)' \in {Value(i), None},
         emitted' = emitted, seeds' >= seeds
  PROVE  IInv'
  <1>1. \A i \in SlotIds : Readable(i)' => Readable(i) /\ Value(i)' = Value(i)
    BY DEF Readable
  <1>2. SeedsWereDrawn'
    <2>1. \A i \in SlotIds : Readable(i) => Value(i) \in SlotValues
      BY ValueType DEF IInv, TypeOK, PairOver, Readable
    <2> QED BY <1>1, <2>1 DEF IInv, SeedsWereDrawn, TypeOK, SlotValues, AllNonces
  <1>3. SeedsAreDistinct'
    BY <1>1 DEF IInv, SeedsAreDistinct
  <1>4. SpentIsBehind'
    BY <1>1 DEF IInv, SpentIsBehind
  <1>5. CacheIsOneSession'
    BY <1>1 DEF IInv, CacheIsOneSession, Used, Nonces
  <1>6. NoNonceReuse'
    BY DEF IInv, NoNonceReuse
  <1> QED BY <1>2, <1>3, <1>4, <1>5, <1>6 DEF IInv

\* Steps that touch neither flash nor what was emitted.
LEMMA FlashUntouched ==
  ASSUME IInv, TypeOK', flash' = flash, emitted' = emitted, seeds' = seeds
  PROVE  IInv'
  <1>1. \A i \in SlotIds : Value(i)' = Value(i)
    BY DEF Value
  <1> QED BY <1>1, OnlyForgets DEF IInv, TypeOK

\* A function on an initial segment has a greatest value on any part of it.
LEMMA Greatest ==
  ASSUME NEW n \in Nat, NEW P \in SUBSET (1..n), P # {},
         NEW f, \A i \in P : f[i] \in Nat
  PROVE  \E i \in P : \A j \in P : f[j] <= f[i]
  <1> DEFINE Above(b, k) == \A i \in P : i <= k => f[i] <= b
             bad == {k \in 0..n : ~ \E b \in Nat : Above(b, k)}
             Bounds == {b \in Nat : Above(b, n)}
  <1>1. bad = {}
    <2> SUFFICES ASSUME bad # {} PROVE FALSE
      OBVIOUS
    <2>1. PICK k \in bad : \A m \in bad : k <= m
      <3>1. bad \in SUBSET Nat OBVIOUS
      <3> HIDE DEF bad
      <3> QED BY <3>1, Least
    <2>2. 0 \in Nat /\ Above(0, 0)
      OBVIOUS
    <2>3. k # 0
      BY <2>2
    <2> HIDE DEF Above
    <2> k \in 0..n /\ ~ \E b \in Nat : Above(b, k)
      BY <2>1
    <2>4. k - 1 \in 0..n
      BY <2>3
    <2>5. PICK b \in Nat : Above(b, k - 1)
      <3>1. k - 1 \notin bad
        BY <2>1
      <3> QED BY <2>4, <3>1
    <2> USE DEF Above
    <2> HIDE DEF bad
    <2>6. CASE k \in P
      <3>1. f[k] \in Nat BY <2>6
      <3>2. ASSUME NEW i \in P, i <= k PROVE f[i] <= b + f[k]
        <4>1. i \in Nat /\ f[i] \in Nat OBVIOUS
        <4>2. i = k \/ i <= k - 1 BY <3>2, <4>1
        <4> QED BY <2>5, <3>1, <4>1, <4>2
      <3> QED BY <3>1, <3>2
    <2>7. CASE k \notin P
      <3>1. Above(b, k)
        BY <2>5, <2>7
      <3> QED BY <3>1
    <2> QED BY <2>6, <2>7
  <1>2. PICK b \in Bounds : \A c \in Bounds : b <= c
    <2>1. n \notin bad
      BY <1>1
    <2>2. Bounds # {}
      <3> HIDE DEF Above
      <3> QED BY <2>1
    <2>3. Bounds \in SUBSET Nat OBVIOUS
    <2> HIDE DEF Bounds
    <2> QED BY <2>2, <2>3, Least
  <1>3. \A i \in P : f[i] <= b
    BY <1>2
  <1>4. \E i \in P : f[i] = b
    <2> SUFFICES ASSUME \A i \in P : f[i] # b PROVE FALSE
      OBVIOUS
    <2> b \in Nat OBVIOUS
    <2> PICK p \in P : f[p] \in Nat OBVIOUS
    <2>1. \A i \in P : f[i] < b
      BY <1>2, <1>3
    <2>2. b # 0
      BY <2>1
    <2>3. b - 1 \in Nat /\ \A i \in P : f[i] <= b - 1
      BY <1>2, <2>1, <2>2
    <2>4. b - 1 \in Bounds BY <2>3
    <2> QED BY <1>2, <2>4
  <1> QED BY <1>3, <1>4

\* The counter rebuilt at power-up is a natural number.
LEMMA MaxUsedType ==
  ASSUME NEW fl \in [SlotIds -> PairOver(SlotValues)]
  PROVE  MaxUsed(fl) \in Nat
  <1> DEFINE P == {i \in SlotIds : AbRead(fl[i]) # None}
             f == [i \in SlotIds |-> AbRead(fl[i]).used]
             used == {AbRead(fl[i]).used : i \in P}
  <1>1. \A i \in P : f[i] \in Nat
    <2> SUFFICES ASSUME NEW i \in P PROVE AbRead(fl[i]).used \in Nat
      OBVIOUS
    <2>1. Current(fl[i]) \in Copies
      BY DEF Current, Copies
    <2>2. AbRead(fl[i]) \in SlotValues
      BY <2>1 DEF AbRead, SlotRead, PairOver, SlotOver
    <2> QED BY <2>2 DEF SlotValues
  <1>2. CASE P = {}
    BY <1>2 DEF MaxUsed
  <1>3. CASE P # {}
    <2>1. PICK i \in P : \A j \in P : f[j] <= f[i]
      <3>1. NSlots \in Nat /\ P \in SUBSET (1..NSlots)
        BY NonceAssumption DEF SlotIds
      <3> HIDE DEF P, f
      <3> QED BY <1>1, <1>3, <3>1, Greatest
    <2>2. f[i] \in used /\ \A w \in used : w <= f[i]
      BY <2>1
    <2>3. used \in SUBSET Nat
      BY <1>1
    <2>4. MaxUsed(fl) = CHOOSE u \in used : \A w \in used : w <= u
      BY <2>2 DEF MaxUsed
    <2> QED BY <2>2, <2>3, <2>4
  <1> QED BY <1>2, <1>3

LEMMA InitInv == Init => IInv
  <1> SUFFICES ASSUME Init PROVE IInv
    OBVIOUS
  <1>1. Blank \in PairOver(SlotValues) /\ AbRead(Blank) = None
    BY EmptyIndexAssumption
    DEF Blank, Erased, PairOver, SlotOver, AbRead, SlotRead, Current, Copies
  <1>2. \A i \in SlotIds : ~Readable(i)
    BY <1>1 DEF Init, Readable, Value
  <1>3. TypeOK
    BY <1>1, NonceAssumption DEF Init, TypeOK, PairOver
  <1> QED BY <1>2, <1>3 DEF Init, IInv, SeedsWereDrawn, SeedsAreDistinct,
                            SpentIsBehind, CacheIsOneSession, NoNonceReuse

-------------------------------------------------------------------------------
\* One lemma per action.
LEMMA OpenInv ==
  ASSUME IInv, NEW streams \in OpenRequests, OpenNonceStreams(streams)
  PROVE  IInv'
  <1>1. TypeOK'
    BY NonceAssumption DEF IInv, TypeOK, OpenNonceStreams, OpenRequests
  <1> QED BY <1>1, FlashUntouched DEF OpenNonceStreams

LEMMA TurnType ==
  ASSUME TypeOK, ~Idle, NEW st \in Turn
  PROVE  /\ st \in OpenStates /\ st \in CoordStates /\ st.stream \in Streams
         /\ room - 1 \in 0..NSlots
  BY ClaimsAssumption, NonceAssumption DEF TypeOK, Idle, Turn, CoordStates

LEMMA ServeExistingInv == ASSUME IInv, ServeExisting PROVE IInv'
  <1>1. PICK st \in Turn :
           /\ Found(Chosen(st.stream), st.stream)
           /\ offer' = Reconcile(Value(Chosen(st.stream)), st)
           /\ Taken(st)
    BY DEF ServeExisting
  <1> DEFINE i == Chosen(st.stream)
  <1>2. ~Idle /\ UNCHANGED <<flash, parked, seeds, emitted>>
    BY DEF ServeExisting
  <1>3. i \in SlotIds /\ Value(i) \in SlotValues
    BY <1>1, ChosenFact, ValueType DEF IInv, TypeOK, PairOver, Found, Readable
  <1>4. /\ st \in CoordStates /\ st.stream \in Streams /\ room - 1 \in 0..NSlots
    BY <1>1, <1>2, TurnType DEF IInv
  <1>5. offer' \in SUBSET AllNonces
    BY <1>1, <1>3, <1>4, ReconcileFact
  <1>6. TypeOK'
    BY <1>1, <1>2, <1>4, <1>5 DEF IInv, TypeOK, Taken
  <1> QED BY <1>2, <1>6, FlashUntouched

LEMMA RequestSignInv ==
  ASSUME IInv, NEW q \in Requests, RequestSign(q) PROVE IInv'
  <1>1. TypeOK'
    BY DEF IInv, TypeOK, RequestSign, queue
  <1> QED BY <1>1, FlashUntouched DEF RequestSign

LEMMA DismissInv == ASSUME IInv, Dismiss PROVE IInv'
  <1>1. TypeOK'
    BY DEF IInv, TypeOK, Dismiss, queue
  <1> QED BY <1>1, FlashUntouched DEF Dismiss

LEMMA RebootInv == ASSUME IInv, Reboot PROVE IInv'
  <1>1. MaxUsed(flash) \in Nat
    BY MaxUsedType DEF IInv, TypeOK, PairOver
  <1>2. TypeOK'
    BY <1>1, NonceAssumption DEF IInv, TypeOK, Reboot, Restarted
  <1> QED BY <1>2, FlashUntouched DEF Reboot

\* The write that get_or_create makes for st, and what follows from it.
ServeWrite(st, i, v, r) ==
  /\ flash' = [flash EXCEPT ![i] = r.slots]
  /\ IF r.outcome = "crash"
     THEN Restarted(flash') /\ offer' = {}
     ELSE /\ Taken(st)
          /\ offer' = (IF AbRead(r.slots) = None THEN {}
                       ELSE Reconcile(AbRead(r.slots), st))
          /\ UNCHANGED parked

LEMMA ServeNewCases ==
  ASSUME TypeOK, ServeNew
  PROVE  \E st \in OpenStates, i \in SlotIds, v \in SlotValues :
           /\ st \in CoordStates /\ st.stream \in Streams /\ room - 1 \in 0..NSlots
           /\ v.seed = seeds + 1 /\ v.signing = None /\ v.index = 0
           /\ seeds' = seeds + 1 /\ emitted' = emitted
           /\ \E r \in Results(flash[i], v) : ServeWrite(st, i, v, r)
  <1> DEFINE V(st) == SlotValue(0, st.stream, seeds + 1, last_used + 1, None)
  <1>1. PICK st \in Turn :
           /\ \E r \in Results(flash[Chosen(st.stream)], V(st)) :
                ServeWrite(st, Chosen(st.stream), V(st), r)
    BY DEF ServeNew, ServeWrite
  <1>2. ~Idle /\ seeds' = seeds + 1 /\ emitted' = emitted
    BY DEF ServeNew
  <1>3. /\ st \in OpenStates /\ st \in CoordStates /\ st.stream \in Streams
        /\ room - 1 \in 0..NSlots
    BY <1>2, TurnType
  <1>4. PICK i \in SlotIds : i = Chosen(st.stream)
    BY ChosenFact DEF TypeOK, PairOver
  <1>5. PICK v \in SlotValues :
           v = V(st) /\ v.seed = seeds + 1 /\ v.signing = None /\ v.index = 0
    <2>1. /\ seeds + 1 \in Nat /\ last_used + 1 \in Nat /\ 0 \in 0..MaxNonce
      BY NonceAssumption DEF TypeOK
    <2>2. /\ V(st) \in SlotValues /\ V(st).seed = seeds + 1 /\ V(st).signing = None
          /\ V(st).index = 0
      BY <1>3, <2>1 DEF SlotValue, SlotValues
    <2> QED BY <2>2
  <1> HIDE DEF V
  <1> QED BY <1>1, <1>2, <1>3, <1>4, <1>5

LEMMA ServeNewInv == ASSUME IInv, ServeNew PROVE IInv'
  <1>1. PICK st \in OpenStates, i \in SlotIds, v \in SlotValues :
           /\ st \in CoordStates /\ st.stream \in Streams /\ room - 1 \in 0..NSlots
           /\ v.seed = seeds + 1 /\ v.signing = None
           /\ seeds' = seeds + 1 /\ emitted' = emitted
           /\ \E r \in Results(flash[i], v) : ServeWrite(st, i, v, r)
    BY ServeNewCases DEF IInv
  <1>2. /\ seeds' = seeds + 1 /\ emitted' = emitted
    BY <1>1
  <1>3. st \in CoordStates /\ st.stream \in Streams /\ room - 1 \in 0..NSlots
    BY <1>1
  <1>4. flash \in [SlotIds -> PairOver(SlotValues)]
    BY DEF IInv, TypeOK, PairOver
  <1>5. i \in SlotIds OBVIOUS
  <1>6. v.seed = seeds + 1 /\ v.signing = None
    BY <1>1
  <1>7. PICK r \in Results(flash[i], v) :
           /\ flash' = [flash EXCEPT ![i] = r.slots]
           /\ IF r.outcome = "crash"
              THEN Restarted(flash') /\ offer' = {}
              ELSE /\ Taken(st)
                   /\ offer' = (IF AbRead(r.slots) = None THEN {}
                                ELSE Reconcile(AbRead(r.slots), st))
                   /\ UNCHANGED parked
    BY <1>1 DEF ServeWrite
  <1>8. /\ flash' \in [SlotIds -> PairOver(SlotValues)]
        /\ Value(i)' = AbRead(r.slots)
        /\ Value(i)' \in {Value(i), None, v}
        /\ \A j \in SlotIds \ {i} : Value(j)' = Value(j)
    BY <1>4, <1>7, WriteFact
  <1>9. TypeOK'
    <2>1. AbRead(r.slots) \in SlotValues \cup {None}
      BY <1>4, <1>5, <1>6, <1>8, ValueType
    <2>2. offer' \in SUBSET AllNonces
      BY <1>7, <1>3, <2>1, ReconcileFact
    <2>3. /\ last_used' \in Nat /\ parked' \in {None} \cup Requests
          /\ existing' \in SUBSET OpenStates /\ fresh' \in SUBSET OpenStates
          /\ room' \in 0..NSlots
      <3>1. MaxUsed(flash') \in Nat
        BY <1>8, MaxUsedType
      <3> QED BY <1>7, <1>3, <3>1, NonceAssumption
              DEF IInv, TypeOK, Restarted, Taken
    <2> QED BY <1>2, <1>3, <1>8, <2>2, <2>3 DEF IInv, TypeOK, PairOver
  <1>10. CASE Value(i)' \in {Value(i), None}
    <2>1. \A j \in SlotIds : Value(j)' \in {Value(j), None}
      BY <1>8, <1>10
    <2>2. seeds' >= seeds
      BY <1>2 DEF IInv, TypeOK
    <2> QED BY <1>2, <1>9, <2>1, <2>2, OnlyForgets
  <1>11. CASE Value(i)' = v
    <2>1. /\ \A j \in SlotIds : Readable(j) => Value(j) \in SlotValues
          /\ seeds \in Nat
          /\ \A e \in emitted : e.nonce.seed \in Nat
      BY <1>4, <1>5, ValueType DEF IInv, TypeOK, Readable, AllNonces
    <2>2. \A j \in SlotIds \ {i} : Readable(j)' = Readable(j)
      BY <1>8 DEF Readable
    <2>3. /\ \A j \in SlotIds : Readable(j) => Value(j).seed < v.seed
          /\ \A e \in emitted : e.nonce.seed < v.seed
      BY <1>6, <2>1 DEF IInv, SeedsWereDrawn, SlotValues
    <2>4. SeedsWereDrawn'
      BY <1>2, <1>4, <1>5, <1>6, <1>8, <1>11, <2>1, <2>2, <2>3
      DEF SeedsWereDrawn, SlotValues
    <2>5. SeedsAreDistinct'
      <3> SUFFICES ASSUME NEW j \in SlotIds, NEW k \in SlotIds, j # k,
                          Readable(j)', Readable(k)'
                   PROVE Value(j).seed' # Value(k).seed'
        BY DEF SeedsAreDistinct
      <3>1. CASE j # i /\ k # i
        BY <1>8, <2>2, <3>1 DEF IInv, SeedsAreDistinct
      <3>2. CASE j = i
        BY <1>6, <1>8, <1>11, <2>1, <2>2, <2>3, <3>2 DEF SlotValues
      <3>3. CASE k = i
        BY <1>6, <1>8, <1>11, <2>1, <2>2, <2>3, <3>3 DEF SlotValues
      <3> QED BY <3>1, <3>2, <3>3
    <2>6. SpentIsBehind'
      BY <1>2, <1>6, <1>8, <1>11, <2>1, <2>2, <2>3 DEF IInv, SpentIsBehind
    <2>7. CacheIsOneSession'
      BY <1>2, <1>6, <1>8, <1>11, <2>2
      DEF IInv, CacheIsOneSession, Used, Nonces
    <2>8. NoNonceReuse'
      BY <1>2 DEF IInv, NoNonceReuse
    <2> QED BY <1>9, <2>4, <2>5, <2>6, <2>7, <2>8 DEF IInv
  <1> QED BY <1>8, <1>10, <1>11

\* The value sign_ack writes: typed, of the slot's seed, and never behind it.
LEMMA SignedFact ==
  ASSUME TypeOK, NEW old \in SlotValues, NEW q \in Requests,
         Cached(old, q) \/ Signable(old, q)
  PROVE  /\ Signed(old, q) \in SlotValues
         /\ Signed(old, q).seed = old.seed
         /\ Signed(old, q).index >= old.index
         /\ Signed(old, q).signing \in [session : Sessions, first : 0..MaxNonce]
         /\ Signed(old, q).signing.session = q.session
         /\ Cached(old, q) => Signed(old, q) = old
         /\ ~Cached(old, q) =>
               /\ Signed(old, q).signing =
                    [session |-> q.session, first |-> q.nonces.index]
               /\ q.nonces.index >= old.index
               /\ Signed(old, q).index > q.nonces.index
               /\ Signed(old, q).stream = old.stream
  <1>1. /\ old.index \in 0..MaxNonce /\ old.seed \in Nat /\ old.stream \in Streams
        /\ MaxNonce \in Nat
    BY NonceAssumption DEF SlotValues
  <1>2. CASE Cached(old, q)
    BY <1>1, <1>2 DEF Cached, Signed, SlotValues
  <1>3. CASE ~Cached(old, q)
    <2>1. /\ q.session \in Sessions /\ q.nonces.index \in 0..MaxNonce
          /\ Items[q.session] \in Nat
      BY ClaimsAssumption, NonceAssumption DEF Requests, CoordStates
    <2>2. /\ q.nonces.index >= old.index
          /\ q.nonces.index + Items[q.session] \in 0..MaxNonce
          /\ q.nonces.index + Items[q.session] > q.nonces.index
      BY <1>1, <1>3, <2>1 DEF Signable
    <2> DEFINE new == SlotValue(q.nonces.index + Items[q.session], old.stream,
                                old.seed, last_used + 1,
                                [session |-> q.session, first |-> q.nonces.index])
    <2>3. Signed(old, q) = new
      BY <1>3 DEF Signed
    <2>4. last_used + 1 \in Nat
      BY DEF TypeOK
    <2>5. [session |-> q.session, first |-> q.nonces.index]
             \in [session : Sessions, first : 0..MaxNonce]
      BY <2>1
    <2>6. new \in SlotValues
      BY <1>1, <2>2, <2>4, <2>5 DEF SlotValue, SlotValues
    <2>7. /\ new.seed = old.seed /\ new.stream = old.stream /\ new.index = q.nonces.index + Items[q.session]
          /\ new.signing = [session |-> q.session, first |-> q.nonces.index]
      BY DEF SlotValue
    <2> HIDE DEF new
    <2> QED BY <1>1, <1>3, <2>1, <2>2, <2>3, <2>5, <2>6, <2>7
  <1> QED BY <1>2, <1>3

\* The nonces of a signed value lie below its index.
LEMMA UsedFact ==
  ASSUME NEW v \in SlotValues,
         v.signing \in [session : Sessions, first : 0..MaxNonce]
  PROVE  /\ Used(v) \in SUBSET AllNonces
         /\ \A n \in Used(v) : /\ n.seed = v.seed /\ n.index < v.index
                               /\ n.index >= v.signing.first
  <1>1. /\ v.index \in 0..MaxNonce /\ v.seed \in Nat /\ MaxNonce \in Nat
    BY NonceAssumption DEF SlotValues
  <1>2. v.signing.first \in 0..MaxNonce
    BY <1>1
  <1> QED BY <1>1, <1>2 DEF Used, Nonces, AllNonces

\* The write that sign_ack makes for request q, and what follows from it.
SignWrite(i, q, v, r) ==
  /\ flash' = [flash EXCEPT ![i] = r.slots]
  /\ CASE r.outcome = "crash" ->
            Restarted(flash') /\ offer' = {} /\ UNCHANGED emitted
       [] r.outcome # "crash" /\ ~Destroyed(r.slots, v) ->
            /\ parked' = None
            /\ offer' = {}
            /\ UNCHANGED <<last_used, queue, emitted>>
       [] r.outcome # "crash" /\ Destroyed(r.slots, v) ->
            /\ emitted' = emitted \cup
                 {[session |-> q.session, nonce |-> n] : n \in Used(v)}
            /\ offer' = Reconcile(v, q.nonces)
            /\ last_used' = last_used + 1
            /\ parked' = None
            /\ UNCHANGED queue

LEMMA SignAckCases ==
  ASSUME TypeOK, SignAck
  PROVE  /\ seeds' = seeds
         /\ \/ Refuse
            \/ \E i \in SlotIds, q \in Requests, old, v \in SlotValues :
                 /\ old = Value(i) /\ v = Signed(old, q)
                 /\ Cached(old, q) \/ Signable(old, q)
                 /\ \E r \in Results(flash[i], v) : SignWrite(i, q, v, r)
  <1>1. seeds' = seeds
    BY DEF SignAck
  <1>2. CASE Refuse
    BY <1>1, <1>2
  <1>3. CASE ~Refuse
    <2>1. PICK q \in Requests : q = parked
      BY DEF SignAck, TypeOK
    <2>2. PICK i : i = Get(q.nonces.stream)
      OBVIOUS
    <2>3. /\ i # 0
          /\ Cached(Value(i), q) \/ Signable(Value(i), q)
          /\ \E r \in Results(flash[i], Signed(Value(i), q)) :
                SignWrite(i, q, Signed(Value(i), q), r)
      BY <1>3, <2>1, <2>2 DEF SignAck, SignWrite
    <2>4. i \in SlotIds /\ Value(i) \in SlotValues
      <3>1. i \in SlotIds /\ Readable(i)
        <4>1. Get(q.nonces.stream) # 0 BY <2>2, <2>3
        <4> QED BY <2>2, <4>1, GetFact
      <3> QED BY <3>1, ValueType DEF TypeOK, PairOver, Readable
    <2>5. Signed(Value(i), q) \in SlotValues
      BY <2>3, <2>4, SignedFact
    <2> QED BY <1>1, <2>3, <2>4, <2>5
  <1> QED BY <1>2, <1>3

LEMMA SignAckInv == ASSUME IInv, SignAck PROVE IInv'
  <1>1. seeds' = seeds
    BY SignAckCases DEF IInv
  <1>2. CASE Refuse
    <2>1. TypeOK'
      BY <1>1, <1>2 DEF IInv, TypeOK, Refuse, queue
    <2> QED BY <1>1, <1>2, <2>1, FlashUntouched DEF Refuse
  <1>3. ASSUME NEW i \in SlotIds, NEW q \in Requests,
               NEW old \in SlotValues, NEW v \in SlotValues,
               old = Value(i), v = Signed(old, q), Cached(old, q) \/ Signable(old, q),
               NEW r \in Results(flash[i], v), SignWrite(i, q, v, r)
        PROVE  IInv'
    <2>1. /\ flash' \in [SlotIds -> PairOver(SlotValues)]
          /\ Value(i)' = AbRead(r.slots)
          /\ Value(i)' \in {old, None, v}
          /\ \A j \in SlotIds \ {i} : Value(j)' = Value(j)
      BY <1>3, WriteFact DEF IInv, TypeOK, PairOver, SignWrite
    <2>2. /\ v.seed = old.seed /\ v.index >= old.index
          /\ v.signing \in [session : Sessions, first : 0..MaxNonce]
          /\ v.signing.session = q.session
          /\ Cached(old, q) => v = old
          /\ ~Cached(old, q) => v.signing.first >= old.index
      <3>1. TypeOK BY DEF IInv
      <3>2. /\ Signed(old, q).seed = old.seed
            /\ Signed(old, q).index >= old.index
            /\ Signed(old, q).signing \in [session : Sessions, first : 0..MaxNonce]
            /\ Signed(old, q).signing.session = q.session
            /\ Cached(old, q) => Signed(old, q) = old
            /\ ~Cached(old, q) =>
                  /\ Signed(old, q).signing =
                       [session |-> q.session, first |-> q.nonces.index]
                  /\ q.nonces.index >= old.index
        BY <1>3, <3>1, SignedFact
      <3> QED BY <1>3, <3>2
    <2>3. /\ Used(v) \in SUBSET AllNonces
          /\ \A n \in Used(v) : /\ n.seed = v.seed /\ n.index < v.index
                                /\ n.index >= v.signing.first
      BY <2>2, UsedFact
    <2>4. Readable(i) /\ old.index \in Nat /\ v.index \in Nat
          /\ v.signing.first \in Nat /\ old.seed \in Nat
      BY <1>3, <2>2, NoneAssumption, NonceAssumption DEF Readable, SlotValues
    <2> DEFINE made == {[session |-> q.session, nonce |-> n] : n \in Used(v)}
    <2>5. \/ Restarted(flash') /\ offer' = {} /\ UNCHANGED emitted
          \/ /\ parked' = None /\ offer' = {}
             /\ UNCHANGED <<last_used, queue, emitted>>
          \/ /\ emitted' = emitted \cup made /\ Value(i)' = v
             /\ offer' = Reconcile(v, q.nonces)
             /\ last_used' = last_used + 1 /\ parked' = None /\ UNCHANGED queue
      <3> HIDE DEF made
      <3>1. CASE r.outcome = "crash"
        BY <1>3, <3>1 DEF SignWrite
      <3>2. CASE r.outcome # "crash" /\ ~Destroyed(r.slots, v)
        BY <1>3, <3>2 DEF SignWrite
      <3>3. CASE r.outcome # "crash" /\ Destroyed(r.slots, v)
        BY <1>3, <2>1, <3>3 DEF SignWrite, Destroyed, made
      <3> QED BY <3>1, <3>2, <3>3
    <2>6. TypeOK'
      <3>1. /\ last_used' \in Nat /\ parked' \in {None} \cup Requests
            /\ existing' \in SUBSET OpenStates /\ fresh' \in SUBSET OpenStates
            /\ room' \in 0..NSlots
        <4>1. MaxUsed(flash') \in Nat
          BY <2>1, MaxUsedType
        <4> HIDE DEF made
        <4> QED BY <2>5, <4>1, NonceAssumption DEF IInv, TypeOK, Restarted, queue
      <3>2. offer' \in SUBSET AllNonces
        <4>1. q.nonces \in CoordStates
          BY ClaimsAssumption DEF Requests
        <4>2. Reconcile(v, q.nonces) \in SUBSET AllNonces
          BY <4>1, ReconcileFact
        <4> QED BY <2>5, <4>2
      <3>3. emitted' \in SUBSET [session : Sessions, nonce : AllNonces]
        BY <2>3, <2>5 DEF IInv, TypeOK, Requests
      <3> QED BY <1>1, <2>1, <3>1, <3>2, <3>3 DEF IInv, TypeOK, PairOver
    <2>7. CASE emitted' = emitted /\ Value(i)' \in {old, None}
      <3>1. \A j \in SlotIds : Value(j)' \in {Value(j), None}
        BY <1>3, <2>1, <2>7
      <3> QED BY <1>1, <2>6, <2>7, <3>1, OnlyForgets DEF IInv, TypeOK
    <2>8. CASE Value(i)' = v /\ (emitted' = emitted \/ emitted' = emitted \cup made)
      <3>1. \A j \in SlotIds \ {i} : Readable(j)' = Readable(j)
        BY <2>1 DEF Readable
      <3>2. \A j \in SlotIds \ {i} : Readable(j) => Value(j).seed # v.seed
        BY <1>3, <2>2, <2>4 DEF IInv, SeedsAreDistinct
      <3>3. \A e \in emitted' :
               \/ e \in emitted
               \/ /\ e.session = q.session /\ e.nonce \in Used(v)
                  /\ e.nonce.seed = v.seed /\ e.nonce.index < v.index
                  /\ e.nonce.index >= v.signing.first
        BY <2>3, <2>8
      <3> HIDE DEF made
      <3>4. \A e \in emitted : e.nonce.seed = v.seed => e.nonce.index < old.index
        BY <1>3, <2>2, <2>4 DEF IInv, SpentIsBehind
      <3>5. \A e \in emitted : e.nonce \in AllNonces /\ e.nonce.index \in Int
        BY DEF IInv, TypeOK, AllNonces
      <3>6. \A e \in emitted : e.nonce \in Used(v) => e.session = q.session
        <4>1. CASE Cached(old, q)
          BY <1>3, <2>2, <2>4, <4>1 DEF IInv, CacheIsOneSession, Cached
        <4>2. CASE ~Cached(old, q)
          BY <2>2, <2>3, <2>4, <3>4, <3>5, <4>2
        <4> QED BY <4>1, <4>2
      <3>7. SeedsWereDrawn'
        BY <1>1, <1>3, <2>1, <2>2, <2>4, <2>8, <3>1, <3>3
        DEF IInv, SeedsWereDrawn
      <3>8. SeedsAreDistinct'
        <4> SUFFICES ASSUME NEW j \in SlotIds, NEW k \in SlotIds, j # k,
                            Readable(j)', Readable(k)'
                     PROVE Value(j).seed' # Value(k).seed'
          BY DEF SeedsAreDistinct
        <4>1. CASE j # i /\ k # i
          BY <2>1, <3>1, <4>1 DEF IInv, SeedsAreDistinct
        <4>2. CASE j = i
          BY <2>1, <2>8, <3>1, <3>2, <4>2
        <4>3. CASE k = i
          BY <2>1, <2>8, <3>1, <3>2, <4>3
        <4> QED BY <4>1, <4>2, <4>3
      <3>9. SpentIsBehind'
        <4> SUFFICES ASSUME NEW j \in SlotIds, Readable(j)', NEW e \in emitted',
                            e.nonce.seed = Value(j).seed'
                     PROVE e.nonce.index < Value(j).index'
          BY DEF SpentIsBehind
        <4>1. CASE j = i
          BY <2>2, <2>4, <2>8, <3>3, <3>4, <3>5, <4>1
        <4>2. CASE j # i
          BY <2>1, <3>1, <3>2, <3>3, <4>2 DEF IInv, SpentIsBehind
        <4> QED BY <4>1, <4>2
      <3>10. CacheIsOneSession'
        <4> SUFFICES ASSUME NEW j \in SlotIds, Readable(j)', NEW e \in emitted',
                            Value(j).signing' # None, e.nonce \in Used(Value(j))'
                     PROVE e.session = Value(j).signing.session'
          BY DEF CacheIsOneSession
        <4>1. CASE j = i
          <5>1. e.nonce \in Used(v)
            BY <2>8, <4>1 DEF Used, Nonces
          <5> QED BY <2>2, <2>8, <3>3, <3>6, <4>1, <5>1
        <4>2. CASE j # i
          <5>1. Value(j)' = Value(j) /\ Readable(j)
            BY <2>1, <3>1, <4>2
          <5>2. e.nonce \in Used(Value(j)) /\ Value(j).signing # None
            BY <5>1 DEF Used, Nonces
          <5>3. e.nonce.seed = Value(j).seed
            BY <5>2 DEF Used, Nonces
          <5>4. e \in emitted
            BY <3>2, <3>3, <4>2, <5>1, <5>3
          <5> QED BY <5>1, <5>2, <5>4 DEF IInv, CacheIsOneSession
        <4> QED BY <4>1, <4>2
      <3>11. NoNonceReuse'
        BY <3>3, <3>6 DEF IInv, NoNonceReuse
      <3> QED BY <2>6, <3>7, <3>8, <3>9, <3>10, <3>11 DEF IInv
    <2> QED BY <2>1, <2>5, <2>7, <2>8
  <1> QED BY <1>2, <1>3, SignAckCases DEF IInv

LEMMA NextInv == IInv /\ [Next]_vars => IInv'
  <1> SUFFICES ASSUME IInv, [Next]_vars PROVE IInv'
    OBVIOUS
  <1>1. ASSUME NEW streams \in OpenRequests, OpenNonceStreams(streams) PROVE IInv'
    BY <1>1, OpenInv
  <1>2. CASE ServeExisting BY <1>2, ServeExistingInv
  <1>3. CASE ServeNew BY <1>3, ServeNewInv
  <1>4. ASSUME NEW q \in Requests, RequestSign(q) PROVE IInv'
    BY <1>4, RequestSignInv
  <1>5. CASE SignAck BY <1>5, SignAckInv
  <1>6. CASE Dismiss BY <1>6, DismissInv
  <1>7. CASE Reboot BY <1>7, RebootInv
  <1>8. CASE UNCHANGED vars
    <2>1. TypeOK'
      BY <1>8 DEF IInv, TypeOK, vars
    <2> QED BY <1>8, <2>1, FlashUntouched DEF vars
  <1> QED BY <1>1, <1>2, <1>3, <1>4, <1>5, <1>6, <1>7, <1>8 DEF Next

LEMMA SpecInv == Spec => []IInv
  BY InitInv, NextInv, PTL DEF Spec

-------------------------------------------------------------------------------
(* Every reachable state is well typed.                                      *)
THEOREM TypeCorrect == Spec => []TypeOK
  BY SpecInv, PTL DEF IInv

(* No nonce signs for two sessions, whatever sign requests the coordinator   *)
(* makes, wherever power is cut and whatever writes the flash refuses.       *)
THEOREM NoncesSignOnce == Spec => []NoNonceReuse
  BY SpecInv, PTL DEF IInv

(* A signature share leaves the device only once its nonces are behind the   *)
(* index the slot reads as.                                                  *)
THEOREM SpentNoncesAreBehind == Spec => []SpentIsBehind
  BY SpecInv, PTL DEF IInv

(* Shares replayed from a slot are shares of the session they were made for. *)
THEOREM CachesAreOneSession == Spec => []CacheIsOneSession
  BY SpecInv, PTL DEF IInv

(* No two slots derive nonces from one seed.                                 *)
THEOREM SeedsStayDistinct == Spec => []SeedsAreDistinct
  BY SpecInv, PTL DEF IInv

\* A job over a slot that is readable after the step offers unspent nonces.
LEMMA JobIsUnspent ==
  ASSUME IInv', NEW i \in SlotIds, NEW v \in SlotValues, Value(i)' = v,
         NEW st \in CoordStates, offer' = Reconcile(v, st)
  PROVE  OffersAreUnspent'
  <1>1. Readable(i)'
    BY NoneAssumption DEF Readable
  <1>2. \A e \in emitted' : e.nonce.seed = v.seed => e.nonce.index < v.index
    BY <1>1 DEF IInv, SpentIsBehind
  <1>3. \A n \in offer' : n.seed = v.seed /\ n.index >= v.index
    BY ReconcileFact
  <1>4. v.index \in Int /\ \A e \in emitted' : e.nonce.index \in Int
    BY DEF IInv, TypeOK, AllNonces, SlotValues
  <1> QED BY <1>2, <1>3, <1>4 DEF OffersAreUnspent

LEMMA OffersInv ==
  ASSUME IInv, [Next]_vars, OffersAreUnspent
  PROVE  OffersAreUnspent'
  <1>1. IInv' BY NextInv
  <1>2. CASE offer' = {}
    BY <1>2 DEF OffersAreUnspent
  <1>3. CASE ServeExisting
    <2>1. PICK st \in Turn :
             /\ Found(Chosen(st.stream), st.stream)
             /\ offer' = Reconcile(Value(Chosen(st.stream)), st)
      BY <1>3 DEF ServeExisting
    <2>2. PICK i \in SlotIds : i = Chosen(st.stream)
      BY ChosenFact DEF IInv, TypeOK, PairOver
    <2>3. PICK v \in SlotValues : v = Value(i)
      BY <2>1, <2>2, ValueType DEF IInv, TypeOK, PairOver, Found, Readable
    <2>4. Value(i)' = v
      BY <1>3, <2>3 DEF ServeExisting, Value
    <2>5. st \in CoordStates
      BY <1>3, TurnType DEF IInv, ServeExisting
    <2> QED BY <1>1, <2>1, <2>2, <2>3, <2>4, <2>5, JobIsUnspent
  <1>4. CASE ServeNew
    <2>1. PICK st \in OpenStates, i \in SlotIds, v \in SlotValues :
             /\ st \in CoordStates
             /\ \E r \in Results(flash[i], v) : ServeWrite(st, i, v, r)
      BY <1>4, ServeNewCases DEF IInv
    <2>2. PICK r \in Results(flash[i], v) : ServeWrite(st, i, v, r)
      BY <2>1
    <2>3. Value(i)' = AbRead(r.slots) /\ Value(i)' \in {Value(i), None, v}
      BY <2>2, WriteFact DEF IInv, TypeOK, PairOver, ServeWrite
    <2>4. CASE AbRead(r.slots) = None
      BY <1>2, <2>2, <2>4 DEF ServeWrite
    <2>5. CASE AbRead(r.slots) # None /\ offer' # {}
      <3>1. AbRead(r.slots) \in SlotValues
        BY <2>3, <2>5, ValueType DEF IInv, TypeOK, PairOver
      <3>2. offer' = Reconcile(AbRead(r.slots), st)
        BY <2>2, <2>5 DEF ServeWrite
      <3> QED BY <1>1, <2>1, <2>3, <3>1, <3>2, JobIsUnspent
    <2> QED BY <1>2, <2>4, <2>5
  <1>5. CASE SignAck
    <2>1. CASE Refuse
      BY <1>2, <2>1 DEF Refuse
    <2>2. ASSUME NEW i \in SlotIds, NEW q \in Requests, NEW v \in SlotValues,
                 NEW r \in Results(flash[i], v), SignWrite(i, q, v, r), offer' # {}
          PROVE  OffersAreUnspent'
      <3>1. Value(i)' = AbRead(r.slots)
        BY <2>2, WriteFact DEF IInv, TypeOK, PairOver, SignWrite
      <3>2. AbRead(r.slots) = v /\ offer' = Reconcile(v, q.nonces)
        BY <2>2 DEF SignWrite, Destroyed
      <3>3. q.nonces \in CoordStates
        BY ClaimsAssumption DEF Requests
      <3> QED BY <1>1, <3>1, <3>2, <3>3, JobIsUnspent
    <2> QED BY <1>2, <1>5, <2>1, <2>2, SignAckCases DEF IInv
  <1>6. CASE UNCHANGED vars
    BY <1>6 DEF vars, OffersAreUnspent
  <1> QED BY <1>2, <1>3, <1>4, <1>5, <1>6
          DEF Next, OpenNonceStreams, RequestSign, Dismiss, Reboot

(* A segment never offers the coordinator a nonce that has already signed.   *)
THEOREM OffersStayUnspent == Spec => []OffersAreUnspent
  <1>1. Init => OffersAreUnspent
    BY DEF Init, OffersAreUnspent
  <1>2. IInv /\ [Next]_vars /\ OffersAreUnspent => OffersAreUnspent'
    BY OffersInv
  <1> QED BY <1>1, <1>2, SpecInv, PTL DEF Spec

-------------------------------------------------------------------------------
(* The slot chosen for a stream none was found in: with no hole among the    *)
(* slots, no slot holds the stream.                                          *)
LEMMA ChosenIsAbsent ==
  ASSUME flash \in [SlotIds -> PairOver(SlotValues)], NoHole, NEW s,
         ~Found(Chosen(s), s)
  PROVE  \A j \in SlotIds : Readable(j) => Value(j).stream # s
  <1> DEFINE hits == {i \in SlotIds : ~Readable(i) \/ Value(i).stream = s}
  <1>1. CASE hits = {}
    BY <1>1
  <1>2. CASE hits # {}
    <2>1. hits \in SUBSET Nat
      BY NonceAssumption DEF SlotIds
    <2>2. \E x \in hits : \A y \in hits : x <= y
      BY <1>2, <2>1, Least
    <2>3. Chosen(s) = FirstIn(hits)
      BY <1>2 DEF Chosen
    <2>4. FirstIn(hits) \in hits /\ \A y \in hits : FirstIn(hits) <= y
      BY <1>2, <2>2 DEF FirstIn
    <2>5. PICK i \in SlotIds : i = Chosen(s) /\ ~Readable(i) /\ \A y \in hits : i <= y
      BY <2>3, <2>4 DEF Found
    <2>6. ASSUME NEW j \in SlotIds, Readable(j), Value(j).stream = s
          PROVE  FALSE
      <3>1. i <= j /\ i # j /\ i \in Nat /\ j \in Nat
        BY <2>1, <2>5, <2>6
      <3>2. i < j
        BY <3>1
      <3> QED BY <2>5, <2>6, <3>2 DEF NoHole
    <2> QED BY <2>6
  <1> QED BY <1>1, <1>2

(* A write to one slot keeps streams unique if no other slot holds the       *)
(* stream written.                                                           *)
LEMMA WriteKeepsUnique ==
  ASSUME flash \in [SlotIds -> PairOver(SlotValues)], Unique,
         NEW i \in SlotIds, NEW v \in SlotValues,
         NEW r \in Results(flash[i], v), flash' = [flash EXCEPT ![i] = r.slots],
         \A j \in SlotIds \ {i} : Readable(j) => Value(j).stream # v.stream
  PROVE  Unique'
  <1>1. /\ Value(i)' \in {Value(i), None, v}
        /\ \A j \in SlotIds \ {i} : Value(j)' = Value(j)
    BY WriteFact
  <1> QED BY <1>1 DEF Unique, Readable

\* What reads as before is as unique as before.
LEMMA SameFlashKeepsUnique == ASSUME Unique, flash' = flash PROVE Unique'
  BY DEF Unique, Readable, Value

LEMMA UniqueNext == IInv /\ NoHole /\ Unique /\ [Next]_vars => Unique'
  <1> SUFFICES ASSUME IInv, NoHole, Unique, [Next]_vars PROVE Unique'
    OBVIOUS
  <1>1. flash \in [SlotIds -> PairOver(SlotValues)]
    BY DEF IInv, TypeOK, PairOver
  <1>2. CASE ServeNew
    <2>1. PICK st \in Turn :
             /\ ~Found(Chosen(st.stream), st.stream)
             /\ \E r \in Results(flash[Chosen(st.stream)],
                                 SlotValue(0, st.stream, seeds + 1, last_used + 1, None)) :
                  flash' = [flash EXCEPT ![Chosen(st.stream)] = r.slots]
      BY <1>2 DEF ServeNew
    <2>2. PICK i \in SlotIds : i = Chosen(st.stream)
      BY <1>1, ChosenFact
    <2>3. PICK v \in SlotValues :
             v = SlotValue(0, st.stream, seeds + 1, last_used + 1, None)
             /\ v.stream = st.stream
      <3>1. /\ seeds + 1 \in Nat /\ last_used + 1 \in Nat /\ 0 \in 0..MaxNonce
        BY NonceAssumption DEF IInv, TypeOK
      <3>2. st.stream \in Streams
        BY <1>2, <2>1, TurnType DEF IInv, ServeNew
      <3>3. SlotValue(0, st.stream, seeds + 1, last_used + 1, None) \in SlotValues
        BY <3>1, <3>2 DEF SlotValue, SlotValues
      <3> QED BY <3>3 DEF SlotValue
    <2>4. \A j \in SlotIds : Readable(j) => Value(j).stream # v.stream
      BY <1>1, <2>1, <2>3, ChosenIsAbsent
    <2>5. PICK r \in Results(flash[i], v) : flash' = [flash EXCEPT ![i] = r.slots]
      BY <2>1, <2>2, <2>3
    <2> QED BY <1>1, <2>4, <2>5, WriteKeepsUnique
  <1>3. CASE SignAck
    <2>1. CASE Refuse
      BY <2>1, SameFlashKeepsUnique DEF Refuse
    <2>2. CASE ~Refuse
      <3>1. PICK i \in SlotIds, q \in Requests, old \in SlotValues, v \in SlotValues :
               /\ old = Value(i) /\ v = Signed(old, q)
               /\ \E r \in Results(flash[i], v) : SignWrite(i, q, v, r)
        BY <1>3, <2>2, SignAckCases DEF IInv
      <3>2. v.stream = old.stream
        BY <3>1 DEF Signed, SlotValue
      <3>3. Readable(i)
        BY <3>1, NoneAssumption DEF Readable
      <3>4. \A j \in SlotIds \ {i} : Readable(j) => Value(j).stream # v.stream
        BY <3>1, <3>2, <3>3 DEF Unique
      <3>5. PICK r \in Results(flash[i], v) : flash' = [flash EXCEPT ![i] = r.slots]
        BY <3>1 DEF SignWrite
      <3> QED BY <1>1, <3>4, <3>5, WriteKeepsUnique
    <2> QED BY <2>1, <2>2
  <1>4. CASE ~ServeNew /\ ~SignAck
    <2>1. flash' = flash
      BY <1>4 DEF Next, vars, OpenNonceStreams, ServeExisting, RequestSign, Dismiss, Reboot
    <2> QED BY <2>1, SameFlashKeepsUnique
  <1> QED BY <1>2, <1>3, <1>4

(* While no slot before a used one is unreadable, no step stores a stream    *)
(* twice, so get always finds the one slot of a stream.                      *)
THEOREM StreamsNeverDouble == Spec => StreamsStayUnique
  <1>1. IInv /\ [Next]_vars => [NoHole /\ Unique => Unique']_vars
    BY UniqueNext
  <1> QED BY <1>1, SpecInv, PTL DEF Spec, StreamsStayUnique

-------------------------------------------------------------------------------
(* A step that emits nothing and leaves each slot reading as before or as    *)
(* nothing turns the pages of the book, whatever seeds it draws.             *)
LEMMA ForgettingTurns ==
  ASSUME TypeOK, seeds' \in Nat, seeds' >= seeds, emitted' = emitted,
         \A i \in SlotIds : Value(i)' \in {Value(i), None}
  PROVE  Book!Turn
  <1>1. Pages' \subseteq Pages
    BY DEF Pages, Readable
  <1>2. 1..seeds \subseteq (1..seeds)'
    BY DEF TypeOK
  <1> QED BY <1>1, <1>2 DEF Book!Turn

\* Steps that touch neither flash nor what was emitted leave the book as it is.
LEMMA SameFlashSamePages == ASSUME flash' = flash PROVE Pages' = Pages
  BY DEF Pages, Readable, Value

\* A fresh slot is a new page, at its start and with a seed of its own.
LEMMA InitialisingTurns ==
  ASSUME IInv, NEW i \in SlotIds, NEW v \in SlotValues,
         v.seed = seeds + 1, v.index = 0, v.signing = None,
         Value(i)' = v, \A j \in SlotIds \ {i} : Value(j)' = Value(j),
         seeds' = seeds + 1, emitted' = emitted
  PROVE  Book!Turn
  <1>1. seeds \in Nat
    BY DEF IInv, TypeOK
  <1>2. /\ 1..seeds \subseteq (1..seeds)'
        /\ v.seed \in (1..seeds)' \ (1..seeds)
    BY <1>1
  <1>3. \A q \in Pages' : q = Page(v) \/ (q \in Pages /\ q.seed <= seeds)
    <2> SUFFICES ASSUME NEW j \in SlotIds, j # i, Value(j)' # None
                 PROVE  Page(Value(j)) \in Pages /\ Value(j).seed <= seeds
      BY DEF Pages, Readable, Page
    <2>1. Readable(j)
      BY DEF Readable
    <2> QED BY <2>1 DEF Pages, IInv, SeedsWereDrawn
  <1>4. Page(v).seed = v.seed /\ Page(v).index = 0 /\ Page(v).signing = None
    BY DEF Page
  <1>5. ASSUME NEW p \in Pages', p \notin Pages
        PROVE  /\ p.seed \in (1..seeds)' \ (1..seeds) /\ p.index = 0 /\ p.signing = None
               /\ \A q \in Pages' : q.seed = p.seed => q = p
    <2>1. p = Page(v)
      BY <1>3, <1>5
    <2>2. \A q \in Pages' : q.seed = v.seed => q = Page(v)
      BY <1>1, <1>3
    <2> QED BY <1>2, <1>4, <2>1, <2>2
  <1> QED BY <1>2, <1>5 DEF Book!Turn

\* The shares of a page are those of the value it stands for.
LEMMA SharesOfPage ==
  ASSUME NEW v \in SlotValues,
         v.signing \in [session : Sessions, first : 0..MaxNonce]
  PROVE  Book!Shares(Page(v)) =
           {[session |-> v.signing.session, nonce |-> n] : n \in Used(v)}
  <1>1. v.index \in Int /\ v.signing.first \in Int
    BY NonceAssumption DEF SlotValues
  <1>2. v.signing.first..(v.index - 1)
          = v.signing.first..(v.signing.first + (v.index - v.signing.first) - 1)
    BY <1>1
  <1>3. Book!LastUsed(Page(v)) = Used(v)
    BY <1>2 DEF Book!LastUsed, Page, Used, Nonces
  <1>4. Page(v).signing = v.signing
    BY DEF Page
  <1> QED BY <1>3, <1>4 DEF Book!Shares

\* A page that is signed gives way to the page past the nonces it used.
LEMMA SigningSigns ==
  ASSUME IInv, NEW i \in SlotIds, NEW q \in Requests,
         NEW old \in SlotValues, NEW v \in SlotValues,
         old = Value(i), v = Signed(old, q), ~Cached(old, q), Signable(old, q),
         Value(i)' = v, \A j \in SlotIds \ {i} : Value(j)' = Value(j),
         seeds' = seeds,
         \/ emitted' = emitted
         \/ emitted' = emitted \cup
               {[session |-> q.session, nonce |-> n] : n \in Used(v)}
  PROVE  Book!Sign
  <1>1. TypeOK /\ SeedsAreDistinct
    BY DEF IInv
  <1>2. /\ v.seed = old.seed /\ v.stream = old.stream
        /\ v.signing \in [session : Sessions, first : 0..MaxNonce]
        /\ v.signing.session = q.session
        /\ v.signing.first >= old.index /\ v.index > v.signing.first
    <2>1. /\ Signed(old, q).seed = old.seed
          /\ Signed(old, q).signing \in [session : Sessions, first : 0..MaxNonce]
          /\ Signed(old, q).signing.session = q.session
          /\ Signed(old, q).signing = [session |-> q.session, first |-> q.nonces.index]
          /\ q.nonces.index >= old.index
          /\ Signed(old, q).index > q.nonces.index
          /\ Signed(old, q).stream = old.stream
      BY <1>1, SignedFact
    <2> QED BY <2>1
  <1>3. /\ old.index \in Int /\ v.index \in Int /\ v.signing.first \in Int
        /\ v.signing # None
    <2>1. v.signing # None
      BY <1>2, NoneAssumption
    <2>2. old.index \in 0..MaxNonce /\ v.index \in 0..MaxNonce
          /\ v.signing.first \in 0..MaxNonce
      BY <1>2 DEF SlotValues
    <2> QED BY <2>1, <2>2, NonceAssumption
  <1>4. Book!Signed(Page(old), Page(v))
    <2>1. v.index \in Nat /\ v.signing.first \in old.index..(v.index - 1)
      BY <1>2, <1>3, NonceAssumption DEF SlotValues
    <2> QED BY <1>2, <1>3, <2>1 DEF Book!Signed, Page
  <1>5. Readable(i) /\ Readable(i)'
    BY NoneAssumption DEF Readable
  <1>6. Page(old) \in Pages /\ Page(v) \in Pages'
    BY <1>5 DEF Pages
  <1>7. Pages' = (Pages \ {Page(old)}) \cup {Page(v)}
    <2>1. \A j \in SlotIds \ {i} :
             /\ Readable(j)' = Readable(j) /\ Value(j)' = Value(j)
             /\ Readable(j) => Page(Value(j)) # Page(old)
      BY <1>1, <1>5 DEF SeedsAreDistinct, Readable, Page
    <2>2. Pages = {Page(Value(j)) : j \in {k \in SlotIds \ {i} : Readable(k)}} \cup {Page(old)}
      BY <1>5 DEF Pages
    <2>3. Pages' = {Page(Value(j)) : j \in {k \in SlotIds \ {i} : Readable(k)}} \cup {Page(v)}
      BY <1>5, <2>1 DEF Pages
    <2>4. Page(old) \notin {Page(Value(j)) : j \in {k \in SlotIds \ {i} : Readable(k)}}
      BY <2>1
    <2> QED BY <2>2, <2>3, <2>4
  <1>8. emitted' \in {emitted, emitted \cup Book!Shares(Page(v))}
    BY <1>2, SharesOfPage
  <1>9. (1..seeds)' = 1..seeds
    OBVIOUS
  <1> QED BY <1>4, <1>6, <1>7, <1>8, <1>9 DEF Book!Sign

\* What sign_ack does to the book.
LEMMA SignAckBooks ==
  ASSUME IInv, SignAck
  PROVE  \/ Book!Next
         \/ UNCHANGED <<1..seeds, Pages, emitted>>
  <1>1. seeds' = seeds /\ seeds \in Nat /\ TypeOK
    BY SignAckCases DEF IInv, TypeOK
  <1>2. CASE Refuse
    BY <1>1, <1>2, SameFlashSamePages DEF Refuse
  <1>3. ASSUME NEW i \in SlotIds, NEW q \in Requests,
               NEW old \in SlotValues, NEW v \in SlotValues,
               old = Value(i), v = Signed(old, q), Cached(old, q) \/ Signable(old, q),
               NEW r \in Results(flash[i], v), SignWrite(i, q, v, r)
        PROVE  Book!Next
    <2>1. /\ Value(i)' = AbRead(r.slots)
          /\ Value(i)' \in {old, None, v}
          /\ \A j \in SlotIds \ {i} : Value(j)' = Value(j)
      BY <1>1, <1>3, WriteFact DEF TypeOK, PairOver, SignWrite
    <2> DEFINE made == {[session |-> q.session, nonce |-> n] : n \in Used(v)}
    <2>2. \/ emitted' = emitted
          \/ Value(i)' = v /\ emitted' = emitted \cup made
      BY <1>3, <2>1 DEF SignWrite, Destroyed
    <2> HIDE DEF made
    <2>3. CASE emitted' = emitted /\ Value(i)' \in {old, None}
      <3>1. \A j \in SlotIds : Value(j)' \in {Value(j), None}
        BY <1>3, <2>1, <2>3
      <3> QED BY <1>1, <2>3, <3>1, ForgettingTurns DEF Book!Next
    <2>4. CASE Value(i)' = v /\ ~Cached(old, q)
      <3>1. Signable(old, q)
        BY <1>3, <2>4
      <3> QED BY <1>1, <1>3, <2>1, <2>2, <2>4, <3>1, SigningSigns DEF made, Book!Next
    <2>5. CASE Value(i)' = v /\ Cached(old, q) /\ emitted' = emitted \cup made
      <3>1. v = old /\ old.signing # None /\ old.signing.session = q.session
        BY <1>3, <2>5 DEF Signed, Cached
      <3>2. old.signing \in [session : Sessions, first : 0..MaxNonce]
        BY <3>1 DEF SlotValues
      <3>3. made = Book!Shares(Page(old))
        BY <3>1, <3>2, SharesOfPage DEF made
      <3>4. \A j \in SlotIds : Value(j)' = Value(j)
        BY <1>3, <2>1, <2>5, <3>1
      <3>5. Pages' = Pages
        BY <3>4 DEF Pages, Readable
      <3>6. Page(old) \in Pages /\ Page(old).signing # None
        BY <1>3, <3>1, NoneAssumption DEF Pages, Readable, Page
      <3> QED BY <1>1, <2>5, <3>3, <3>5, <3>6 DEF Book!Release, Book!Next
    <2>6. CASE Value(i)' = v /\ Cached(old, q) /\ emitted' = emitted
      <3>1. v = old
        BY <1>3, <2>6 DEF Signed
      <3> QED BY <2>3, <2>6, <3>1
    <2> QED BY <2>1, <2>2, <2>3, <2>4, <2>5, <2>6
  <1> QED BY <1>2, <1>3, SignAckCases, <1>1

\* What each step does to the book.
LEMMA StepBooks ==
  ASSUME IInv, [Next]_vars
  PROVE  [Book!Next]_<<1..seeds, Pages, emitted>>
  <1>1. TypeOK /\ seeds \in Nat /\ flash \in [SlotIds -> PairOver(SlotValues)]
    BY DEF IInv, TypeOK, PairOver
  <1>2. CASE ServeNew
    <2>1. PICK i \in SlotIds, v \in SlotValues :
             /\ v.seed = seeds + 1 /\ v.signing = None /\ v.index = 0
             /\ seeds' = seeds + 1 /\ emitted' = emitted
             /\ \E r \in Results(flash[i], v) : flash' = [flash EXCEPT ![i] = r.slots]
      BY <1>1, <1>2, ServeNewCases DEF ServeWrite
    <2>2. /\ Value(i)' \in {Value(i), None, v}
          /\ \A j \in SlotIds \ {i} : Value(j)' = Value(j)
      <3>1. PICK r \in Results(flash[i], v) : flash' = [flash EXCEPT ![i] = r.slots]
        BY <2>1
      <3> QED BY <1>1, <3>1, WriteFact
    <2>3. CASE Value(i)' = v
      BY <2>1, <2>2, <2>3, InitialisingTurns DEF Book!Next
    <2>4. CASE Value(i)' \in {Value(i), None}
      <3>1. \A j \in SlotIds : Value(j)' \in {Value(j), None}
        BY <2>2, <2>4
      <3>2. seeds' \in Nat /\ seeds' >= seeds
        BY <1>1, <2>1
      <3> QED BY <1>1, <2>1, <3>1, <3>2, ForgettingTurns DEF Book!Next
    <2> QED BY <2>2, <2>3, <2>4
  <1>3. CASE SignAck
    BY <1>3, SignAckBooks
  <1>4. CASE ~ServeNew /\ ~SignAck
    <2>1. flash' = flash /\ emitted' = emitted /\ seeds' = seeds
      BY <1>4 DEF Next, vars, OpenNonceStreams, ServeExisting, RequestSign, Dismiss, Reboot
    <2> QED BY <2>1, SameFlashSamePages
  <1> QED BY <1>2, <1>3, <1>4

(* The device keeps the book: a page that was given up never comes back, a   *)
(* signed page never steps back, and shares leave only from a page standing  *)
(* behind them, for the session it was signed for, whatever the flash does.  *)
THEOREM SlotsKeepTheBook == Spec => NoncesAreBooked
  <1>1. Init => Book!Init
    <2> SUFFICES ASSUME Init PROVE Book!Init
      OBVIOUS
    <2>1. AbRead(Blank) = None
      BY DEF Blank, Erased, AbRead, SlotRead, Current, Copies
    <2>2. \A i \in SlotIds : ~Readable(i)
      BY <2>1 DEF Init, Readable, Value
    <2>3. Pages = {} /\ 1..seeds = {}
      BY <2>2 DEF Init, Pages
    <2> QED BY <2>3 DEF Init, Book!Init
  <1>2. IInv /\ [Next]_vars => [Book!Next]_<<1..seeds, Pages, emitted>>
    BY StepBooks
  <1> QED BY <1>1, <1>2, SpecInv, PTL DEF Spec, NoncesAreBooked, Book!Spec

-------------------------------------------------------------------------------
\* The book alone: one page to a seed, and what was spent is behind its page.
BookInv ==
  /\ \A p \in Pages : /\ p.seed \in 1..seeds /\ p.index \in Nat
                      /\ p.signing # None => p.signing.first \in Int
  /\ \A p, q \in Pages : p.seed = q.seed => p = q
  /\ \A e \in emitted : e.nonce.seed \in 1..seeds /\ e.nonce.index \in Int
  /\ \A e \in emitted, p \in Pages :
       e.nonce.seed = p.seed =>
         /\ e.nonce.index < p.index
         /\ p.signing # None /\ e.nonce.index >= p.signing.first =>
              e.session = p.signing.session
  /\ NoNonceReuse

LEMMA SharesAre ==
  ASSUME NEW p, p.index \in Nat, p.signing.first \in Int, NEW e \in Book!Shares(p)
  PROVE  /\ e.session = p.signing.session /\ e.nonce.seed = p.seed
         /\ e.nonce.index \in Int /\ e.nonce.index < p.index
         /\ e.nonce.index >= p.signing.first
  BY DEF Book!Shares, Book!LastUsed

LEMMA TurnKeepsBook == ASSUME BookInv, Book!Turn PROVE BookInv'
  <1>1. /\ emitted' = emitted /\ 1..seeds \subseteq (1..seeds)'
        /\ \A p \in Pages' \ Pages :
             /\ p.seed \in (1..seeds)' \ (1..seeds) /\ p.index = 0 /\ p.signing = None
             /\ \A q \in Pages' : q.seed = p.seed => q = p
    BY DEF Book!Turn
  <1> QED BY <1>1 DEF BookInv, NoNonceReuse

LEMMA SignKeepsBook == ASSUME BookInv, Book!Sign PROVE BookInv'
  <1>1. PICK p \in Pages, q \in Pages' :
           /\ Book!Signed(p, q) /\ Pages' = (Pages \ {p}) \cup {q}
           /\ emitted' \in {emitted, emitted \cup Book!Shares(q)}
    BY DEF Book!Sign
  <1>2. (1..seeds)' = 1..seeds
    BY DEF Book!Sign
  <1>3. /\ p.seed \in 1..seeds /\ p.index \in Nat
        /\ q.seed = p.seed /\ q.signing # None /\ q.index \in Nat
        /\ q.signing.first \in Int
        /\ p.index <= q.signing.first /\ q.signing.first < q.index
    BY <1>1 DEF BookInv, Book!Signed
  <1>4. \A r \in Pages' : r = q \/ (r \in Pages /\ r.seed # q.seed)
    BY <1>1, <1>3 DEF BookInv
  <1>5. \A e \in emitted' :
           \/ e \in emitted
           \/ /\ e.session = q.signing.session /\ e.nonce.seed = q.seed
              /\ e.nonce.index \in Int /\ e.nonce.index < q.index
              /\ e.nonce.index >= q.signing.first
    BY <1>1, <1>3, SharesAre
  <1>6. ASSUME NEW e \in emitted, e.nonce.seed = q.seed
        PROVE  e.nonce.index < q.signing.first
    <2>1. e.nonce.seed = p.seed
      BY <1>3, <1>6
    <2>2. e.nonce.index < p.index /\ e.nonce.index \in Int
      BY <2>1 DEF BookInv
    <2> QED BY ONLY <1>3, <2>2
  <1>7. NoNonceReuse'
    <2> SUFFICES ASSUME NEW e \in emitted', NEW f \in emitted', e.nonce = f.nonce
                 PROVE  e.session = f.session
      BY DEF NoNonceReuse
    <2>1. \A x \in emitted :
            ~(x.nonce.seed = q.seed /\ x.nonce.index >= q.signing.first)
      <3> SUFFICES ASSUME NEW x \in emitted, x.nonce.seed = q.seed
                   PROVE  ~(x.nonce.index >= q.signing.first)
        OBVIOUS
      <3>1. x.nonce.index < q.signing.first
        BY ONLY <1>6, x \in emitted, x.nonce.seed = q.seed
      <3>2. x.nonce.index \in Int /\ q.signing.first \in Int
        BY <1>3 DEF BookInv
      <3> QED BY ONLY <3>1, <3>2
    <2>2. CASE e \in emitted /\ f \in emitted
      BY <2>2 DEF BookInv, NoNonceReuse
    <2>3. CASE e \notin emitted
      BY ONLY <1>5, <2>1, <2>3, e \in emitted', f \in emitted', e.nonce = f.nonce
    <2>4. CASE f \notin emitted
      BY ONLY <1>5, <2>1, <2>4, e \in emitted', f \in emitted', e.nonce = f.nonce
    <2> QED BY ONLY <2>2, <2>3, <2>4
  <1>8. \A e \in emitted' : e.nonce.seed \in 1..seeds /\ e.nonce.index \in Int
    BY <1>3, <1>5 DEF BookInv
  <1>9. \A e \in emitted', r \in Pages' :
          e.nonce.seed = r.seed =>
            /\ e.nonce.index < r.index
            /\ r.signing # None /\ e.nonce.index >= r.signing.first =>
                 e.session = r.signing.session
    <2> SUFFICES ASSUME NEW e \in emitted', NEW r \in Pages', e.nonce.seed = r.seed
                 PROVE  /\ e.nonce.index < r.index
                        /\ r.signing # None /\ e.nonce.index >= r.signing.first =>
                             e.session = r.signing.session
      OBVIOUS
    <2>1. CASE r = q /\ e \in emitted
      <3>1. e.nonce.index < q.signing.first /\ e.nonce.index \in Int
        BY <1>6, <1>8, <2>1
      <3> QED BY ONLY <1>3, <2>1, <3>1
    <2>2. CASE r = q /\ e \notin emitted
      BY ONLY <1>5, <2>2, e \in emitted'
    <2>3. CASE r # q
      <3>1. r \in Pages /\ r.seed # q.seed
        BY <1>4, <2>3
      <3>2. e \in emitted
        BY <1>5, <3>1
      <3> QED BY <3>1, <3>2 DEF BookInv
    <2> QED BY <2>1, <2>2, <2>3
  <1>10. \A r \in Pages' : /\ r.seed \in 1..seeds /\ r.index \in Nat
                           /\ r.signing # None => r.signing.first \in Int
    BY <1>3, <1>4 DEF BookInv
  <1>11. \A r, t \in Pages' : r.seed = t.seed => r = t
    BY <1>4 DEF BookInv
  <1> QED BY <1>2, <1>7, <1>8, <1>9, <1>10, <1>11 DEF BookInv

LEMMA ReleaseKeepsBook == ASSUME BookInv, Book!Release PROVE BookInv'
  <1>1. PICK p \in Pages : p.signing # None /\ emitted' = emitted \cup Book!Shares(p)
    BY DEF Book!Release
  <1>2. (1..seeds)' = 1..seeds /\ Pages' = Pages
    BY DEF Book!Release
  <1>3. p.seed \in 1..seeds /\ p.index \in Nat /\ p.signing.first \in Int
    BY <1>1 DEF BookInv
  <1>4. \A e \in emitted' :
           \/ e \in emitted
           \/ /\ e.session = p.signing.session /\ e.nonce.seed = p.seed
              /\ e.nonce.index \in Int /\ e.nonce.index < p.index
              /\ e.nonce.index >= p.signing.first
    BY <1>1, <1>3, SharesAre
  <1>5. NoNonceReuse'
    BY <1>1, <1>4 DEF BookInv, NoNonceReuse
  <1>6. \A e \in emitted' : e.nonce.seed \in 1..seeds /\ e.nonce.index \in Int
    BY <1>3, <1>4 DEF BookInv
  <1>7. \A e \in emitted', r \in Pages :
          e.nonce.seed = r.seed =>
            /\ e.nonce.index < r.index
            /\ r.signing # None /\ e.nonce.index >= r.signing.first =>
                 e.session = r.signing.session
    BY <1>4 DEF BookInv
  <1> QED BY <1>2, <1>5, <1>6, <1>7 DEF BookInv

(* What the book is for: whoever keeps it signs no two sessions with one     *)
(* nonce, whatever else it does (nonces, seeds and sessions of any kind).    *)
THEOREM BooksForbidReuse == NoncesAreBooked => []NoNonceReuse
  <1>1. Book!Init => BookInv
    BY DEF Book!Init, BookInv, NoNonceReuse
  <1>2. BookInv /\ [Book!Next]_<<1..seeds, Pages, emitted>> => BookInv'
    <2> SUFFICES ASSUME BookInv, [Book!Next]_<<1..seeds, Pages, emitted>> PROVE BookInv'
      OBVIOUS
    <2>1. CASE UNCHANGED <<1..seeds, Pages, emitted>>
      BY <2>1 DEF BookInv, NoNonceReuse
    <2> QED BY <2>1, TurnKeepsBook, SignKeepsBook, ReleaseKeepsBook DEF Book!Next
  <1>3. BookInv => NoNonceReuse
    BY DEF BookInv
  <1> QED BY <1>1, <1>2, <1>3, PTL DEF NoncesAreBooked, Book!Spec
===============================================================================
