---------------------------- MODULE SigningProofs ----------------------------
(* No nonce of a device signs for two sessions, whatever its coordinator and *)
(* other hosts ask and however much the link loses; sessions under way never *)
(* draw on one stream; a finished session was signed by all its parties. On  *)
(* one host, the cache follows the slots and lost shares are sent again.     *)
EXTENDS Signing, FiniteSetTheorems, SequenceTheorems, WellFoundedInduction, TLAPS

Sized(g) == g.index \in Nat /\ g.next \in Nat /\ g.index <= g.next

Started == {s \in Sessions : status[s] # "new"}
Use(s, g) == [session |-> s, nonces |-> g]

-------------------------------------------------------------------------------
\* The coordinator's books: what a session was given stays as it was.
CoordTypes ==
  /\ cache = [d \in Devices |-> [t \in Streams |-> cache[d][t]]]
  /\ \A d \in Devices, t \in Streams : cache[d][t] = None \/ Sized(cache[d][t])
  /\ status \in [Sessions -> {"new", "active", "finished", "cancelled"}]
  /\ assigned = [s \in Sessions |-> assigned[s]]
  /\ sent \in [Sessions -> SUBSET Devices] /\ shares \in [Sessions -> SUBSET Devices]
  /\ \A s \in Sessions : sent[s] \subseteq Parties[s]

AssignedTypes ==
  \A s \in Started : \A d \in Parties[s] :
    assigned[s][d].stream \in Streams /\ Sized(assigned[s][d].nonces)

\* The stream of a session under way has an entry in the cache.
AssignedAreKnown ==
  \A s \in Active : \A d \in Parties[s] : Sized(cache[d][assigned[s][d].stream])

\* What has arrived was signed, over the nonces of the session.
SharesAreSigned ==
  \A s \in Sessions :
    /\ status[s] = "new" => shares[s] = {}
    /\ status[s] = "finished" => shares[s] = Parties[s]
    /\ \A d \in shares[s] : Use(s, assigned[s][d].nonces) \in signed[d]

CoordInv == /\ CoordTypes /\ AssignedTypes /\ AssignedAreKnown
            /\ ActiveNoncesAreDisjoint /\ SharesAreSigned

\* A device: every slot has a seed of its own, and every nonce that has signed
\* is behind the slot of its seed, if there still is one.
DeviceTypes ==
  /\ slots = [d \in Devices |-> [t \in Streams |-> slots[d][t]]]
  /\ seeds \in [Devices -> Nat]
  /\ parked = [d \in Devices |-> parked[d]]
  /\ signed = [d \in Devices |-> signed[d]]
  /\ \A d \in Devices :
       /\ parked[d] # None => parked[d] \in Started /\ d \in Parties[parked[d]]
       /\ \A t \in Streams : slots[d][t] # None =>
            slots[d][t] \in [index : Nat, seed : 1..seeds[d], session : {None} \cup Started]
       /\ \A e \in signed[d] : e = Use(e.session, e.nonces) /\ e.session \in Sessions

SeedsAreDistinct ==
  \A d \in Devices : \A t, u \in Streams :
    slots[d][t] # None /\ slots[d][u] # None /\ slots[d][t].seed = slots[d][u].seed => t = u

SpentIsBehind ==
  \A d \in Devices : \A e \in signed[d] : \A k \in e.nonces.index..(e.nonces.next - 1) :
    /\ e.nonces.nonces[k] \in 1..seeds[d]
    /\ \A t \in Streams : slots[d][t] # None /\ slots[d][t].seed = e.nonces.nonces[k] =>
         k < slots[d][t].index

\* The shares a slot caches were given out over the nonces of their session.
CachedIsSigned ==
  \A d \in Devices : \A s \in Started : d \in Parties[s] =>
    LET g == assigned[s][d].nonces
        v == slots[d][assigned[s][d].stream]
    IN v # None /\ v.session = s => Use(s, Segment(g.index, g.next, v.seed)) \in signed[d]

DeviceInv == DeviceTypes /\ SeedsAreDistinct /\ SpentIsBehind /\ CachedIsSigned /\ NoNonceReuse

\* What can be on the wire.
Claims == UNION {[T -> [index : Nat, remaining : Nat]] : T \in SUBSET Streams}
Runs == {g \in {Segment(i, n, seed) : i \in Nat, n \in Nat, seed \in Nat} : Sized(g)}
Batches == UNION {[T -> Runs] : T \in SUBSET Streams}

Requests(d) ==
  [type : {"open"}, claims : Claims]
    \cup [type : {"sign"}, session : {s \in Started : d \in Parties[s]}]

Answers(d) ==
  [type : {"nonces"}, segments : Batches]
    \cup {[type |-> "share", session |-> e.session, stream |-> t, nonces |-> e.nonces,
           replenish |-> g] : e \in signed[d], t \in Streams, g \in Runs}

WireInv ==
  /\ toDevice = [d \in Devices |-> toDevice[d]]
  /\ toCoord = [d \in Devices |-> toCoord[d]]
  /\ \A d \in Devices : toDevice[d] \in Seq(Requests(d)) /\ toCoord[d] \in Seq(Answers(d))

IInv == CoordInv /\ DeviceInv /\ WireInv

-------------------------------------------------------------------------------
\* A nonempty set of streams has a first one.
LEMMA FirstFact ==
  ASSUME NEW ts \in SUBSET Streams, ts # {}
  PROVE  First(ts) \in ts
<1>1. ts \in SUBSET Nat
  BY SigningAssumption
<1>2. PICK x \in ts : \A y \in ts : <<y, x>> \notin OpToRel(<, Nat)
  BY <1>1, NatLessThanWellFounded, WFMin
<1>3. \A y \in ts : ~(y < x)
  BY <1>1, <1>2 DEF OpToRel
<1>4. \A y \in ts : x <= y
  BY <1>1, <1>3
<1> QED
  BY <1>4 DEF First

\* Operations on segments keep their ends in order.
LEMMA SegmentFacts ==
  ASSUME NEW g, Sized(g)
  PROVE  /\ \A n \in Nat : Sized(Slice(g, g.index, g.index + n))
         /\ \A upTo \in Nat : Sized(DeleteUpTo(g, upTo))
         /\ \A h : Sized(h) => Sized(Extend(g, h))
  BY DEF Sized, Slice, DeleteUpTo, Extend, Greater, Lesser

LEMMA RunFacts ==
  /\ \A i, n, seed \in Nat : i <= n => Segment(i, n, seed) \in Runs
  /\ \A g \in Runs : Sized(g)
<1>1. ASSUME NEW i \in Nat, NEW n \in Nat, NEW seed \in Nat, i <= n
      PROVE  Segment(i, n, seed) \in Runs
  <2>1. Sized(Segment(i, n, seed))
    BY <1>1 DEF Sized, Segment
  <2> QED
    BY <2>1 DEF Runs
<1> QED
  BY <1>1 DEF Runs

LEMMA ExtendedFacts ==
  ASSUME NEW c, c = [t \in Streams |-> c[t]],
         \A t \in Streams : c[t] = None \/ Sized(c[t]),
         NEW u \in Streams, NEW g, Sized(g)
  PROVE  /\ Extended(c, u, g) = [t \in Streams |-> Extended(c, u, g)[t]]
         /\ Sized(Extended(c, u, g)[u])
         /\ \A t \in Streams \ {u} : Extended(c, u, g)[t] = c[t]
<1>1. Sized(NoNonces)
  BY DEF Sized, NoNonces
<1>2. Sized(Extend(IF c[u] = None THEN NoNonces ELSE c[u], g))
  BY <1>1, SegmentFacts
<1> QED
  BY <1>2 DEF Extended

-------------------------------------------------------------------------------
LEMMA InitInv == Init => IInv
<1> SUFFICES ASSUME Init PROVE IInv
  OBVIOUS
<1> USE SigningAssumption DEF Init
<1>1. CoordTypes /\ AssignedTypes /\ AssignedAreKnown /\ SharesAreSigned
  BY DEF CoordTypes, AssignedTypes, AssignedAreKnown, SharesAreSigned, Started, Active
<1>2. ActiveNoncesAreDisjoint
  BY DEF ActiveNoncesAreDisjoint, Active
<1>3. DeviceInv
  BY DEF DeviceInv, DeviceTypes, SeedsAreDistinct, SpentIsBehind, CachedIsSigned, Started,
         NoNonceReuse
<1>4. WireInv
  BY DEF WireInv
<1> QED
  BY <1>1, <1>2, <1>3, <1>4 DEF IInv, CoordInv

\* A device keeps what it knows of sessions when others are started.
LEMMA DeviceKept ==
  ASSUME DeviceInv, UNCHANGED deviceVars, Started \subseteq Started', AssignedTypes',
         \A s \in Started : assigned'[s] = assigned[s]
  PROVE  DeviceInv'
<1> USE SigningAssumption DEF DeviceInv, deviceVars
<1>1. DeviceTypes'
  BY DEF DeviceTypes
<1>2. SeedsAreDistinct' /\ SpentIsBehind' /\ NoNonceReuse'
  BY DEF SeedsAreDistinct, SpentIsBehind, NoNonceReuse
<1>3. CachedIsSigned'
  <2> SUFFICES ASSUME NEW d \in Devices, NEW s \in Started', d \in Parties[s],
                      slots[d][assigned'[s][d].stream] # None,
                      slots[d][assigned'[s][d].stream].session = s
               PROVE  Use(s, Segment(assigned'[s][d].nonces.index, assigned'[s][d].nonces.next,
                          slots[d][assigned'[s][d].stream].seed)) \in signed[d]
    BY DEF CachedIsSigned, Use
  <2>1. assigned'[s][d].stream \in Streams /\ s \in Sessions
    BY DEF AssignedTypes, Started
  <2>2. s \in Started
    BY <2>1 DEF DeviceTypes
  <2> QED
    BY <2>2 DEF CachedIsSigned
<1> QED
  BY <1>1, <1>2, <1>3

\* What is on a wire may stay there when sessions start and devices sign.
LEMMA WireGrows ==
  ASSUME NEW d \in Devices, Started \subseteq Started', signed[d] \subseteq signed'[d],
         NEW asked \in Seq(Requests(d)), NEW said \in Seq(Answers(d))
  PROVE  asked \in Seq(Requests(d)') /\ said \in Seq(Answers(d)')
<1>1. Requests(d) \subseteq Requests(d)'
  BY DEF Requests
<1>2. Answers(d) \subseteq Answers(d)'
  BY DEF Answers
<1> QED
  BY <1>1, <1>2, SeqMonotonic

\* One more message, or one less.
LEMMA QueueFacts ==
  ASSUME NEW S, NEW q \in Seq(S)
  PROVE  /\ \A m \in S : Append(q, m) \in Seq(S)
         /\ q # <<>> => Head(q) \in S /\ Tail(q) \in Seq(S)
         /\ <<>> \in Seq(S)
  OBVIOUS

\* The channels of all devices, when only those of d change.
LEMMA WireKept ==
  ASSUME WireInv, Started \subseteq Started', \A d \in Devices : signed[d] \subseteq signed'[d],
         NEW e \in Devices, NEW asked, NEW said,
         toDevice' = [toDevice EXCEPT ![e] = asked], asked \in Seq(Requests(e)'),
         toCoord' = [toCoord EXCEPT ![e] = said], said \in Seq(Answers(e)')
  PROVE  WireInv'
<1> SUFFICES ASSUME NEW d \in Devices
             PROVE  toDevice'[d] \in Seq(Requests(d)') /\ toCoord'[d] \in Seq(Answers(d)')
  BY DEF WireInv
<1>1. CASE d = e
  BY <1>1 DEF WireInv
<1>2. CASE d # e
  BY <1>2, WireGrows DEF WireInv
<1> QED
  BY <1>1, <1>2

LEMMA WireSame ==
  ASSUME WireInv, Started \subseteq Started', \A d \in Devices : signed[d] \subseteq signed'[d],
         UNCHANGED <<toDevice, toCoord>>
  PROVE  WireInv'
  BY WireGrows DEF WireInv

\* The books as they are, while devices sign.
LEMMA BooksKept ==
  ASSUME CoordInv, UNCHANGED <<cache, status, assigned, sent, shares>>,
         \A d \in Devices : signed[d] \subseteq signed'[d]
  PROVE  CoordInv' /\ Started' = Started
<1> USE DEF CoordInv
<1>1. Started' = Started /\ Active' = Active
  BY DEF Started, Active
<1>2. CoordTypes' /\ AssignedTypes'
  BY <1>1 DEF CoordTypes, AssignedTypes
<1>4. AssignedAreKnown' /\ ActiveNoncesAreDisjoint'
  BY <1>1 DEF AssignedAreKnown, ActiveNoncesAreDisjoint
<1>3. SharesAreSigned'
  BY DEF SharesAreSigned, CoordTypes
<1> QED
  BY <1>1, <1>2, <1>3, <1>4

-------------------------------------------------------------------------------
(* The coordinator.                                                          *)

LEMMA OpenStreamsKeeps ==
  ASSUME IInv, NEW d \in Devices, OpenStreams(d)
  PROVE  IInv'
<1> USE DEF IInv
<1>1. UNCHANGED <<cache, status, assigned, sent, shares, deviceVars, toCoord>>
  BY DEF OpenStreams
<1>2. CoordInv' /\ Started' = Started
  BY <1>1, BooksKept DEF deviceVars
<1>3. DeviceInv'
  BY <1>1, <1>2, DeviceKept DEF CoordInv
<1>4. PICK new \in SUBSET (Streams \ drawn[d]) : toDevice' = [toDevice EXCEPT ![d] =
        Append(@, [type |-> "open", claims |-> [t \in Known(d) \cup new |->
          IF t \in new THEN [index |-> 0, remaining |-> 0]
          ELSE [index |-> cache[d][t].index, remaining |-> Size(cache[d][t])]]])]
  BY DEF OpenStreams
<1> DEFINE claims == [t \in Known(d) \cup new |->
              IF t \in new THEN [index |-> 0, remaining |-> 0]
              ELSE [index |-> cache[d][t].index, remaining |-> Size(cache[d][t])]]
           m == [type |-> "open", claims |-> claims]
<1>5. claims \in Claims
  <2>1. \A t \in Known(d) : cache[d][t].index \in Nat /\ Size(cache[d][t]) \in Nat
    BY DEF Known, CoordInv, CoordTypes, Sized, Size
  <2>2. Known(d) \cup new \in SUBSET Streams
    BY DEF Known
  <2>3. claims \in [Known(d) \cup new -> [index : Nat, remaining : Nat]]
    BY <2>1
  <2> HIDE DEF claims
  <2> QED
    BY <2>2, <2>3 DEF Claims
<1>6. m \in Requests(d)
  BY <1>5 DEF Requests
<1> HIDE DEF m
<1>7. Append(toDevice[d], m) \in Seq(Requests(d))
  BY <1>6, QueueFacts DEF WireInv
<1>8. /\ toDevice' = [toDevice EXCEPT ![d] = Append(toDevice[d], m)]
      /\ toCoord' = [toCoord EXCEPT ![d] = toCoord[d]]
  BY <1>1, <1>4 DEF WireInv, m
<1>9. toCoord[d] \in Seq(Answers(d)) /\ \A e \in Devices : signed[e] \subseteq signed'[e]
  BY <1>1 DEF WireInv, deviceVars
<1>10. WireInv'
  <2>1. Append(toDevice[d], m) \in Seq(Requests(d)') /\ toCoord[d] \in Seq(Answers(d)')
    BY <1>2, <1>7, <1>9, WireGrows
  <2> QED
    BY <1>2, <1>8, <1>9, <2>1, WireKept
<1> QED
  BY <1>2, <1>3, <1>10

LEMMA StartSignKeeps ==
  ASSUME IInv, NEW s \in Sessions, StartSign(s)
  PROVE  IInv'
<1> USE SigningAssumption DEF IInv, CoordInv
<1> DEFINE chosen(d) == First(Usable(d, Items[s]))
           given(d) == [stream |-> chosen(d),
                        nonces |-> Slice(cache[d][chosen(d)], cache[d][chosen(d)].index,
                                         cache[d][chosen(d)].index + Items[s])]
<1>1. /\ status[s] = "new" /\ status' = [status EXCEPT ![s] = "active"]
      /\ assigned' = [assigned EXCEPT ![s] = [d \in Parties[s] |-> given(d)]]
      /\ UNCHANGED <<cache, sent, shares, deviceVars, toDevice, toCoord>>
  BY DEF StartSign
<1>2. /\ Started' = Started \cup {s} /\ s \notin Started
      /\ Active' = Active \cup {s} /\ s \notin Active
      /\ \A r \in Sessions \ {s} : assigned'[r] = assigned[r]
      /\ \A d \in Parties[s] : assigned'[s][d] = given(d)
  BY <1>1 DEF Started, Active, CoordTypes
<1>3. ASSUME NEW d \in Parties[s]
      PROVE  /\ d \in Devices /\ chosen(d) \in Streams \ UsedStreams(d)
             /\ Sized(cache[d][chosen(d)])
             /\ given(d).stream = chosen(d) /\ Sized(given(d).nonces)
  <2>1. d \in Devices /\ Usable(d, Items[s]) # {}
    BY DEF StartSign
  <2>2. chosen(d) \in Usable(d, Items[s])
    BY <2>1, FirstFact DEF Usable, Known
  <2> HIDE DEF chosen
  <2>3. chosen(d) \in Streams \ UsedStreams(d) /\ cache[d][chosen(d)] # None
    BY <2>2 DEF Usable, Known
  <2>4. Sized(cache[d][chosen(d)])
    BY <2>1, <2>3 DEF CoordTypes
  <2> QED
    BY <2>1, <2>3, <2>4, SegmentFacts
<1> HIDE DEF given, chosen
<1>4. CoordTypes' /\ AssignedTypes'
  <2>1. CoordTypes'
    BY <1>1 DEF CoordTypes
  <2>2. AssignedTypes'
    BY <1>2, <1>3 DEF AssignedTypes, Started
  <2> QED
    BY <2>1, <2>2
<1>5. AssignedAreKnown'
  BY <1>1, <1>2, <1>3 DEF AssignedAreKnown, Active
<1>6. ActiveNoncesAreDisjoint'
  <2>1. ASSUME NEW r \in Active, NEW d \in Parties[s] \cap Parties[r]
        PROVE  assigned'[s][d].stream # assigned'[r][d].stream
    <3>1. assigned[r][d].stream \in UsedStreams(d)
      BY DEF UsedStreams
    <3> QED
      BY <1>2, <1>3, <2>1, <3>1 DEF Active
  <2> QED
    BY <1>2, <2>1 DEF ActiveNoncesAreDisjoint, Active
<1>7. SharesAreSigned'
  BY <1>1, <1>2 DEF SharesAreSigned, CoordTypes, deviceVars
<1>8. DeviceInv'
  BY <1>1, <1>2, <1>4, DeviceKept DEF Started
<1>9. WireInv'
  BY <1>1, <1>2, WireSame DEF deviceVars
<1> QED
  BY <1>4, <1>5, <1>6, <1>7, <1>8, <1>9

LEMMA RequestDeviceSignKeeps ==
  ASSUME IInv, NEW s \in Sessions, NEW d \in Devices, RequestDeviceSign(s, d)
  PROVE  IInv'
<1> USE DEF IInv, CoordInv
<1> DEFINE m == [type |-> "sign", session |-> s]
<1>1. /\ s \in Active /\ d \in Parties[s]
      /\ sent' = [sent EXCEPT ![s] = @ \cup {d}]
      /\ toDevice' = [toDevice EXCEPT ![d] = Append(toDevice[d], m)]
      /\ UNCHANGED <<cache, status, assigned, shares, deviceVars, toCoord>>
  BY DEF RequestDeviceSign, Sent, WireInv
<1>2. Started' = Started /\ Active' = Active /\ s \in Started
  BY <1>1 DEF Started, Active
<1>3. CoordTypes' /\ AssignedTypes'
  <2>1. CoordTypes'
    BY <1>1 DEF CoordTypes
  <2>2. AssignedTypes'
    BY <1>1, <1>2 DEF AssignedTypes
  <2> QED
    BY <2>1, <2>2
<1>4. AssignedAreKnown' /\ ActiveNoncesAreDisjoint'
  BY <1>1, <1>2 DEF AssignedAreKnown, ActiveNoncesAreDisjoint
<1>5. SharesAreSigned'
  BY <1>1 DEF SharesAreSigned, deviceVars
<1>6. DeviceInv'
  BY <1>1, <1>2, <1>3, DeviceKept
<1>7. m \in Requests(d)
  BY <1>1, <1>2 DEF Requests
<1> HIDE DEF m
<1>8. Append(toDevice[d], m) \in Seq(Requests(d)) /\ toCoord[d] \in Seq(Answers(d))
  BY <1>7, QueueFacts DEF WireInv
<1>9. /\ toCoord' = [toCoord EXCEPT ![d] = toCoord[d]]
      /\ \A e \in Devices : signed[e] \subseteq signed'[e]
  BY <1>1 DEF WireInv, deviceVars
<1>10. Append(toDevice[d], m) \in Seq(Requests(d)') /\ toCoord[d] \in Seq(Answers(d)')
  BY <1>2, <1>8, <1>9, WireGrows
<1>11. WireInv'
  BY <1>1, <1>2, <1>9, <1>10, WireKept
<1> QED
  BY <1>3, <1>4, <1>5, <1>6, <1>11

\* Closing sessions uses up their own nonces only.
LEMMA ConsumedFacts ==
  ASSUME CoordTypes, AssignedTypes, ActiveNoncesAreDisjoint,
         NEW c, NEW closed \in SUBSET Active,
         \A d \in Devices, t \in Streams : c[d][t] = None \/ Sized(c[d][t]),
         \A s \in closed : \A d \in Parties[s] : Sized(c[d][assigned[s][d].stream])
  PROVE  /\ Consumed(c, closed) =
              [d \in Devices |-> [t \in Streams |-> Consumed(c, closed)[d][t]]]
         /\ \A d \in Devices, t \in Streams :
              Consumed(c, closed)[d][t] = None \/ Sized(Consumed(c, closed)[d][t])
         /\ \A s \in Active \ closed : \A d \in Parties[s] :
              Consumed(c, closed)[d][assigned[s][d].stream] = c[d][assigned[s][d].stream]
         /\ \A d \in Devices, t \in Streams :
              \/ Consumed(c, closed)[d][t] = c[d][t]
              \/ \E r \in closed :
                   /\ d \in Parties[r] /\ assigned[r][d].stream = t
                   /\ Consumed(c, closed)[d][t] = DeleteUpTo(c[d][t], assigned[r][d].nonces.next)
<1> USE SigningAssumption
<1> DEFINE users(d, t) == {r \in closed : d \in sent[r] /\ assigned[r][d].stream = t}
           ends(d, t) == {assigned[r][d].nonces.next : r \in users(d, t)}
           left(d, t) == IF ends(d, t) = {} THEN c[d][t] ELSE DeleteUpTo(c[d][t], Max(ends(d, t)))
<1>1. Consumed(c, closed) = [d \in Devices |-> [t \in Streams |-> left(d, t)]]
  BY DEF Consumed
<1>2. ASSUME NEW d \in Devices, NEW t \in Streams, NEW r \in users(d, t)
      PROVE  /\ r \in Active /\ d \in Parties[r]
             /\ \A q \in Active : q # r /\ d \in Parties[q] => assigned[q][d].stream # t
  <2>1. r \in Active /\ r \in Sessions /\ d \in Parties[r]
    BY DEF Active, CoordTypes
  <2> QED
    BY <2>1 DEF ActiveNoncesAreDisjoint
<1>3. ASSUME NEW d \in Devices, NEW t \in Streams
      PROVE  /\ left(d, t) = None \/ Sized(left(d, t))
             /\ \/ left(d, t) = c[d][t]
                \/ \E r \in closed : /\ d \in Parties[r] /\ assigned[r][d].stream = t
                                    /\ left(d, t) = DeleteUpTo(c[d][t], assigned[r][d].nonces.next)
  <2>1. CASE users(d, t) = {}
    BY <2>1
  <2>2. ASSUME NEW r \in users(d, t)
        PROVE  Sized(left(d, t)) /\ left(d, t) = DeleteUpTo(c[d][t], assigned[r][d].nonces.next)
    <3>1. users(d, t) = {r}
      <4>1. ASSUME NEW q \in users(d, t)
            PROVE  q = r
        <5>1. q \in Active /\ d \in Parties[q] /\ assigned[q][d].stream = t
          BY <1>2
        <5> QED
          BY <1>2, <5>1
      <4> QED
        BY <4>1
    <3>2. ends(d, t) = {assigned[r][d].nonces.next}
      BY <3>1
    <3>3. assigned[r][d].nonces.next \in Nat /\ Sized(c[d][t])
      BY <1>2 DEF AssignedTypes, Started, Active, Sized
    <3>4. Max(ends(d, t)) = assigned[r][d].nonces.next
      BY <3>2, <3>3 DEF Max
    <3> QED
      BY <3>2, <3>3, <3>4, SegmentFacts
  <2>3. \A r \in users(d, t) : r \in closed /\ d \in Parties[r] /\ assigned[r][d].stream = t
    BY <1>2
  <2> HIDE DEF users, left
  <2> QED
    BY <2>1, <2>2, <2>3
<1>4. ASSUME NEW s \in Active \ closed, NEW d \in Parties[s]
      PROVE  /\ d \in Devices /\ assigned[s][d].stream \in Streams
             /\ left(d, assigned[s][d].stream) = c[d][assigned[s][d].stream]
  <2>1. d \in Devices /\ assigned[s][d].stream \in Streams
    BY DEF AssignedTypes, Started, Active
  <2>2. ASSUME NEW r \in users(d, assigned[s][d].stream)
        PROVE  FALSE
    <3>1. \A q \in Active : q # r /\ d \in Parties[q] =>
            assigned[q][d].stream # assigned[s][d].stream
      BY <1>2, <2>1
    <3>2. s # r /\ s \in Active
      OBVIOUS
    <3> QED
      BY <3>1, <3>2
  <2> QED
    BY <2>1, <2>2
<1> HIDE DEF left
<1> QED
  BY <1>1, <1>3, <1>4

LEMMA ClosedKeeps ==
  ASSUME CoordInv, NEW c, NEW closed \in SUBSET Active, NEW state \in {"finished", "cancelled"},
         \A d \in Devices, t \in Streams : c[d][t] = None \/ Sized(c[d][t]),
         \A s \in Active : \A d \in Parties[s] : Sized(c[d][assigned[s][d].stream]),
         cache' = Consumed(c, closed),
         status' = [s \in Sessions |-> IF s \in closed THEN state ELSE status[s]],
         UNCHANGED <<assigned, sent>>,
         shares' \in [Sessions -> SUBSET Devices], SharesAreSigned'
  PROVE  CoordInv' /\ Started' = Started
<1> USE DEF CoordInv
<1>1. Started' = Started /\ Active' = Active \ closed
  BY DEF Started, Active
<1>2. /\ cache' = [d \in Devices |-> [t \in Streams |-> cache'[d][t]]]
      /\ \A d \in Devices, t \in Streams : cache'[d][t] = None \/ Sized(cache'[d][t])
      /\ \A s \in Active \ closed : \A d \in Parties[s] :
           cache'[d][assigned[s][d].stream] = c[d][assigned[s][d].stream]
  BY ConsumedFacts
<1>3. CoordTypes'
  BY <1>2 DEF CoordTypes
<1>4. AssignedTypes'
  BY <1>1 DEF AssignedTypes
<1>5. AssignedAreKnown'
  BY <1>1, <1>2 DEF AssignedAreKnown
<1>6. ActiveNoncesAreDisjoint'
  BY <1>1 DEF ActiveNoncesAreDisjoint
<1> QED
  BY <1>1, <1>3, <1>4, <1>5, <1>6

LEMMA CancelKeeps ==
  ASSUME IInv, (\E s \in Sessions : Cancel(s)) \/ CancelAll
  PROVE  IInv'
<1> USE DEF IInv
<1>1. PICK closed \in SUBSET Active :
        /\ cache' = Consumed(cache, closed)
        /\ status' = [s \in Sessions |-> IF s \in closed THEN "cancelled" ELSE status[s]]
        /\ UNCHANGED <<assigned, sent, shares, deviceVars, toDevice, toCoord>>
  <2>1. ASSUME NEW s \in Sessions, Cancel(s)
        PROVE  /\ {s} \in SUBSET Active /\ cache' = Consumed(cache, {s})
               /\ status' = [r \in Sessions |-> IF r \in {s} THEN "cancelled" ELSE status[r]]
               /\ UNCHANGED <<assigned, sent, shares, deviceVars, toDevice, toCoord>>
    BY <2>1 DEF Cancel, CoordInv, CoordTypes
  <2>2. ASSUME CancelAll
        PROVE  /\ cache' = Consumed(cache, Active)
               /\ status' = [r \in Sessions |-> IF r \in Active THEN "cancelled" ELSE status[r]]
               /\ UNCHANGED <<assigned, sent, shares, deviceVars, toDevice, toCoord>>
    BY <2>2 DEF CancelAll
  <2> QED
    BY <2>1, <2>2
<1>2. SharesAreSigned'
  BY <1>1 DEF CoordInv, SharesAreSigned, Active, deviceVars
<1>3. CoordInv' /\ Started' = Started
  <2>1. shares' \in [Sessions -> SUBSET Devices]
    BY <1>1 DEF CoordInv, CoordTypes
  <2>2. /\ \A d \in Devices, t \in Streams : cache[d][t] = None \/ Sized(cache[d][t])
        /\ \A s \in Active : \A d \in Parties[s] : Sized(cache[d][assigned[s][d].stream])
    BY DEF CoordInv, CoordTypes, AssignedAreKnown
  <2> QED
    BY <1>1, <1>2, <2>1, <2>2, ClosedKeeps
<1>4. DeviceInv'
  BY <1>1, <1>3, DeviceKept DEF CoordInv
<1>5. WireInv'
  BY <1>1, <1>3, WireSame DEF deviceVars
<1> QED
  BY <1>3, <1>4, <1>5

-------------------------------------------------------------------------------
(* What devices answer.                                                      *)

\* A coordinator that has taken an answer off the wire.
LEMMA Heard ==
  ASSUME IInv, CoordInv', Started' = Started, NEW d \in Devices, toCoord[d] # <<>>,
         toCoord' = [toCoord EXCEPT ![d] = Tail(@)],
         UNCHANGED <<assigned, deviceVars, toDevice>>
  PROVE  IInv'
<1> USE DEF IInv
<1>1. DeviceInv'
  BY DeviceKept DEF CoordInv
<1>2. /\ toDevice' = [toDevice EXCEPT ![d] = toDevice[d]]
      /\ toCoord' = [toCoord EXCEPT ![d] = Tail(toCoord[d])]
      /\ \A e \in Devices : signed[e] \subseteq signed'[e]
  BY DEF WireInv, deviceVars
<1>3. toDevice[d] \in Seq(Requests(d)) /\ Tail(toCoord[d]) \in Seq(Answers(d))
  BY QueueFacts DEF WireInv
<1>4. toDevice[d] \in Seq(Requests(d)') /\ Tail(toCoord[d]) \in Seq(Answers(d)')
  BY <1>2, <1>3, WireGrows
<1>5. WireInv'
  BY <1>2, <1>4, WireKept
<1> QED
  BY <1>1, <1>5

LEMMA RecvNonceResponseKeeps ==
  ASSUME IInv, NEW d \in Devices, RecvNonceResponse(d)
  PROVE  IInv'
<1> USE DEF IInv, CoordInv
<1> DEFINE segments == Received(d).segments
           row == [t \in Streams |-> IF t \in DOMAIN segments
                                     THEN Extended(cache[d], t, segments[t])[t] ELSE cache[d][t]]
<1>1. /\ toCoord[d] # <<>> /\ Received(d).type = "nonces"
      /\ toCoord' = [toCoord EXCEPT ![d] = Tail(@)]
      /\ cache' = [cache EXCEPT ![d] = row]
      /\ UNCHANGED <<status, assigned, sent, shares, deviceVars, toDevice>>
  BY DEF RecvNonceResponse, Receiving
<1>2. \A t \in DOMAIN segments : t \in Streams /\ Sized(segments[t])
  <2>1. Received(d) \in Answers(d)
    BY <1>1, QueueFacts DEF WireInv, Received
  <2>2. segments \in Batches
    BY <1>1, <2>1 DEF Answers
  <2>3. PICK T \in SUBSET Streams : segments \in [T -> Runs]
    BY <2>2 DEF Batches
  <2> HIDE DEF segments
  <2> QED
    BY <2>3, RunFacts
<1>3. \A t \in Streams : /\ row[t] = None \/ Sized(row[t])
                         /\ Sized(cache[d][t]) => Sized(row[t])
  <2> SUFFICES ASSUME NEW t \in Streams
               PROVE  /\ row[t] = None \/ Sized(row[t])
                      /\ Sized(cache[d][t]) => Sized(row[t])
    OBVIOUS
  <2>1. /\ cache[d] = [u \in Streams |-> cache[d][u]]
        /\ \A u \in Streams : cache[d][u] = None \/ Sized(cache[d][u])
    BY DEF CoordTypes
  <2>2. CASE t \in DOMAIN segments
    <3>1. Sized(Extended(cache[d], t, segments[t])[t])
      BY <1>2, <2>1, <2>2, ExtendedFacts
    <3> QED
      BY <2>2, <3>1
  <2>3. CASE t \notin DOMAIN segments
    BY <2>1, <2>3
  <2> QED
    BY <2>2, <2>3
<1>4. row = [t \in Streams |-> row[t]]
  OBVIOUS
<1> HIDE DEF row
<1>5. CoordTypes'
  BY <1>1, <1>3, <1>4 DEF CoordTypes
<1>6. Started' = Started /\ Active' = Active /\ AssignedTypes'
  BY <1>1 DEF Started, Active, AssignedTypes
<1>7. AssignedAreKnown'
  <2> SUFFICES ASSUME NEW s \in Active, NEW e \in Parties[s]
               PROVE  Sized(cache'[e][assigned[s][e].stream])
    BY <1>1, <1>6 DEF AssignedAreKnown
  <2>1. assigned[s][e].stream \in Streams /\ Sized(cache[e][assigned[s][e].stream])
    BY DEF AssignedTypes, AssignedAreKnown, Started, Active
  <2>2. e \in Devices
    BY SigningAssumption DEF Active
  <2> QED
    BY <1>1, <1>3, <2>1, <2>2 DEF CoordTypes
<1>8. ActiveNoncesAreDisjoint' /\ SharesAreSigned'
  BY <1>1, <1>6 DEF ActiveNoncesAreDisjoint, SharesAreSigned, deviceVars
<1> QED
  BY <1>1, <1>5, <1>6, <1>7, <1>8, Heard

LEMMA LateShareKeeps ==
  ASSUME IInv, NEW d \in Devices, LateShare(d)
  PROVE  IInv'
<1>1. /\ toCoord[d] # <<>> /\ toCoord' = [toCoord EXCEPT ![d] = Tail(@)]
      /\ UNCHANGED <<cache, status, assigned, sent, shares, deviceVars, toDevice>>
  BY DEF LateShare
<1>2. CoordInv' /\ Started' = Started
  BY <1>1, BooksKept DEF IInv, deviceVars
<1> QED
  BY <1>1, <1>2, Heard

LEMMA RowExtended ==
  ASSUME CoordTypes, NEW d \in Devices, NEW u \in Streams, NEW g, Sized(g)
  PROVE  /\ Extended(cache[d], u, g) = [t \in Streams |-> Extended(cache[d], u, g)[t]]
         /\ Sized(Extended(cache[d], u, g)[u])
         /\ \A t \in Streams \ {u} : Extended(cache[d], u, g)[t] = cache[d][t]
<1> DEFINE c == cache[d]
<1>1. c = [t \in Streams |-> c[t]] /\ \A t \in Streams : c[t] = None \/ Sized(c[t])
  BY DEF CoordTypes
<1> HIDE DEF c
<1>2. /\ Extended(c, u, g) = [t \in Streams |-> Extended(c, u, g)[t]]
      /\ Sized(Extended(c, u, g)[u])
      /\ \A t \in Streams \ {u} : Extended(c, u, g)[t] = c[t]
  <2> DEFINE entry == Extend(IF c[u] = None THEN NoNonces ELSE c[u], g)
  <2>1. Sized(entry)
    <3>1. Sized(NoNonces)
      BY DEF Sized, NoNonces
    <3> QED
      BY <1>1, <3>1, SegmentFacts
  <2>2. Extended(c, u, g) = [c EXCEPT ![u] = entry]
    BY DEF Extended
  <2>3. u \in Streams
    OBVIOUS
  <2> HIDE DEF entry
  <2> QED
    BY ONLY <1>1, <2>1, <2>2, <2>3
<1> QED
  BY <1>2 DEF c

LEMMA RecvShareKeeps ==
  ASSUME IInv, NEW d \in Devices, RecvShare(d)
  PROVE  IInv'
<1> USE DEF IInv, CoordInv
<1> DEFINE m == Received(d)
           s == m.session
           got == shares[s] \cup {d}
           row == Extended(cache[d], m.stream, m.replenish)
           extended == [cache EXCEPT ![d] = Extended(@, m.stream, m.replenish)]
<1>1. /\ toCoord[d] # <<>> /\ m.type = "share" /\ s \in Active
      /\ toCoord' = [toCoord EXCEPT ![d] = Tail(@)]
      /\ UNCHANGED <<assigned, sent, deviceVars, toDevice>>
  BY DEF RecvShare, Receiving
<1>2. m.stream \in Streams /\ Sized(m.replenish) /\ Use(s, m.nonces) \in signed[d]
  <2>1. m \in Answers(d)
    BY <1>1, QueueFacts DEF WireInv, Received
  <2>2. PICK e \in signed[d], t \in Streams, g \in Runs :
          m = [type |-> "share", session |-> e.session, stream |-> t, nonces |-> e.nonces,
               replenish |-> g]
    BY <1>1, <2>1 DEF Answers
  <2>3. e = Use(e.session, e.nonces)
    BY DEF DeviceInv, DeviceTypes
  <2> HIDE DEF m
  <2> QED
    BY <2>2, <2>3, RunFacts
<1>3. /\ \A e \in Devices, t \in Streams : extended[e][t] = None \/ Sized(extended[e][t])
      /\ \A r \in Active : \A e \in Parties[r] : Sized(extended[e][assigned[r][e].stream])
      /\ extended = [e \in Devices |-> [t \in Streams |-> extended[e][t]]]
  <2>1. /\ row = [t \in Streams |-> row[t]] /\ Sized(row[m.stream])
        /\ \A t \in Streams \ {m.stream} : row[t] = cache[d][t]
    <3> HIDE DEF m
    <3> QED
      BY <1>2, RowExtended
  <2>2. /\ extended[d] = row /\ \A e \in Devices \ {d} : extended[e] = cache[e]
        /\ extended = [e \in Devices |-> extended[e]]
    BY DEF CoordTypes
  <2> HIDE DEF row, extended, m
  <2>3. ASSUME NEW e \in Devices, NEW t \in Streams
        PROVE  /\ extended[e][t] = None \/ Sized(extended[e][t])
               /\ Sized(cache[e][t]) => Sized(extended[e][t])
    BY <2>1, <2>2 DEF CoordTypes
  <2>4. ASSUME NEW r \in Active, NEW e \in Parties[r]
        PROVE  Sized(extended[e][assigned[r][e].stream])
    <3>1. assigned[r][e].stream \in Streams /\ Sized(cache[e][assigned[r][e].stream])
      BY DEF AssignedTypes, AssignedAreKnown, Started, Active
    <3>2. e \in Devices
      BY SigningAssumption DEF Active
    <3> QED
      BY <2>3, <3>1, <3>2
  <2>5. extended = [e \in Devices |-> [t \in Streams |-> extended[e][t]]]
    <3>1. \A e \in Devices : extended[e] = [t \in Streams |-> extended[e][t]]
      BY <2>1, <2>2 DEF CoordTypes
    <3> QED
      BY <2>2, <3>1
  <2> QED
    BY <2>3, <2>4, <2>5
<1>4. CASE ~Verifies(s, d)
  <2>1. UNCHANGED <<cache, status, shares>>
    BY <1>4 DEF RecvShare
  <2>2. CoordInv' /\ Started' = Started
    BY <1>1, <2>1, BooksKept DEF deviceVars
  <2> QED
    BY <1>1, <2>2, Heard
<1>5. CASE Verifies(s, d)
  <2>1. d \in Parties[s] /\ m.nonces = assigned[s][d].nonces /\ shares' = [shares EXCEPT ![s] = got]
    BY <1>5 DEF RecvShare, Verifies
  <2>2. s \in Sessions /\ shares' \in [Sessions -> SUBSET Devices]
    BY <1>1, <2>1 DEF CoordTypes, Active
  <2>3. \A r \in Sessions : \A e \in shares'[r] : Use(r, assigned[r][e].nonces) \in signed[e]
    BY <1>2, <2>1, <2>2 DEF SharesAreSigned, CoordTypes
  <2>4. CASE AllReceived(s, got)
    <3>1. /\ status' = [status EXCEPT ![s] = "finished"] /\ cache' = Consumed(extended, {s})
          /\ got = Parties[s]
      BY <1>5, <2>4 DEF RecvShare, AllReceived
    <3>2. status' = [r \in Sessions |-> IF r \in {s} THEN "finished" ELSE status[r]]
      BY <3>1 DEF CoordTypes
    <3>3. SharesAreSigned'
      <4>1. ASSUME NEW r \in Sessions
            PROVE  /\ status'[r] = "new" => shares'[r] = {}
                   /\ status'[r] = "finished" => shares'[r] = Parties[r]
        BY <2>1, <2>2, <3>1, <3>2 DEF SharesAreSigned, CoordTypes
      <4> QED
        BY <1>1, <2>3, <4>1 DEF SharesAreSigned, deviceVars
    <3>4. {s} \in SUBSET Active
      BY <1>1
    <3> HIDE DEF s, extended
    <3>5. CoordInv' /\ Started' = Started
      BY <1>1, <1>3, <2>2, <3>1, <3>2, <3>3, <3>4, ClosedKeeps
    <3> QED
      BY <1>1, <3>5, Heard
  <2>5. CASE ~AllReceived(s, got)
    <3>1. cache' = extended /\ status' = status
      BY <1>5, <2>5 DEF RecvShare
    <3>2. Started' = Started /\ Active' = Active
      BY <3>1 DEF Started, Active
    <3>3. CoordTypes' /\ AssignedTypes'
      <4> HIDE DEF extended
      <4>1. CoordTypes'
        BY <1>1, <1>3, <2>2, <3>1 DEF CoordTypes
      <4>2. AssignedTypes'
        BY <1>1, <3>2 DEF AssignedTypes
      <4> QED
        BY <4>1, <4>2
    <3>4. AssignedAreKnown' /\ ActiveNoncesAreDisjoint'
      <4> HIDE DEF extended
      <4> QED
        BY <1>1, <1>3, <3>1, <3>2 DEF AssignedAreKnown, ActiveNoncesAreDisjoint
    <3>5. SharesAreSigned'
      <4>1. ASSUME NEW r \in Sessions
            PROVE  /\ status'[r] = "new" => shares'[r] = {}
                   /\ status'[r] = "finished" => shares'[r] = Parties[r]
        BY <1>1, <2>1, <2>2, <3>1 DEF SharesAreSigned, CoordTypes, Active
      <4> QED
        BY <1>1, <2>3, <4>1 DEF SharesAreSigned, deviceVars
    <3> QED
      BY <1>1, <3>2, <3>3, <3>4, <3>5, Heard
  <2> QED
    BY <2>4, <2>5
<1> QED
  BY <1>4, <1>5

-------------------------------------------------------------------------------
(* The devices.                                                              *)

\* Slots may be given up and the screen may change: nothing is signed.
LEMMA SlotsLost ==
  ASSUME DeviceInv, AssignedTypes, UNCHANGED <<seeds, signed, assigned, status>>,
         slots' = [d \in Devices |-> [t \in Streams |-> slots'[d][t]]],
         \A d \in Devices, t \in Streams : slots'[d][t] \in {None, slots[d][t]},
         parked' = [d \in Devices |-> parked'[d]],
         \A d \in Devices : parked'[d] # None =>
           parked'[d] \in Started /\ d \in Parties[parked'[d]]
  PROVE  DeviceInv'
<1> USE DEF DeviceInv
<1>1. Started' = Started
  BY DEF Started
<1>2. DeviceTypes'
  BY <1>1 DEF DeviceTypes
<1>3. SeedsAreDistinct'
  BY DEF SeedsAreDistinct
<1>4. SpentIsBehind' /\ NoNonceReuse'
  BY DEF SpentIsBehind, NoNonceReuse
<1>5. CachedIsSigned'
  BY <1>1 DEF CachedIsSigned, AssignedTypes
<1> QED
  BY <1>2, <1>3, <1>4, <1>5

\* A step of a device that takes the head of its channel, or all of both.
LEMMA DeviceSteps ==
  ASSUME IInv, DeviceInv', UNCHANGED <<cache, status, assigned, sent, shares>>,
         \A e \in Devices : signed[e] \subseteq signed'[e],
         NEW d \in Devices, NEW asked, NEW said,
         toDevice' = [toDevice EXCEPT ![d] = asked], asked \in Seq(Requests(d)),
         toCoord' = [toCoord EXCEPT ![d] = said], said \in Seq(Answers(d)')
  PROVE  IInv'
<1>1. CoordInv' /\ Started' = Started
  BY BooksKept DEF IInv
<1>2. asked \in Seq(Requests(d)')
  <2>1. Requests(d)' = Requests(d)
    BY <1>1 DEF Requests
  <2> QED
    BY <2>1
<1>3. WireInv'
  BY <1>1, <1>2, WireKept DEF IInv
<1> QED
  BY <1>1, <1>3 DEF IInv

LEMMA UnplugKeeps ==
  ASSUME IInv, NEW d \in Devices, Unplug(d) \/ UseElsewhere(d)
  PROVE  IInv'
<1> USE DEF IInv, DeviceInv
<1>1. /\ parked' = [parked EXCEPT ![d] = None]
      /\ toDevice' = [toDevice EXCEPT ![d] = <<>>]
      /\ toCoord' = [toCoord EXCEPT ![d] = <<>>]
      /\ UNCHANGED <<cache, status, assigned, sent, shares, seeds, signed>>
  BY DEF Unplug, UseElsewhere, Unplugged, coordVars
<1>2. /\ slots' = [e \in Devices |-> [t \in Streams |-> slots'[e][t]]]
      /\ \A e \in Devices, t \in Streams : slots'[e][t] \in {None, slots[e][t]}
  <2>1. CASE Unplug(d)
    BY <2>1 DEF Unplug, DeviceTypes
  <2>2. CASE UseElsewhere(d)
    <3>1. PICK lost \in SUBSET Held(d) :
            slots' = [slots EXCEPT ![d] = [t \in Streams |-> IF t \in lost THEN None ELSE @[t]]]
      BY <2>2 DEF UseElsewhere
    <3> QED
      BY <3>1 DEF DeviceTypes
  <2> QED
    BY <2>1, <2>2
<1>3. DeviceInv'
  <2>1. /\ parked' = [e \in Devices |-> parked'[e]]
        /\ \A e \in Devices : parked'[e] # None =>
             parked'[e] \in Started /\ e \in Parties[parked'[e]]
    BY <1>1 DEF DeviceTypes
  <2> QED
    BY <1>1, <1>2, <2>1, SlotsLost DEF CoordInv
<1>4. /\ <<>> \in Seq(Requests(d)) /\ <<>> \in Seq(Answers(d)')
      /\ \A e \in Devices : signed[e] \subseteq signed'[e]
  BY <1>1
<1> QED
  BY <1>1, <1>3, <1>4, DeviceSteps

\* What is left of a channel whose head is handled.
LEMMA Handled ==
  ASSUME IInv, NEW d \in Devices, NEW type, Handling(d, type)
  PROVE  /\ Message(d) \in Requests(d) /\ Message(d).type = type
         /\ toDevice' = [toDevice EXCEPT ![d] = Tail(toDevice[d])]
         /\ Tail(toDevice[d]) \in Seq(Requests(d))
  BY QueueFacts DEF IInv, WireInv, Handling, Message

LEMMA RecvRequestKeeps ==
  ASSUME IInv, NEW d \in Devices, RecvRequest(d)
  PROVE  IInv'
<1> USE DEF IInv, DeviceInv
<1> DEFINE s == Message(d).session
<1>1. /\ Handling(d, "sign")
      /\ parked' = [parked EXCEPT ![d] = IF assigned[s][d].stream \in Held(d) THEN s ELSE @]
      /\ UNCHANGED <<cache, status, assigned, sent, shares, slots, seeds, signed, toCoord>>
  BY DEF RecvRequest, coordVars
<1>2. s \in Started /\ d \in Parties[s]
  BY <1>1, Handled DEF Requests
<1>3. DeviceInv'
  <2>1. /\ parked' = [e \in Devices |-> parked'[e]]
        /\ \A e \in Devices : parked'[e] # None =>
             parked'[e] \in Started /\ e \in Parties[parked'[e]]
    BY <1>1, <1>2 DEF DeviceTypes
  <2>2. /\ slots' = [e \in Devices |-> [t \in Streams |-> slots'[e][t]]]
        /\ \A e \in Devices, t \in Streams : slots'[e][t] \in {None, slots[e][t]}
    BY <1>1 DEF DeviceTypes
  <2> QED
    BY <1>1, <2>1, <2>2, SlotsLost DEF CoordInv
<1>4. /\ toCoord' = [toCoord EXCEPT ![d] = toCoord[d]] /\ toCoord[d] \in Seq(Answers(d)')
      /\ \A e \in Devices : signed[e] \subseteq signed'[e]
  BY <1>1 DEF WireInv, Answers
<1> QED
  BY <1>1, <1>3, <1>4, Handled, DeviceSteps

\* The prompt goes and nothing is signed.
LEMMA Dismissed ==
  ASSUME IInv, NEW d \in Devices, parked' = [parked EXCEPT ![d] = None],
         UNCHANGED <<status, assigned, slots, seeds, signed>>
  PROVE  DeviceInv'
<1> USE DEF IInv, DeviceInv
<1>1. /\ parked' = [e \in Devices |-> parked'[e]]
      /\ \A e \in Devices : parked'[e] # None =>
           parked'[e] \in Started /\ e \in Parties[parked'[e]]
  BY DEF DeviceTypes
<1>2. /\ slots' = [e \in Devices |-> [t \in Streams |-> slots'[e][t]]]
      /\ \A e \in Devices, t \in Streams : slots'[e][t] \in {None, slots[e][t]}
  BY DEF DeviceTypes
<1> QED
  BY <1>1, <1>2, SlotsLost DEF CoordInv

LEMMA DismissKeeps ==
  ASSUME IInv, NEW d \in Devices, parked' = [parked EXCEPT ![d] = None],
         UNCHANGED <<cache, status, assigned, sent, shares, slots, seeds, signed, toDevice, toCoord>>
  PROVE  IInv'
<1>1. DeviceInv'
  BY Dismissed
<1>2. CoordInv' /\ Started' = Started
  BY BooksKept DEF IInv
<1>3. WireInv'
  BY <1>2, WireSame DEF IInv
<1> QED
  BY <1>1, <1>2, <1>3 DEF IInv

\* The step that can do harm: the slot t of device d, which is v, signs for
\* session s with the nonces used, over g, and is then as in after.
SignsAs(d, s, t, v, g, used, after) ==
  /\ UNCHANGED <<seeds, assigned, status>>
  /\ d \in Parties[s] /\ t = assigned[s][d].stream
  /\ v = slots[d][t] /\ v # None
  /\ g = assigned[s][d].nonces /\ v.index <= g.index
  /\ used = Segment(g.index, g.next, v.seed)
  /\ after.index = g.next /\ after.seed = v.seed /\ after.session = s
  /\ after \in [index : Nat, seed : 1..seeds[d], session : {None} \cup Started]
  /\ slots' = [e \in Devices |-> [u \in Streams |-> slots'[e][u]]]
  /\ slots'[d][t] = after
  /\ \A e \in Devices, u \in Streams : e # d \/ u # t => slots'[e][u] = slots[e][u]
  /\ signed' = [e \in Devices |-> signed'[e]]
  /\ \A e \in Devices : signed[e] \subseteq signed'[e]
  /\ Use(s, used) \in signed'[d]
  /\ \A e \in Devices : \A x \in signed'[e] : x \notin signed[e] => e = d /\ x = Use(s, used)
  /\ parked' = [parked EXCEPT ![d] = None]

LEMMA SigningIsSafe ==
  ASSUME DeviceInv, AssignedTypes, NEW d \in Devices, NEW s \in Started, NEW t \in Streams,
         NEW v, NEW g, NEW used, NEW after, SignsAs(d, s, t, v, g, used, after)
  PROVE  DeviceInv'
<1>1. /\ UNCHANGED <<seeds, assigned, status>> /\ parked' = [parked EXCEPT ![d] = None]
      /\ d \in Parties[s] /\ t = assigned[s][d].stream
      /\ v = slots[d][t] /\ v # None /\ g = assigned[s][d].nonces /\ v.index <= g.index
  BY Zenon DEF SignsAs
<1>2. /\ slots' = [e \in Devices |-> [u \in Streams |-> slots'[e][u]]]
      /\ signed' = [e \in Devices |-> signed'[e]]
      /\ after \in [index : Nat, seed : 1..seeds[d], session : {None} \cup Started]
      /\ used = Segment(g.index, g.next, v.seed)
  BY Zenon DEF SignsAs
<1>3. /\ slots'[d][t] = after
      /\ after.index = g.next /\ after.seed = v.seed /\ after.session = s
      /\ \A e \in Devices, u \in Streams : e # d \/ u # t => slots'[e][u] = slots[e][u]
  BY Zenon DEF SignsAs
<1>4. /\ \A e \in Devices : signed[e] \subseteq signed'[e]
      /\ Use(s, used) \in signed'[d]
      /\ \A e \in Devices : \A x \in signed'[e] : x \notin signed[e] => e = d /\ x = Use(s, used)
  BY Zenon DEF SignsAs
<1>5. /\ Sized(g) /\ g.index \in Nat /\ g.next \in Nat /\ v.index <= g.index
  BY <1>1 DEF AssignedTypes, Sized
<1>6. DeviceTypes /\ SeedsAreDistinct /\ SpentIsBehind /\ CachedIsSigned /\ NoNonceReuse
  BY DEF DeviceInv
<1>7. /\ v.index \in Nat /\ v.seed \in 1..seeds[d] /\ s \in Sessions /\ Started' = Started
  BY <1>1, <1>6 DEF DeviceTypes, Started
<1>8. /\ used.index = g.index /\ used.next = g.next
      /\ \A k \in g.index..(g.next - 1) : used.nonces[k] = v.seed
      /\ Use(s, used).session = s /\ Use(s, used).nonces = used
  BY <1>2 DEF Segment, Use
<1>9. \A e \in Devices, u \in Streams : slots'[e][u] # None =>
        slots[e][u] # None /\ slots'[e][u].seed = slots[e][u].seed
  <2> SUFFICES ASSUME NEW e \in Devices, NEW u \in Streams, slots'[e][u] # None
               PROVE  slots[e][u] # None /\ slots'[e][u].seed = slots[e][u].seed
    OBVIOUS
  <2>1. CASE e = d /\ u = t
    BY <1>1, <1>3, <2>1
  <2>2. CASE e # d \/ u # t
    BY <1>3, <2>2
  <2> QED
    BY <2>1, <2>2
<1>10. \A x \in signed[d] : \A k \in x.nonces.index..(x.nonces.next - 1) :
         x.nonces.nonces[k] = v.seed => k < v.index
  BY <1>1, <1>6 DEF SpentIsBehind
<1>11. DeviceTypes'
  <2>1. parked' = [e \in Devices |-> parked'[e]] /\ seeds' \in [Devices -> Nat]
    BY <1>1, <1>6 DEF DeviceTypes
  <2>2. ASSUME NEW e \in Devices, parked'[e] # None
        PROVE  parked'[e] \in Started' /\ e \in Parties[parked'[e]]
    BY <1>1, <1>6, <1>7, <2>2 DEF DeviceTypes
  <2>3. ASSUME NEW e \in Devices, NEW u \in Streams, slots'[e][u] # None
        PROVE  slots'[e][u] \in [index : Nat, seed : 1..seeds'[e], session : {None} \cup Started']
    <3>1. CASE e = d /\ u = t
      BY <1>1, <1>2, <1>3, <1>7, <3>1
    <3>2. CASE e # d \/ u # t
      <4>1. slots'[e][u] = slots[e][u]
        BY <1>3, <3>2
      <4>2. slots[e][u] \in [index : Nat, seed : 1..seeds[e], session : {None} \cup Started]
        BY <1>6, <2>3, <4>1 DEF DeviceTypes
      <4> QED
        BY <1>1, <1>7, <4>1, <4>2
    <3> QED
      BY <3>1, <3>2
  <2>4. ASSUME NEW e \in Devices, NEW x \in signed'[e]
        PROVE  x = Use(x.session, x.nonces) /\ x.session \in Sessions
    <3>1. CASE x \in signed[e]
      BY <1>6, <3>1 DEF DeviceTypes
    <3>2. CASE x \notin signed[e]
      <4>1. x = Use(s, used)
        BY <1>4, <3>2
      <4> QED
        BY <1>7, <1>8, <4>1
    <3> QED
      BY <3>1, <3>2
  <2> QED
    BY <1>2, <2>1, <2>2, <2>3, <2>4 DEF DeviceTypes, Use
<1>12. SeedsAreDistinct'
  BY <1>6, <1>9 DEF SeedsAreDistinct
<1>13. SpentIsBehind'
  <2> SUFFICES ASSUME NEW e \in Devices, NEW x \in signed'[e],
                      NEW k \in x.nonces.index..(x.nonces.next - 1)
               PROVE  /\ x.nonces.nonces[k] \in 1..seeds'[e]
                      /\ \A u \in Streams :
                           slots'[e][u] # None /\ slots'[e][u].seed = x.nonces.nonces[k] =>
                             k < slots'[e][u].index
    BY DEF SpentIsBehind
  <2>1. CASE x \in signed[e]
    <3>1. /\ x.nonces.nonces[k] \in 1..seeds[e]
          /\ \A u \in Streams : slots[e][u] # None /\ slots[e][u].seed = x.nonces.nonces[k] =>
               k < slots[e][u].index
      BY <1>6, <2>1 DEF SpentIsBehind
    <3>2. ASSUME NEW u \in Streams, slots'[e][u] # None, slots'[e][u].seed = x.nonces.nonces[k]
          PROVE  k < slots'[e][u].index
      <4>1. k < slots[e][u].index
        BY <1>9, <3>1, <3>2
      <4>2. CASE e = d /\ u = t
        <5>1. k < v.index /\ slots'[e][u].index = g.next
          BY <1>1, <1>3, <4>1, <4>2
        <5>2. k \in Int
          OBVIOUS
        <5> QED
          BY <1>5, <1>7, <5>1, <5>2 DEF Sized
      <4>3. CASE e # d \/ u # t
        BY <1>3, <4>1, <4>3
      <4> QED
        BY <4>2, <4>3
    <3> QED
      BY <1>1, <3>1, <3>2
  <2>2. CASE x \notin signed[e]
    <3>1. e = d /\ x = Use(s, used)
      BY <1>4, <2>2
    <3>2. x.nonces = used
      BY <1>8, <3>1
    <3>3. k \in g.index..(g.next - 1) /\ x.nonces.nonces[k] = v.seed
      BY <1>8, <3>2
    <3>4. ASSUME NEW u \in Streams, slots'[d][u] # None, slots'[d][u].seed = v.seed
          PROVE  k < slots'[d][u].index
      <4>1. slots[d][u] # None /\ slots[d][u].seed = slots[d][t].seed /\ slots[d][t] # None
        BY <1>1, <1>9, <3>4
      <4>2. u = t
        BY <1>6, <4>1 DEF SeedsAreDistinct
      <4>3. slots'[d][u].index = g.next
        BY <1>3, <4>2
      <4> QED
        BY <1>5, <3>3, <4>3
    <3> QED
      BY <1>1, <1>7, <3>1, <3>3, <3>4
  <2> QED
    BY <2>1, <2>2
<1>14. CachedIsSigned'
  <2> SUFFICES ASSUME NEW e \in Devices, NEW r \in Started, e \in Parties[r],
                      slots'[e][assigned[r][e].stream] # None,
                      slots'[e][assigned[r][e].stream].session = r
               PROVE  Use(r, Segment(assigned[r][e].nonces.index, assigned[r][e].nonces.next,
                          slots'[e][assigned[r][e].stream].seed)) \in signed'[e]
    BY <1>1, <1>7 DEF CachedIsSigned, Use
  <2> DEFINE at == assigned[r][e].stream
  <2>1. at \in Streams
    BY DEF AssignedTypes
  <2>2. CASE e = d /\ at = t
    <3>1. r = s
      BY <1>3, <2>2
    <3>2. assigned[r][e].nonces = g /\ slots'[e][at].seed = v.seed
      BY <1>1, <1>3, <2>2, <3>1
    <3> QED
      BY <1>2, <1>4, <2>2, <3>1, <3>2
  <2>3. CASE e # d \/ at # t
    <3>1. slots'[e][at] = slots[e][at]
      BY <1>3, <2>1, <2>3
    <3>2. Use(r, Segment(assigned[r][e].nonces.index, assigned[r][e].nonces.next,
                         slots[e][at].seed)) \in signed[e]
      BY <1>6, <3>1 DEF CachedIsSigned
    <3> QED
      BY <1>4, <3>1, <3>2
  <2> QED
    BY <2>2, <2>3
<1>15. NoNonceReuse'
  <2>1. ASSUME NEW x \in signed[d],
               NEW k \in (x.nonces.index..(x.nonces.next - 1)) \cap (g.index..(g.next - 1))
        PROVE  x.nonces.nonces[k] # v.seed
    <3>1. k \in Int /\ k >= g.index /\ k \in x.nonces.index..(x.nonces.next - 1)
      BY <1>5
    <3>2. ~(k < v.index)
      BY <1>5, <1>7, <3>1
    <3> QED
      BY <1>10, <3>1, <3>2
  <2>2. ASSUME NEW x \in signed[d],
               NEW k \in (x.nonces.index..(x.nonces.next - 1))
                      \cap (used.index..(used.next - 1))
        PROVE  x.nonces.nonces[k] # used.nonces[k]
    <3>1. k \in g.index..(g.next - 1) /\ used.nonces[k] = v.seed
      BY <1>8
    <3> QED
      BY <2>1, <3>1
  <2> SUFFICES ASSUME NEW e \in Devices, NEW x \in signed'[e], NEW y \in signed'[e],
                      x.session # y.session,
                      NEW k \in (x.nonces.index..(x.nonces.next - 1))
                             \cap (y.nonces.index..(y.nonces.next - 1))
               PROVE  x.nonces.nonces[k] # y.nonces.nonces[k]
    BY DEF NoNonceReuse
  <2>3. CASE x \in signed[e] /\ y \in signed[e]
    BY <1>6, <2>3 DEF NoNonceReuse
  <2>4. CASE x \notin signed[e]
    <3>1. e = d /\ x.session = s /\ x.nonces = used
      BY <1>4, <1>8, <2>4
    <3>2. y \in signed[d]
      BY <1>4, <1>8, <3>1
    <3> QED
      BY <2>2, <3>1, <3>2
  <2>5. CASE y \notin signed[e]
    <3>1. e = d /\ y.session = s /\ y.nonces = used
      BY <1>4, <1>8, <2>5
    <3>2. x \in signed[d]
      BY <1>4, <1>8, <3>1
    <3> QED
      BY <2>2, <3>1, <3>2
  <2> QED
    BY <2>3, <2>4, <2>5
<1> QED
  BY <1>11, <1>12, <1>13, <1>14, <1>15 DEF DeviceInv

\* Shares that are sent: over nonces that are in the ghost, and with a run of
\* nonces that follows.
LEMMA ShareIsSent ==
  ASSUME IInv, NEW d \in Devices, NEW s, NEW t \in Streams, NEW used, NEW after,
         Use(s, used) \in signed'[d], after.index \in Nat, after.seed \in Nat
  PROVE  [type |-> "share", session |-> s, stream |-> t, nonces |-> used,
          replenish |-> Segment(after.index, after.index + Batch, after.seed)] \in Answers(d)'
<1> DEFINE more == Segment(after.index, after.index + Batch, after.seed)
<1>1. more \in Runs
  BY RunFacts, SigningAssumption
<1>2. Use(s, used).session = s /\ Use(s, used).nonces = used
  BY DEF Use
<1> HIDE DEF more
<1>3. [type |-> "share", session |-> s, stream |-> t, nonces |-> used, replenish |-> more]
        \in Answers(d)'
  BY <1>1, <1>2 DEF Answers
<1> QED
  BY <1>3 DEF more

\* What confirming does to a device: nothing but clear the screen, or signing.
SignsOnce(d) ==
  /\ UNCHANGED <<seeds, assigned, status>> /\ parked' = [parked EXCEPT ![d] = None]
  /\ \/ UNCHANGED <<slots, signed>>
     \/ \E s \in Started, t \in Streams : \E v, g, used, after :
          SignsAs(d, s, t, v, g, used, after)

LEMMA ConfirmCases ==
  ASSUME IInv, NEW d \in Devices, Confirm(d)
  PROVE  SignsOnce(d)
<1> DEFINE s == parked[d]
           t == assigned[s][d].stream
           g == assigned[s][d].nonces
           v == slots[d][t]
           after == IF Cached(v, s) THEN v ELSE SlotValue(g.next, v.seed, s)
           used == Segment(g.index, g.next, v.seed)
<1>0. DeviceInv /\ AssignedTypes /\ DeviceTypes /\ CachedIsSigned /\ WireInv
  BY DEF IInv, CoordInv, DeviceInv
<1>1. /\ parked' = [parked EXCEPT ![d] = None]
      /\ UNCHANGED <<cache, status, assigned, sent, shares, seeds, toDevice>>
  BY DEF Confirm, coordVars
<1>2. /\ s \in Started /\ d \in Parties[s] /\ t \in Streams
      /\ g.index \in Nat /\ g.next \in Nat /\ g.index <= g.next
  <2>1. s \in Started /\ d \in Parties[s]
    BY <1>0 DEF Confirm, DeviceTypes
  <2>2. t \in Streams /\ Sized(g)
    BY <1>0, <2>1 DEF AssignedTypes
  <2> QED
    BY <2>1, <2>2 DEF Sized
<1>3. CASE ~(Cached(v, s) \/ Signable(v, g))
  <2>1. UNCHANGED <<slots, signed>>
    BY <1>3 DEF Confirm
  <2> QED
    BY <1>1, <2>1 DEF SignsOnce
<1>4. CASE Cached(v, s) \/ Signable(v, g)
  <2>1. /\ slots' = [slots EXCEPT ![d][t] = after]
        /\ signed' = [signed EXCEPT ![d] = @ \cup {Use(s, used)}]
    BY <1>4 DEF Confirm, Use
  <2>2. /\ v # None /\ v \in [index : Nat, seed : 1..seeds[d], session : {None} \cup Started]
        /\ seeds[d] \in Nat /\ v.index \in Nat /\ v.seed \in Nat
    <3>1. v # None
      BY <1>4 DEF Cached, Signable
    <3> QED
      <4>1. v \in [index : Nat, seed : 1..seeds[d], session : {None} \cup Started]
        BY <1>0, <1>2, <3>1 DEF DeviceTypes
      <4>2. seeds[d] \in Nat
        BY <1>0 DEF DeviceTypes
      <4> HIDE DEF v
      <4> QED
        BY <3>1, <4>1, <4>2
  <2>3. after.index \in Nat /\ after.seed \in Nat /\ after.seed = v.seed
    BY <1>2, <2>2 DEF SlotValue
  <2>4. /\ signed' = [e \in Devices |-> signed'[e]]
        /\ signed'[d] = signed[d] \cup {Use(s, used)}
        /\ \A e \in Devices \ {d} : signed'[e] = signed[e]
    BY <1>0, <2>1 DEF DeviceTypes
  <2>5. SignsOnce(d)
    <3>1. CASE Cached(v, s)
      <4>1. Use(s, used) \in signed[d]
        BY <1>0, <1>2, <3>1 DEF CachedIsSigned, Cached
      <4>2. signed' = signed
        <5>1. \A e \in Devices : signed'[e] = signed[e]
          BY <2>4, <4>1
        <5>2. signed = [e \in Devices |-> signed[e]]
          BY <1>0 DEF DeviceTypes
        <5> HIDE DEF s, used
        <5> QED
          BY <2>4, <5>1, <5>2
      <4>3. slots' = slots
        <5>1. slots' = [slots EXCEPT ![d] = [slots[d] EXCEPT ![t] = slots[d][t]]]
          BY <2>1, <3>1
        <5>2. slots[d] = [u \in Streams |-> slots[d][u]] /\ slots = [e \in Devices |-> slots[e]]
          BY <1>0 DEF DeviceTypes
        <5>3. [slots[d] EXCEPT ![t] = slots[d][t]] = slots[d]
          BY <1>2, <5>2
        <5> QED
          BY <5>1, <5>2, <5>3
      <4> QED
        BY <1>1, <4>2, <4>3 DEF SignsOnce
    <3>2. CASE ~Cached(v, s)
      <4>1. /\ after.index = g.next /\ after.seed = v.seed /\ after.session = s
            /\ after \in [index : Nat, seed : 1..seeds[d], session : {None} \cup Started]
            /\ v.index <= g.index
        BY <1>2, <1>4, <2>2, <3>2 DEF SlotValue, Signable
      <4> HIDE DEF after
      <4>2. slots = [e \in Devices |-> [u \in Streams |-> slots[e][u]]]
        BY <1>0 DEF DeviceTypes
      <4>3. slots' = [slots EXCEPT ![d] = [slots[d] EXCEPT ![t] = after]]
        BY <2>1
      <4> DEFINE row == [slots[d] EXCEPT ![t] = after]
      <4>4. /\ row[t] = after /\ \A u \in Streams \ {t} : row[u] = slots[d][u]
            /\ row = [u \in Streams |-> row[u]]
        <5>1. slots[d] = [u \in Streams |-> slots[d][u]]
          BY <4>2
        <5> QED
          BY <1>2, <5>1
      <4>5. /\ slots' = [e \in Devices |-> slots'[e]]
            /\ slots'[d] = row /\ \A e \in Devices \ {d} : slots'[e] = slots[e]
        BY <4>2, <4>3
      <4> HIDE DEF row
      <4>6. slots' = [e \in Devices |-> [u \in Streams |-> slots'[e][u]]]
        <5>1. \A e \in Devices : slots'[e] = [u \in Streams |-> slots'[e][u]]
          BY <4>2, <4>4, <4>5
        <5> QED
          BY <4>5, <5>1
      <4>7. /\ slots'[d][t] = after
            /\ \A e \in Devices, u \in Streams : e # d \/ u # t => slots'[e][u] = slots[e][u]
        BY <4>4, <4>5
      <4> HIDE DEF s, t, g, v, used
      <4>8. t = assigned[s][d].stream /\ v = slots[d][t] /\ g = assigned[s][d].nonces
            /\ used = Segment(g.index, g.next, v.seed)
        BY DEF t, g, v, used
      <4>9. SignsAs(d, s, t, v, g, used, after)
        <5>1. /\ \A e \in Devices : signed[e] \subseteq signed'[e]
              /\ Use(s, used) \in signed'[d]
              /\ \A e \in Devices : \A x \in signed'[e] :
                   x \notin signed[e] => e = d /\ x = Use(s, used)
          BY <2>4
        <5> QED
          BY <1>1, <1>2, <2>2, <2>4, <4>1, <4>6, <4>7, <4>8, <5>1, Zenon DEF SignsAs
      <4> QED
        BY <1>1, <1>2, <4>9 DEF SignsOnce
    <3> QED
      BY <3>1, <3>2
  <2> QED
    BY <2>5
<1> QED
  BY <1>3, <1>4

LEMMA ConfirmKeeps ==
  ASSUME IInv, NEW d \in Devices, Confirm(d)
  PROVE  IInv'
<1> DEFINE s == parked[d]
           t == assigned[s][d].stream
           g == assigned[s][d].nonces
           v == slots[d][t]
           after == IF Cached(v, s) THEN v ELSE SlotValue(g.next, v.seed, s)
           used == Segment(g.index, g.next, v.seed)
           m == [type |-> "share", session |-> s, stream |-> t, nonces |-> used,
                 replenish |-> Segment(after.index, after.index + Batch, after.seed)]
<1>0. DeviceInv /\ AssignedTypes /\ DeviceTypes /\ CachedIsSigned /\ WireInv
  BY DEF IInv, CoordInv, DeviceInv
<1>1. /\ parked' = [parked EXCEPT ![d] = None]
      /\ UNCHANGED <<cache, status, assigned, sent, shares, seeds, toDevice>>
  BY DEF Confirm, coordVars
<1>2. /\ s \in Started /\ d \in Parties[s] /\ t \in Streams
      /\ g.index \in Nat /\ g.next \in Nat /\ g.index <= g.next
  <2>1. s \in Started /\ d \in Parties[s]
    BY <1>0 DEF Confirm, DeviceTypes
  <2>2. t \in Streams /\ Sized(g)
    BY <1>0, <2>1 DEF AssignedTypes
  <2> QED
    BY <2>1, <2>2 DEF Sized
<1>3. CASE ~(Cached(v, s) \/ Signable(v, g))
  <2>1. UNCHANGED <<slots, signed, toCoord>>
    BY <1>3 DEF Confirm
  <2> QED
    BY <1>1, <2>1, DismissKeeps
<1>4. CASE Cached(v, s) \/ Signable(v, g)
  <2>1. /\ slots' = [slots EXCEPT ![d][t] = after]
        /\ signed' = [signed EXCEPT ![d] = @ \cup {Use(s, used)}]
        /\ toCoord' = [toCoord EXCEPT ![d] = Append(toCoord[d], m)]
    BY <1>0, <1>4 DEF Confirm, Use, WireInv
  <2>2. /\ v # None /\ v \in [index : Nat, seed : 1..seeds[d], session : {None} \cup Started]
        /\ seeds[d] \in Nat /\ v.index \in Nat /\ v.seed \in Nat
    <3>1. v # None
      BY <1>4 DEF Cached, Signable
    <3> QED
      <4>1. v \in [index : Nat, seed : 1..seeds[d], session : {None} \cup Started]
        BY <1>0, <1>2, <3>1 DEF DeviceTypes
      <4>2. seeds[d] \in Nat
        BY <1>0 DEF DeviceTypes
      <4> HIDE DEF v
      <4> QED
        BY <3>1, <4>1, <4>2
  <2>3. after.index \in Nat /\ after.seed \in Nat /\ after.seed = v.seed
    BY <1>2, <2>2 DEF SlotValue
  <2>4. /\ signed' = [e \in Devices |-> signed'[e]]
        /\ signed'[d] = signed[d] \cup {Use(s, used)}
        /\ \A e \in Devices \ {d} : signed'[e] = signed[e]
    BY <1>0, <2>1 DEF DeviceTypes
  <2>5. DeviceInv'
    <3>1. SignsOnce(d)
      BY ConfirmCases
    <3>2. CASE UNCHANGED <<slots, signed>>
      BY <1>0, <1>1, <3>2, Dismissed
    <3>3. CASE ~UNCHANGED <<slots, signed>>
      <4>1. PICK r \in Started, u \in Streams : \E w, h, with, then :
              SignsAs(d, r, u, w, h, with, then)
        BY <3>1, <3>3 DEF SignsOnce
      <4>2. PICK w, h, with, then : SignsAs(d, r, u, w, h, with, then)
        BY <4>1
      <4> QED
        BY ONLY <1>0, <4>2, SigningIsSafe, d \in Devices, r \in Started, u \in Streams
    <3> QED
      BY <3>2, <3>3
  <2>6. m \in Answers(d)'
    <3>1. Use(s, used) \in signed'[d]
      BY <2>4
    <3> HIDE DEF s, t, used, after
    <3> QED
      BY <1>2, <2>3, <3>1, ShareIsSent
  <2>7. /\ toDevice' = [toDevice EXCEPT ![d] = toDevice[d]] /\ toDevice[d] \in Seq(Requests(d))
        /\ \A e \in Devices : signed[e] \subseteq signed'[e]
    BY <1>0, <1>1, <2>4 DEF WireInv
  <2>8. Append(toCoord[d], m) \in Seq(Answers(d)')
    <3>1. toCoord[d] \in Seq(Answers(d)')
      <4>1. Started' = Started
        BY <1>1 DEF Started
      <4> QED
        BY <1>0, <2>7, <4>1, WireGrows DEF WireInv
    <3> HIDE DEF m
    <3> QED
      BY <2>6, <3>1, QueueFacts
  <2> HIDE DEF m
  <2> QED
    BY <1>1, <2>1, <2>5, <2>7, <2>8, DeviceSteps
<1> QED
  BY <1>3, <1>4

\* Streams opened in one go are told apart by how many are not after them.
LEMMA RankFacts ==
  ASSUME NEW new \in SUBSET Streams
  PROVE  /\ Cardinality(new) \in Nat
         /\ \A t \in new : Cardinality({u \in new : u <= t}) \in 1..Cardinality(new)
         /\ \A t, u \in new :
              Cardinality({w \in new : w <= t}) = Cardinality({w \in new : w <= u}) => t = u
<1> DEFINE upTo(t) == {u \in new : u <= t}
<1>1. IsFiniteSet(new) /\ Cardinality(new) \in Nat /\ new \in SUBSET Nat
  BY SigningAssumption, FS_Subset, FS_CardinalityType
<1>2. ASSUME NEW t \in new
      PROVE  IsFiniteSet(upTo(t)) /\ Cardinality(upTo(t)) \in 1..Cardinality(new)
  <2>1. upTo(t) \in SUBSET new /\ t \in upTo(t)
    BY <1>1
  <2> HIDE DEF upTo
  <2>2. IsFiniteSet(upTo(t)) /\ Cardinality(upTo(t)) <= Cardinality(new)
    BY <1>1, <2>1, FS_Subset
  <2>3. Cardinality(upTo(t)) \in Nat /\ Cardinality(upTo(t)) # 0
    BY <2>1, <2>2, FS_CardinalityType, FS_EmptySet
  <2> QED
    BY <1>1, <2>2, <2>3
<1>3. ASSUME NEW t \in new, NEW u \in new, t < u
      PROVE  Cardinality(upTo(t)) # Cardinality(upTo(u))
  <2>1. u \in upTo(u) /\ u \notin upTo(t)
    BY <1>1, <1>3
  <2>3. \A w \in new : w <= t => w <= u
    BY <1>1, <1>3
  <2>4. upTo(t) \in SUBSET upTo(u)
    BY <2>3
  <2>2. IsFiniteSet(upTo(u))
    BY <1>2
  <2> HIDE DEF upTo
  <2> QED
    BY <2>1, <2>2, <2>4, FS_Subset
<1>4. ASSUME NEW t \in new, NEW u \in new, Cardinality(upTo(t)) = Cardinality(upTo(u))
      PROVE  t = u
  <2> HIDE DEF upTo
  <2>1. ~(t < u) /\ ~(u < t)
    BY <1>3, <1>4
  <2> QED
    BY <1>1, <2>1
<1> QED
  BY <1>1, <1>2, <1>4

\* Streams are opened on device d with seeds it has just drawn.
Opens(d, new, drew, rank) ==
  /\ UNCHANGED <<signed, assigned, status, parked>>
  /\ new \subseteq Streams /\ \A t \in new : slots[d][t] = None
  /\ drew \in Nat /\ \A t \in new : rank[t] \in 1..drew
  /\ \A t, u \in new : rank[t] = rank[u] => t = u
  /\ seeds' \in [Devices -> Nat] /\ seeds'[d] = seeds[d] + drew
  /\ \A e \in Devices \ {d} : seeds'[e] = seeds[e]
  /\ slots' = [e \in Devices |-> [u \in Streams |-> slots'[e][u]]]
  /\ \A e \in Devices \ {d}, t \in Streams : slots'[e][t] = slots[e][t]
  /\ \A t \in Streams \ new : slots'[d][t] # None => slots'[d][t] = slots[d][t]
  /\ \A t \in new : slots'[d][t] # None =>
       slots'[d][t] = SlotValue(0, seeds[d] + rank[t], None)

LEMMA OpeningIsSafe ==
  ASSUME DeviceInv, AssignedTypes, NEW d \in Devices, NEW new, NEW drew, NEW rank,
         Opens(d, new, drew, rank)
  PROVE  DeviceInv'
<1> USE DEF DeviceInv
<1>3. /\ UNCHANGED <<signed, assigned, status, parked>>
      /\ drew \in Nat /\ seeds'[d] = seeds[d] + drew
      /\ \A e \in Devices \ {d} : seeds'[e] = seeds[e]
      /\ \A t, u \in new : rank[t] = rank[u] => t = u
      /\ slots' = [e \in Devices |-> [u \in Streams |-> slots'[e][u]]]
      /\ seeds' \in [Devices -> Nat] /\ Started' = Started
  BY DEF Opens, Started
<1>1. \A e \in Devices : seeds[e] \in Nat /\ seeds'[e] \in Nat /\ seeds[e] <= seeds'[e]
  <2>1. seeds \in [Devices -> Nat]
    BY DEF DeviceTypes
  <2> QED
    BY <1>3, <2>1
<1>2. ASSUME NEW e \in Devices, NEW t \in Streams, slots'[e][t] # None
      PROVE  \/ slots'[e][t] = slots[e][t] /\ ~(e = d /\ t \in new)
             \/ /\ e = d /\ t \in new /\ rank[t] \in 1..drew
                /\ slots'[e][t].seed = seeds[d] + rank[t] /\ slots'[e][t].session = None
                /\ slots'[e][t] \in [index : Nat, seed : 1..seeds'[e], session : {None}]
  <2>1. CASE e # d
    BY <2>1 DEF Opens
  <2>2. CASE e = d /\ t \notin new
    BY <1>2, <2>2 DEF Opens
  <2>3. CASE e = d /\ t \in new
    <3>1. slots'[d][t] = SlotValue(0, seeds[d] + rank[t], None) /\ rank[t] \in 1..drew
      BY <1>2, <2>3 DEF Opens
    <3>2. seeds[d] + rank[t] \in 1..seeds'[d]
      BY <1>1, <1>3, <3>1
    <3> QED
      BY <2>3, <3>1, <3>2 DEF SlotValue
  <2> QED
    BY <2>1, <2>2, <2>3
<1>4. \A e \in Devices, t \in Streams : slots[e][t] # None =>
        slots[e][t] \in [index : Nat, seed : 1..seeds[e], session : {None} \cup Started]
  BY DEF DeviceTypes
<1>5. DeviceTypes'
  <2>1. ASSUME NEW e \in Devices, NEW t \in Streams, slots'[e][t] # None
        PROVE  slots'[e][t] \in [index : Nat, seed : 1..seeds'[e], session : {None} \cup Started]
    <3>1. CASE slots'[e][t] = slots[e][t]
      BY <1>1, <1>4, <2>1, <3>1
    <3>2. CASE slots'[e][t] # slots[e][t]
      BY <1>1, <1>2, <1>3, <2>1, <3>2
    <3> QED
      BY <3>1, <3>2
  <2> QED
    BY <1>3, <2>1 DEF DeviceTypes
<1>6. SeedsAreDistinct'
  <2> SUFFICES ASSUME NEW e \in Devices, NEW t \in Streams, NEW u \in Streams,
                      slots'[e][t] # None, slots'[e][u] # None,
                      slots'[e][t].seed = slots'[e][u].seed
               PROVE  t = u
    BY DEF SeedsAreDistinct
  <2>1. CASE e = d /\ t \in new /\ u \in new
    <3>1. /\ slots'[e][t].seed = seeds[d] + rank[t] /\ rank[t] \in 1..drew
          /\ slots'[e][u].seed = seeds[d] + rank[u] /\ rank[u] \in 1..drew
      BY <1>2, <2>1
    <3>2. rank[t] = rank[u]
      <4>1. seeds[d] + rank[t] = seeds[d] + rank[u]
        BY <3>1
      <4>2. seeds[d] \in Nat /\ rank[t] \in Int /\ rank[u] \in Int
        BY <1>1, <1>3, <3>1
      <4> QED
        BY <4>1, <4>2
    <3> QED
      BY <1>3, <2>1, <3>2
  <2>2. CASE ~(e = d /\ t \in new) /\ ~(e = d /\ u \in new)
    BY <1>2, <2>2 DEF SeedsAreDistinct
  <2>3. CASE e = d /\ t \in new /\ u \notin new
    <3>1. slots[e][u] # None /\ slots'[e][u].seed \in 1..seeds[d]
      BY <1>2, <1>4, <2>3
    <3>2. slots'[e][t].seed = seeds[d] + rank[t] /\ rank[t] \in 1..drew
      BY <1>2, <2>3
    <3> QED
      BY <1>1, <1>3, <3>1, <3>2
  <2>4. CASE e = d /\ t \notin new /\ u \in new
    <3>1. slots[e][t] # None /\ slots'[e][t].seed \in 1..seeds[d]
      BY <1>2, <1>4, <2>4
    <3>2. slots'[e][u].seed = seeds[d] + rank[u] /\ rank[u] \in 1..drew
      BY <1>2, <2>4
    <3> QED
      BY <1>1, <1>3, <3>1, <3>2
  <2> QED
    BY <2>1, <2>2, <2>3, <2>4
<1>7. SpentIsBehind'
  <2> SUFFICES ASSUME NEW e \in Devices, NEW x \in signed[e],
                      NEW k \in x.nonces.index..(x.nonces.next - 1)
               PROVE  /\ x.nonces.nonces[k] \in 1..seeds'[e]
                      /\ \A t \in Streams :
                           slots'[e][t] # None /\ slots'[e][t].seed = x.nonces.nonces[k] =>
                             k < slots'[e][t].index
    BY <1>3 DEF SpentIsBehind
  <2>1. /\ x.nonces.nonces[k] \in 1..seeds[e]
        /\ \A t \in Streams : slots[e][t] # None /\ slots[e][t].seed = x.nonces.nonces[k] =>
             k < slots[e][t].index
    BY DEF SpentIsBehind
  <2>2. ASSUME NEW t \in Streams, slots'[e][t] # None, slots'[e][t].seed = x.nonces.nonces[k]
        PROVE  k < slots'[e][t].index
    <3>1. CASE slots'[e][t] = slots[e][t]
      BY <2>1, <2>2, <3>1
    <3>2. CASE e = d /\ slots'[e][t].seed = seeds[d] + rank[t] /\ rank[t] \in 1..drew
      BY <1>1, <1>3, <2>1, <2>2, <3>2
    <3> QED
      BY <1>2, <2>2, <3>1, <3>2
  <2> QED
    BY <1>1, <2>1, <2>2
<1>8. CachedIsSigned'
  <2> SUFFICES ASSUME NEW e \in Devices, NEW s \in Started, e \in Parties[s],
                      slots'[e][assigned[s][e].stream] # None,
                      slots'[e][assigned[s][e].stream].session = s
               PROVE  Use(s, Segment(assigned[s][e].nonces.index, assigned[s][e].nonces.next,
                          slots'[e][assigned[s][e].stream].seed)) \in signed[e]
    BY <1>3 DEF CachedIsSigned, Use
  <2>1. assigned[s][e].stream \in Streams /\ s # None
    BY SigningAssumption DEF AssignedTypes, Started
  <2>2. slots'[e][assigned[s][e].stream] = slots[e][assigned[s][e].stream]
    BY <1>2, <2>1
  <2> QED
    BY <2>2 DEF CachedIsSigned
<1>9. NoNonceReuse'
  BY <1>3 DEF NoNonceReuse
<1> QED
  BY <1>5, <1>6, <1>7, <1>8, <1>9

\* Opening streams keeps the invariant, and opens them with fresh seeds.
LEMMA RecvOpenKeeps ==
  ASSUME IInv, NEW d \in Devices, RecvOpen(d)
  PROVE  IInv' /\ \E new, drew, rank : Opens(d, new, drew, rank)
<1> DEFINE claims == Message(d).claims
<1>0. DeviceInv /\ DeviceTypes /\ AssignedTypes /\ WireInv
  BY DEF IInv, DeviceInv, CoordInv
<1>1. /\ Handling(d, "open")
      /\ UNCHANGED <<cache, status, assigned, sent, shares, parked, signed>>
  BY DEF RecvOpen, coordVars
<1>2. DOMAIN claims \in SUBSET Streams /\ \A t \in DOMAIN claims : claims[t].index \in Nat
  <2>1. claims \in Claims
    <3>1. Message(d) \in Requests(d) /\ Message(d).type = "open"
      BY <1>1, Handled
    <3> QED
      BY <3>1 DEF Requests
  <2>2. PICK T \in SUBSET Streams : claims \in [T -> [index : Nat, remaining : Nat]]
    BY <2>1 DEF Claims
  <2> HIDE DEF claims
  <2> QED
    BY <2>2
<1> DEFINE new(served) == served \ Held(d)
           rank(served, t) == Cardinality({u \in new(served) : u <= t})
           value(served, t) == IF t \in new(served) THEN SlotValue(0, seeds[d] + rank(served, t), None)
                               ELSE slots[d][t]
           worked(served) == {t \in served : ToSend(value(served, t), claims[t]) > 0}
           answer(served) == [t \in worked(served) |->
             Segment(value(served, t).index,
                     value(served, t).index + ToSend(value(served, t), claims[t]),
                     value(served, t).seed)]
           m(served) == [type |-> "nonces", segments |-> answer(served)]
<1>3. PICK served \in SUBSET (DOMAIN claims), lost \in SUBSET Streams :
        /\ slots' = [slots EXCEPT ![d] = [t \in Streams |->
             IF t \in lost THEN None
             ELSE IF t \in new(served) THEN value(served, t) ELSE @[t]]]
        /\ seeds' = [seeds EXCEPT ![d] = @ + Cardinality(new(served))]
        /\ toCoord' = [toCoord EXCEPT ![d] = Append(@, m(served))]
  BY DEF RecvOpen
<1> DEFINE ranks == [t \in new(served) |-> rank(served, t)]
           drew == Cardinality(new(served))
<1>4. /\ new(served) \in SUBSET Streams /\ drew \in Nat
      /\ \A t \in new(served) : ranks[t] = rank(served, t) /\ ranks[t] \in 1..drew
      /\ \A t, u \in new(served) : ranks[t] = ranks[u] => t = u
  <2>1. new(served) \in SUBSET Streams
    BY <1>2
  <2> DEFINE opened == new(served)
  <2> HIDE DEF new
  <2>2. /\ Cardinality(opened) \in Nat
        /\ \A t \in opened : Cardinality({u \in opened : u <= t}) \in 1..Cardinality(opened)
        /\ \A t, u \in opened :
             Cardinality({w \in opened : w <= t}) = Cardinality({w \in opened : w <= u}) => t = u
    <3> HIDE DEF opened
    <3> QED
      BY <2>1, RankFacts DEF opened
  <2> QED
    BY <2>1, <2>2
<1>5. seeds[d] \in Nat /\ \A t \in new(served) : slots[d][t] = None
  BY <1>0, <1>4 DEF DeviceTypes, Held
<1>6. Opens(d, new(served), drew, ranks)
  <2>1. /\ seeds' \in [Devices -> Nat] /\ seeds'[d] = seeds[d] + drew
        /\ \A e \in Devices \ {d} : seeds'[e] = seeds[e]
    BY <1>0, <1>3, <1>4 DEF DeviceTypes
  <2> DEFINE row == [t \in Streams |-> IF t \in lost THEN None
                                       ELSE IF t \in new(served) THEN value(served, t) ELSE slots[d][t]]
  <2>2. /\ slots' = [e \in Devices |-> slots'[e]] /\ slots'[d] = row
        /\ \A e \in Devices \ {d} : slots'[e] = slots[e]
    BY <1>0, <1>3 DEF DeviceTypes
  <2>3. /\ row = [t \in Streams |-> row[t]]
        /\ \A t \in Streams \ new(served) : row[t] # None => row[t] = slots[d][t]
        /\ \A t \in new(served) : row[t] # None => row[t] = SlotValue(0, seeds[d] + ranks[t], None)
    BY <1>4
  <2> HIDE DEF row
  <2>4. slots' = [e \in Devices |-> [t \in Streams |-> slots'[e][t]]]
    <3>1. \A e \in Devices : slots'[e] = [t \in Streams |-> slots'[e][t]]
      BY <1>0, <2>2, <2>3 DEF DeviceTypes
    <3> QED
      BY <2>2, <3>1
  <2> HIDE DEF new, ranks, drew
  <2> QED
    BY <1>1, <1>4, <1>5, <2>1, <2>2, <2>3, <2>4 DEF Opens
<1>10. DeviceInv' /\ \E fresh, n, at : Opens(d, fresh, n, at)
  <2> HIDE DEF new, ranks, drew
  <2> QED
    BY <1>0, <1>6, OpeningIsSafe
<1>7. m(served) \in Answers(d)'
  <2>1. ASSUME NEW t \in worked(served)
        PROVE  /\ t \in Streams
               /\ Segment(value(served, t).index,
                          value(served, t).index + ToSend(value(served, t), claims[t]),
                          value(served, t).seed) \in Runs
    <3>1. t \in served /\ t \in Streams /\ claims[t].index \in Nat
          /\ ToSend(value(served, t), claims[t]) > 0
      BY <1>2
    <3>2. value(served, t).index \in Nat /\ value(served, t).seed \in Nat
      <4>1. CASE t \in new(served)
        <5>1. seeds[d] + rank(served, t) \in Nat
          BY <1>4, <1>5, <4>1
        <5> HIDE DEF rank, new
        <5> QED
          BY <4>1, <5>1 DEF SlotValue
      <4>2. CASE t \notin new(served)
        <5>1. slots[d][t] # None
          BY <3>1, <4>2 DEF Held
        <5> HIDE DEF rank, new
        <5> QED
          BY <1>0, <3>1, <4>2, <5>1 DEF DeviceTypes
      <4> QED
        BY <4>1, <4>2
    <3> DEFINE v == value(served, t)
               n == ToSend(v, claims[t])
    <3> HIDE DEF value
    <3>3. n \in Nat
      <4>1. n \in Int
        BY <3>1, <3>2, SigningAssumption DEF ToSend, Lesser
      <4> QED
        BY <3>1, <4>1
    <3> HIDE DEF n
    <3>4. v.index + n \in Nat /\ v.index <= v.index + n
      BY <3>2, <3>3
    <3>5. Segment(v.index, v.index + n, v.seed) \in Runs
      BY <3>2, <3>4, RunFacts
    <3> QED
      BY <3>1, <3>5 DEF n
  <2>2. answer(served) \in [worked(served) -> Runs] /\ worked(served) \in SUBSET Streams
    <3> HIDE DEF worked, value
    <3> QED
      BY <2>1
  <2> HIDE DEF answer, worked
  <2>3. answer(served) \in Batches
    BY <2>2 DEF Batches
  <2> QED
    BY <2>3 DEF Answers
<1> HIDE DEF m
<1>8. Append(toCoord[d], m(served)) \in Seq(Answers(d)')
  <2>1. Started' = Started /\ signed[d] \subseteq signed'[d] /\ toDevice[d] \in Seq(Requests(d))
    BY <1>0, <1>1 DEF Started, WireInv
  <2>2. toCoord[d] \in Seq(Answers(d)')
    BY <1>0, <2>1, WireGrows DEF WireInv
  <2> QED
    BY <1>7, <2>2, QueueFacts
<1>9. /\ toCoord' = [toCoord EXCEPT ![d] = Append(toCoord[d], m(served))]
      /\ \A e \in Devices : signed[e] \subseteq signed'[e]
  BY <1>0, <1>1, <1>3 DEF WireInv
<1>11. IInv'
  BY <1>1, <1>10, <1>8, <1>9, Handled, DeviceSteps
<1> QED
  BY <1>10, <1>11

-------------------------------------------------------------------------------
LEMMA StepKeepsInv == IInv /\ [Next]_vars => IInv'
<1> SUFFICES ASSUME IInv, [Next]_vars PROVE IInv'
  OBVIOUS
<1>1. ASSUME NEW s \in Sessions, StartSign(s) PROVE IInv'
  BY <1>1, StartSignKeeps
<1>2. CASE (\E s \in Sessions : Cancel(s)) \/ CancelAll
  BY <1>2, CancelKeeps
<1>3. ASSUME NEW s \in Sessions, NEW d \in Devices, RequestDeviceSign(s, d) PROVE IInv'
  BY <1>3, RequestDeviceSignKeeps
<1>4. ASSUME NEW d \in Devices, OpenStreams(d) PROVE IInv'
  BY <1>4, OpenStreamsKeeps
<1>5. ASSUME NEW d \in Devices, RecvNonceResponse(d) PROVE IInv'
  BY <1>5, RecvNonceResponseKeeps
<1>6. ASSUME NEW d \in Devices, RecvShare(d) PROVE IInv'
  BY <1>6, RecvShareKeeps
<1>7. ASSUME NEW d \in Devices, LateShare(d) PROVE IInv'
  BY <1>7, LateShareKeeps
<1>8. ASSUME NEW d \in Devices, RecvOpen(d) PROVE IInv'
  BY <1>8, RecvOpenKeeps
<1>9. ASSUME NEW d \in Devices, RecvRequest(d) PROVE IInv'
  BY <1>9, RecvRequestKeeps
<1>10. ASSUME NEW d \in Devices, Confirm(d) PROVE IInv'
  BY <1>10, ConfirmKeeps
<1>11. ASSUME NEW d \in Devices, Decline(d) PROVE IInv'
  BY <1>11, DismissKeeps DEF Decline, coordVars
<1>12. ASSUME NEW d \in Devices, Unplug(d) \/ UseElsewhere(d) PROVE IInv'
  BY <1>12, UnplugKeeps
<1>13. CASE UNCHANGED vars
  <2>1. UNCHANGED <<cache, status, assigned, sent, shares, deviceVars, toDevice, toCoord>>
    BY <1>13 DEF vars, coordVars
  <2>2. CoordInv' /\ Started' = Started
    BY <2>1, BooksKept DEF IInv, deviceVars
  <2>3. DeviceInv'
    BY <2>1, <2>2, DeviceKept DEF IInv, CoordInv
  <2>4. WireInv'
    BY <2>1, <2>2, WireSame DEF IInv, deviceVars
  <2> QED
    BY <2>2, <2>3, <2>4 DEF IInv
<1> QED
  BY <1>1, <1>2, <1>3, <1>4, <1>5, <1>6, <1>7, <1>8, <1>9, <1>10, <1>11, <1>12, <1>13 DEF Next

(* The invariant holds in every state, for any devices, streams and sessions, *)
(* any batch size and any number of slots: with devices that are used with   *)
(* other hosts, that are unplugged, that give streams up, and with every     *)
(* order in which requests and answers are handled.                          *)
THEOREM Invariant == Spec => []IInv
<1>1. Init => IInv
  BY InitInv
<1>2. IInv /\ [Next]_vars => IInv'
  BY StepKeepsInv
<1> QED
  BY <1>1, <1>2, PTL DEF Spec

(* A device never signs two sessions with one nonce (sign_ack and the slots  *)
(* of device_nonces.rs), although it trusts the indexes it is asked for.     *)
THEOREM NoncesSignOneSession == Spec => []NoNonceReuse
<1>1. IInv => NoNonceReuse
  BY DEF IInv, DeviceInv
<1> QED
  BY <1>1, Invariant, PTL

(* Two sessions under way never draw on one stream of a device (start_sign   *)
(* and all_used_nonce_streams).                                              *)
THEOREM SessionsAreDisjoint == Spec => []ActiveNoncesAreDisjoint
<1>1. IInv => ActiveNoncesAreDisjoint
  BY DEF IInv, CoordInv
<1> QED
  BY <1>1, Invariant, PTL

(* A finished session was signed by each of its parties, over the nonces it  *)
(* was started with (SignatureShare and verify_signature_share).             *)
THEOREM FinishedWasSigned == Spec => []FinishedIsUnanimous
<1>1. IInv => FinishedIsUnanimous
  BY DEF IInv, CoordInv, SharesAreSigned, FinishedIsUnanimous, Use
<1> QED
  BY <1>1, Invariant, PTL
-------------------------------------------------------------------------------
(* A device that serves this coordinator alone, and has a slot for every     *)
(* stream it is asked for: it never gives one up, and what the coordinator   *)
(* caches follows it.                                                        *)
OneHost == ~OtherHosts /\ Cardinality(Streams) <= NSlots

\* An entry that is not there is no entry: Option::None is not a Some.
NoneIsNothing ==
  /\ \A i, n, f : None # [index |-> i, next |-> n, nonces |-> f]
  /\ \A i, x, s : None # [index |-> i, seed |-> x, session |-> s]
  /\ \A s, i : None # [session |-> s, first |-> i]

Genuine(g, seed) == \A k \in g.index..(g.next - 1) : g.nonces[k] = seed

\* The cache reaches from behind the slot's index to at most one batch past it.
Follows(c, v) ==
  /\ c # None => /\ v # None /\ v.index <= c.next /\ c.next <= v.index + Batch
                 /\ Genuine(c, v.seed)
  /\ c = None /\ v # None => v.index = 0

CacheFollows == \A d \in Devices, t \in Streams : Follows(cache[d][t], slots[d][t])

\* The nonces of stream t in an answer.
Carries(m, t) ==
  (m.type = "nonces" /\ t \in DOMAIN m.segments) \/ (m.type = "share" /\ m.stream = t)
Carried(m, t) == IF m.type = "nonces" THEN m.segments[t] ELSE m.replenish

\* They are one batch, from where the slot stood, and end where the cache
\* does or later.
Refills(c, v, g) ==
  /\ v # None
  /\ g.index \in 0..v.index /\ g = Segment(g.index, g.index + Batch, v.seed)
  /\ c # None => c.next <= g.next

GoesOn(q, t, g) ==
  \A j \in 1..Len(q) : Carries(q[j], t) => g.index <= Carried(q[j], t).index

AnswersOf(q, t, c, v) ==
  \A i \in 1..Len(q) : Carries(q[i], t) =>
    /\ Refills(c, v, Carried(q[i], t))
    /\ \A j \in (i + 1)..Len(q) : Carries(q[j], t) => Carried(q[i], t).index <= Carried(q[j], t).index

AnswersFollow ==
  \A d \in Devices, t \in Streams : AnswersOf(toCoord[d], t, cache[d][t], slots[d][t])

\* A claim of a batch or more starts at the slot's index or before it.
Covered(claim, v) ==
  claim.remaining < Batch \/ (v # None /\ claim.index + claim.remaining <= v.index + Batch)

ClaimsOf(q, row) ==
  \A i \in 1..Len(q) : q[i].type = "open" =>
    \A t \in DOMAIN q[i].claims : Covered(q[i].claims[t], row[t])

ClaimsFollow == \A d \in Devices : ClaimsOf(toDevice[d], slots[d])

\* The nonces a session was given are in the cache for as long as it is open,
\* and never past its end.
AssignedAreCached ==
  \A s \in Started : \A d \in Parties[s] :
    LET c == cache[d][assigned[s][d].stream]
        g == assigned[s][d].nonces
    IN c # None /\ g.next <= c.next /\ (s \in Active => c.index <= g.next)

\* After an open session, no other is asked for that draws on its stream.
HasSigned(d, s) == \E e \in signed[d] : e.session = s
Apart(d, s, r) == r # s => assigned[r][d].stream # assigned[s][d].stream
AllApart(q, d, s) == \A i \in 1..Len(q) : q[i].type = "sign" => Apart(d, s, q[i].session)
Behind(q, d, s) ==
  \A i, j \in 1..Len(q) :
    i < j /\ q[i].type = "sign" /\ q[i].session = s /\ q[j].type = "sign" => Apart(d, s, q[j].session)

InOrder(d, s, q, p) ==
  /\ HasSigned(d, s) /\ p # None => Apart(d, s, p)
  /\ HasSigned(d, s) \/ p = s => AllApart(q, d, s)
  /\ Behind(q, d, s)

AskedInOrder ==
  \A d \in Devices : \A s \in Active : d \in Parties[s] => InOrder(d, s, toDevice[d], parked[d])

SignedAreStarted == \A d \in Devices : \A e \in signed[d] : e.session \in Started

HostInv == /\ CacheFollows /\ AnswersFollow /\ ClaimsFollow /\ AssignedAreCached
           /\ AskedInOrder /\ SignedAreStarted /\ SignedIsReplayable

-------------------------------------------------------------------------------
(* Segments.                                                                 *)
LEMMA SegmentIs ==
  ASSUME NEW i \in Nat, NEW seed
  PROVE  /\ Segment(i, i + Batch, seed).index = i /\ Segment(i, i + Batch, seed).next = i + Batch
         /\ Sized(Segment(i, i + Batch, seed)) /\ Genuine(Segment(i, i + Batch, seed), seed)
  BY SigningAssumption DEF Segment, Sized, Genuine

LEMMA RefillIs ==
  ASSUME NEW c, NEW v, v # None => v.index \in Nat, NEW g, Refills(c, v, g)
  PROVE  /\ v # None /\ g.index \in Nat /\ g.index <= v.index /\ g.next = g.index + Batch
         /\ Sized(g) /\ Genuine(g, v.seed) /\ (c # None => c.next <= g.next)
<1>1. v # None /\ g.index \in Nat /\ g.index <= v.index /\ (c # None => c.next <= g.next)
  BY DEF Refills
<1>2. g = Segment(g.index, g.index + Batch, v.seed)
  BY Zenon DEF Refills
<1> QED
  BY <1>1, <1>2, SegmentIs

LEMMA RefillIsSegment ==
  ASSUME NEW c, NEW v, NEW g, Refills(c, v, g)
  PROVE  \E i, n, f : g = [index |-> i, next |-> n, nonces |-> f]
  BY DEF Refills, Segment

\* extend_segment with a refill: the entry then ends where the refill does,
\* and has lost nothing that it held.
LEMMA ExtendFollows ==
  ASSUME NoneIsNothing, NEW c, c = None \/ Sized(c), NEW v, v # None => v.index \in Nat, Follows(c, v),
         NEW g, Refills(c, v, g),
         NEW h, h = Extend(IF c = None THEN NoNonces ELSE c, g)
  PROVE  /\ h # None /\ Follows(h, v) /\ h.next = g.next
         /\ \A n \in Nat : c # None /\ c.index <= n /\ n <= c.next => h.index <= n
<1>1. /\ v # None /\ g.index \in Nat /\ g.index <= v.index /\ g.next = g.index + Batch
      /\ Sized(g) /\ Genuine(g, v.seed) /\ (c # None => c.next <= g.next)
      /\ Batch \in Nat \ {0} /\ v.index \in Nat
  BY RefillIs, SigningAssumption
<1>2. CASE c = None \/ IsEmpty(c)
  <2>1. h = g
    BY <1>1, <1>2 DEF Extend, NoNonces, IsEmpty, Size, Sized
  <2>2. v.index <= g.next /\ g.next <= v.index + Batch
    <3>1. CASE c = None
      BY <1>1, <3>1 DEF Follows
    <3>2. CASE c # None
      <4>1. v.index <= c.next /\ c.next <= g.next /\ c.next \in Nat
        BY <1>1, <3>2 DEF Follows, Sized
      <4> QED
        BY <1>1, <4>1
    <3> QED
      BY <3>1, <3>2
  <2>3. \A n \in Nat : c # None /\ c.index <= n /\ n <= c.next => g.index <= n
    BY <1>1, <1>2 DEF Follows, IsEmpty, Sized
  <2>4. g # None
    BY RefillIsSegment DEF NoneIsNothing
  <2>5. Follows(g, v)
    BY <1>1, <2>2, <2>4 DEF Follows
  <2> QED
    BY <2>1, <2>3, <2>4, <2>5
<1>3. CASE c # None /\ ~IsEmpty(c)
  <2>1. /\ Sized(c) /\ v.index <= c.next /\ c.next <= g.next /\ Genuine(c, v.seed)
    BY <1>1, <1>3 DEF Follows
  <2>2. Connected(c, g)
    BY <1>1, <2>1 DEF Connected, Sized
  <2> DEFINE first == Lesser(c.index, g.index)
  <2>3. Greater(c.next, g.next) = g.next
    BY <1>1, <2>1 DEF Greater, Sized
  <2> DEFINE merged == [k \in first..(g.next - 1) |->
                          IF k \in c.index..(c.next - 1) THEN c.nonces[k] ELSE g.nonces[k]]
  <2>4. h = [index |-> first, next |-> g.next, nonces |-> merged]
    BY <1>3, <2>2, <2>3 DEF Extend
  <2>5. first \in Nat /\ first <= c.index /\ first <= g.index /\ first \in {c.index, g.index}
    BY <1>1, <2>1 DEF Lesser, Sized
  <2> HIDE DEF first, merged
  <2>6. h.index = first /\ h.next = g.next /\ h.nonces = merged
    BY <2>4
  <2>7. ASSUME NEW k \in h.index..(h.next - 1)
        PROVE  h.nonces[k] = v.seed
    <3>1. k \in first..(g.next - 1) /\ k \in Int
      BY <2>6, <1>1, <2>5
    <3>2. h.nonces[k] = IF k \in c.index..(c.next - 1) THEN c.nonces[k] ELSE g.nonces[k]
      BY <2>6, <3>1, Zenon DEF merged
    <3>3. CASE k \in c.index..(c.next - 1)
      BY <2>1, <3>2, <3>3 DEF Genuine
    <3>4. CASE k \notin c.index..(c.next - 1)
      <4>1. k \in g.index..(g.next - 1)
        BY <1>1, <2>1, <2>5, <3>1, <3>4 DEF Sized
      <4> QED
        BY <1>1, <3>2, <3>4, <4>1 DEF Genuine
    <3> QED
      BY <3>3, <3>4
  <2>8. Genuine(h, v.seed)
    BY <2>7 DEF Genuine
  <2>9. v.index <= g.next /\ g.next <= v.index + Batch
    BY <1>1, <2>1 DEF Sized
  <2>10. \A n \in Nat : c.index <= n => first <= n
    BY <2>1, <2>5 DEF Sized
  <2>11. h # None
    BY <2>4 DEF NoneIsNothing
  <2>12. Follows(h, v)
    BY <1>1, <2>6, <2>8, <2>9, <2>11 DEF Follows
  <2> QED
    BY <2>6, <2>10, <2>11, <2>12
<1> QED
  BY <1>2, <1>3
-------------------------------------------------------------------------------
(* Channels, message by message.                                             *)
LEMMA TailFacts ==
  ASSUME NEW S, NEW q \in Seq(S), q # <<>>
  PROVE  /\ Len(Tail(q)) = Len(q) - 1 /\ Len(q) \in Nat \ {0} /\ Head(q) = q[1]
         /\ \A i \in 1..Len(Tail(q)) : i + 1 \in 2..Len(q) /\ Tail(q)[i] = q[i + 1]
<1>1. Len(q) \in Nat \ {0} /\ Head(q) = q[1]
  OBVIOUS
<1> QED
  BY <1>1, HeadTailProperties

LEMMA AppendFacts ==
  ASSUME NEW S, NEW q \in Seq(S), NEW m
  PROVE  /\ Len(Append(q, m)) = Len(q) + 1 /\ Len(q) \in Nat
         /\ \A i \in 1..Len(q) : Append(q, m)[i] = q[i]
         /\ Append(q, m)[Len(q) + 1] = m
  OBVIOUS

LEMMA AnswersTail ==
  ASSUME NEW S, NEW q \in Seq(S), q # <<>>, NEW t, NEW c, NEW v, AnswersOf(q, t, c, v)
  PROVE  /\ AnswersOf(Tail(q), t, c, v)
         /\ Carries(Head(q), t) => /\ Refills(c, v, Carried(Head(q), t))
                                   /\ GoesOn(Tail(q), t, Carried(Head(q), t))
<1> DEFINE r == Tail(q)
<1>1. /\ Len(r) = Len(q) - 1 /\ Len(q) \in Nat \ {0} /\ Head(q) = q[1]
      /\ \A i \in 1..Len(r) : i + 1 \in 2..Len(q) /\ r[i] = q[i + 1]
  BY TailFacts
<1> HIDE DEF r
<1>2. AnswersOf(r, t, c, v)
  <2> SUFFICES ASSUME NEW i \in 1..Len(r), Carries(r[i], t)
               PROVE  /\ Refills(c, v, Carried(r[i], t))
                      /\ \A j \in (i + 1)..Len(r) : Carries(r[j], t) =>
                           Carried(r[i], t).index <= Carried(r[j], t).index
    BY DEF AnswersOf
  <2>1. i + 1 \in 1..Len(q) /\ r[i] = q[i + 1]
    BY <1>1
  <2>2. /\ Refills(c, v, Carried(q[i + 1], t))
        /\ \A j \in ((i + 1) + 1)..Len(q) : Carries(q[j], t) =>
             Carried(q[i + 1], t).index <= Carried(q[j], t).index
    BY <2>1 DEF AnswersOf
  <2>3. ASSUME NEW j \in (i + 1)..Len(r), Carries(r[j], t)
        PROVE  Carried(r[i], t).index <= Carried(r[j], t).index
    <3>1. j + 1 \in ((i + 1) + 1)..Len(q) /\ j \in 1..Len(r) /\ r[j] = q[j + 1]
      BY <1>1
    <3> QED
      BY <2>1, <2>2, <2>3, <3>1
  <2> QED
    BY <2>1, <2>2, <2>3
<1>3. ASSUME Carries(q[1], t)
      PROVE  Refills(c, v, Carried(q[1], t)) /\ GoesOn(r, t, Carried(q[1], t))
  <2>1. /\ Refills(c, v, Carried(q[1], t))
        /\ \A j \in 2..Len(q) : Carries(q[j], t) => Carried(q[1], t).index <= Carried(q[j], t).index
    <3>1. 1 \in 1..Len(q) /\ 1 + 1 = 2
      BY <1>1
    <3> QED
      BY <1>3, <3>1 DEF AnswersOf
  <2> QED
    BY <1>1, <2>1 DEF GoesOn
<1> QED
  BY <1>1, <1>2, <1>3 DEF r

\* The same answers, when the slot has moved on or the cache has changed.
LEMMA AnswersMove ==
  ASSUME NEW q, NEW t, NEW c, NEW v, AnswersOf(q, t, c, v), NEW c2, NEW v2,
         v # None => /\ v2 # None /\ v2.seed = v.seed
                     /\ v.index \in Nat /\ v2.index \in Nat /\ v.index <= v2.index,
         \A i \in 1..Len(q) : Carries(q[i], t) /\ c2 # None => c2.next <= Carried(q[i], t).next
  PROVE  AnswersOf(q, t, c2, v2)
<1> SUFFICES ASSUME NEW i \in 1..Len(q), Carries(q[i], t)
             PROVE  Refills(c2, v2, Carried(q[i], t))
  BY DEF AnswersOf
<1>1. Refills(c, v, Carried(q[i], t))
  BY DEF AnswersOf
<1>2. c2 # None => c2.next <= Carried(q[i], t).next
  OBVIOUS
<1> QED
  BY <1>1, <1>2 DEF Refills

\* One more answer, with what the slot now stands at.
LEMMA AnswersAppend ==
  ASSUME NEW S, NEW q \in Seq(S), NEW t, NEW c, NEW v, AnswersOf(q, t, c, v),
         v # None => v.index \in Nat, NEW m,
         Carries(m, t) => Refills(c, v, Carried(m, t)) /\ Carried(m, t).index = v.index
  PROVE  AnswersOf(Append(q, m), t, c, v)
<1> DEFINE r == Append(q, m)
           n == Len(q)
<1>1. /\ Len(r) = n + 1 /\ n \in Nat /\ r[n + 1] = m /\ \A i \in 1..n : r[i] = q[i]
  BY AppendFacts
<1> HIDE DEF r
<1>2. ASSUME NEW i \in 1..n, Carries(r[i], t)
      PROVE  /\ Refills(c, v, Carried(r[i], t))
             /\ \A j \in (i + 1)..(n + 1) : Carries(r[j], t) =>
                  Carried(r[i], t).index <= Carried(r[j], t).index
  <2>1. /\ Refills(c, v, Carried(q[i], t)) /\ r[i] = q[i]
        /\ \A j \in (i + 1)..n : Carries(q[j], t) => Carried(q[i], t).index <= Carried(q[j], t).index
    BY <1>1, <1>2 DEF AnswersOf
  <2>2. Carried(q[i], t).index \in Nat /\ Carried(q[i], t).index <= v.index
    BY <2>1 DEF Refills
  <2>3. ASSUME NEW j \in (i + 1)..(n + 1), Carries(r[j], t)
        PROVE  Carried(q[i], t).index <= Carried(r[j], t).index
    <3>1. CASE j = n + 1
      BY <1>1, <2>2, <2>3, <3>1
    <3>2. CASE j # n + 1
      <4>1. j \in (i + 1)..n /\ j \in 1..n
        BY <1>1, <3>2
      <4> QED
        BY <1>1, <2>1, <2>3, <4>1
    <3> QED
      BY <3>1, <3>2
  <2> QED
    BY <2>1, <2>3
<1>3. ASSUME Carries(r[n + 1], t)
      PROVE  /\ Refills(c, v, Carried(r[n + 1], t))
             /\ \A j \in ((n + 1) + 1)..(n + 1) : Carries(r[j], t) =>
                  Carried(r[n + 1], t).index <= Carried(r[j], t).index
  <2>1. ((n + 1) + 1)..(n + 1) = {}
    BY <1>1
  <2> QED
    BY <1>1, <1>3, <2>1
<1>4. AnswersOf(r, t, c, v)
  <2> SUFFICES ASSUME NEW i \in 1..(n + 1), Carries(r[i], t)
               PROVE  /\ Refills(c, v, Carried(r[i], t))
                      /\ \A j \in (i + 1)..(n + 1) : Carries(r[j], t) =>
                           Carried(r[i], t).index <= Carried(r[j], t).index
    BY <1>1 DEF AnswersOf
  <2>1. i \in 1..n \/ i = n + 1
    BY <1>1
  <2> QED
    BY <1>2, <1>3, <2>1
<1> QED
  BY <1>4 DEF r

LEMMA ClaimsChange ==
  ASSUME NEW S, NEW q \in Seq(S), NEW row, ClaimsOf(q, row)
  PROVE  /\ q # <<>> => ClaimsOf(Tail(q), row)
         /\ \A m : (m.type = "open" => \A t \in DOMAIN m.claims : Covered(m.claims[t], row[t]))
              => ClaimsOf(Append(q, m), row)
<1>1. ASSUME q # <<>> PROVE ClaimsOf(Tail(q), row)
  BY <1>1, TailFacts DEF ClaimsOf
<1>2. ASSUME NEW m, m.type = "open" => \A t \in DOMAIN m.claims : Covered(m.claims[t], row[t])
      PROVE  ClaimsOf(Append(q, m), row)
  <2> SUFFICES ASSUME NEW i \in 1..Len(Append(q, m)), Append(q, m)[i].type = "open",
                      NEW t \in DOMAIN Append(q, m)[i].claims
               PROVE  Covered(Append(q, m)[i].claims[t], row[t])
    BY DEF ClaimsOf
  <2>1. (i \in 1..Len(q) /\ Append(q, m)[i] = q[i]) \/ Append(q, m)[i] = m
    BY AppendFacts
  <2> QED
    BY <1>2, <2>1 DEF ClaimsOf
<1> QED
  BY <1>1, <1>2

LEMMA ApartChange ==
  ASSUME NEW S, NEW q \in Seq(S), NEW d, NEW s
  PROVE  /\ q # <<>> /\ AllApart(q, d, s) => AllApart(Tail(q), d, s)
         /\ q # <<>> /\ Behind(q, d, s) => Behind(Tail(q), d, s)
         /\ q # <<>> /\ Behind(q, d, s) /\ Head(q).type = "sign" /\ Head(q).session = s
              => AllApart(Tail(q), d, s)
         /\ q # <<>> /\ AllApart(q, d, s) /\ Head(q).type = "sign" => Apart(d, s, Head(q).session)
         /\ \A m : (m.type = "sign" => Apart(d, s, m.session)) =>
              /\ AllApart(q, d, s) => AllApart(Append(q, m), d, s)
              /\ Behind(q, d, s) => Behind(Append(q, m), d, s)
<1>1. ASSUME q # <<>>, AllApart(q, d, s) PROVE AllApart(Tail(q), d, s)
  BY <1>1, TailFacts DEF AllApart
<1>2. ASSUME q # <<>>, Behind(q, d, s) PROVE Behind(Tail(q), d, s)
  <2> DEFINE r == Tail(q)
  <2>1. /\ Len(r) = Len(q) - 1 /\ Len(q) \in Nat
        /\ \A i \in 1..Len(r) : i + 1 \in 1..Len(q) /\ r[i] = q[i + 1]
    BY <1>2, TailFacts
  <2> HIDE DEF r
  <2>2. ASSUME NEW i \in 1..Len(r), NEW j \in 1..Len(r), i < j, r[i].type = "sign",
               r[i].session = s, r[j].type = "sign"
        PROVE  Apart(d, s, r[j].session)
    <3>1. i + 1 < j + 1
      BY <2>1, <2>2
    <3> QED
      BY <1>2, <2>1, <2>2, <3>1 DEF Behind
  <2> QED
    BY <2>2 DEF Behind, r
<1>3. ASSUME q # <<>>, Behind(q, d, s), Head(q).type = "sign", Head(q).session = s
      PROVE  AllApart(Tail(q), d, s)
  <2> SUFFICES ASSUME NEW i \in 1..Len(Tail(q)), Tail(q)[i].type = "sign"
               PROVE  Apart(d, s, Tail(q)[i].session)
    BY DEF AllApart
  <2>1. /\ Head(q) = q[1] /\ 1 \in 1..Len(q) /\ i + 1 \in 1..Len(q) /\ 1 < i + 1
        /\ Tail(q)[i] = q[i + 1]
    BY <1>3, TailFacts
  <2> QED
    BY <1>3, <2>1 DEF Behind
<1>4. ASSUME q # <<>>, AllApart(q, d, s), Head(q).type = "sign"
      PROVE  Apart(d, s, Head(q).session)
  <2>1. Head(q) = q[1] /\ 1 \in 1..Len(q)
    BY <1>4, TailFacts
  <2> QED
    BY <1>4, <2>1 DEF AllApart
<1>5. ASSUME NEW m, m.type = "sign" => Apart(d, s, m.session)
      PROVE  /\ AllApart(q, d, s) => AllApart(Append(q, m), d, s)
             /\ Behind(q, d, s) => Behind(Append(q, m), d, s)
  <2> DEFINE r == Append(q, m)
  <2>1. /\ Len(r) = Len(q) + 1 /\ Len(q) \in Nat /\ r[Len(q) + 1] = m
        /\ \A i \in 1..Len(q) : r[i] = q[i]
    BY AppendFacts
  <2> HIDE DEF r
  <2>2. \A i \in 1..Len(r) : i \in 1..Len(q) \/ i = Len(q) + 1
    BY <2>1
  <2>3. ASSUME AllApart(q, d, s) PROVE AllApart(r, d, s)
    BY <1>5, <2>1, <2>2, <2>3 DEF AllApart
  <2>4. ASSUME Behind(q, d, s), NEW i \in 1..Len(r), NEW j \in 1..Len(r), i < j,
               r[i].type = "sign", r[i].session = s, r[j].type = "sign"
        PROVE  Apart(d, s, r[j].session)
    <3>1. CASE j = Len(q) + 1
      BY <1>5, <2>1, <2>4, <3>1
    <3>2. CASE j \in 1..Len(q)
      <4>1. i \in 1..Len(q)
        BY <2>1, <2>4, <3>2
      <4> QED
        BY <2>1, <2>4, <3>2, <4>1 DEF Behind
    <3> QED
      BY <2>2, <3>1, <3>2
  <2> QED
    BY <2>3, <2>4 DEF Behind, r
<1> QED
  BY <1>1, <1>2, <1>3, <1>4, <1>5
-------------------------------------------------------------------------------
(* The coordinator's steps keep what is cached in line with the devices.     *)
LEMMA Entries ==
  ASSUME IInv, NEW d \in Devices, NEW t \in Streams
  PROVE  /\ cache[d][t] = None \/ Sized(cache[d][t])
         /\ slots[d][t] # None => slots[d][t].index \in Nat
BY DEF IInv, CoordInv, CoordTypes, DeviceInv, DeviceTypes

LEMMA Selected ==
  ASSUME IInv, NEW s \in Started, NEW d \in Parties[s]
  PROVE  /\ d \in Devices /\ s \in Sessions /\ assigned[s][d].stream \in Streams
         /\ assigned[s][d].nonces.index \in Nat /\ assigned[s][d].nonces.next \in Nat
         /\ assigned[s][d].nonces.index <= assigned[s][d].nonces.next
BY SigningAssumption DEF IInv, CoordInv, AssignedTypes, Started, Sized

\* Closing sessions, and taking answers off the channels.
LEMMA BooksMove ==
  ASSUME IInv, HostInv, UNCHANGED <<assigned, slots, signed, parked, toDevice>>,
         Started' = Started, Active' \subseteq Active,
         \A d \in Devices, t \in Streams :
           /\ Follows(cache'[d][t], slots[d][t])
           /\ AnswersOf(toCoord'[d], t, cache'[d][t], slots[d][t])
           /\ cache[d][t] # None => cache'[d][t] # None /\ cache[d][t].next <= cache'[d][t].next,
         \A s \in Active' : \A d \in Parties[s] :
           cache'[d][assigned[s][d].stream].index <= assigned[s][d].nonces.next,
         \A d \in Devices, t \in Streams : cache'[d][t] = None \/ Sized(cache'[d][t])
  PROVE  HostInv'
<1>1. CacheFollows' /\ AnswersFollow'
  BY DEF CacheFollows, AnswersFollow
<1>2. ClaimsFollow' /\ SignedAreStarted'
  BY DEF HostInv, ClaimsFollow, SignedAreStarted
<1>3. AskedInOrder'
  <2> SUFFICES ASSUME NEW d \in Devices, NEW s \in Active', d \in Parties[s]
               PROVE  InOrder(d, s, toDevice[d], parked[d])'
    BY DEF AskedInOrder
  <2>1. InOrder(d, s, toDevice[d], parked[d])
    BY DEF HostInv, AskedInOrder
  <2> QED
    BY <2>1 DEF InOrder, HasSigned, Apart, AllApart, Behind
<1>4. SignedIsReplayable'
  BY DEF HostInv, SignedIsReplayable
<1>5. AssignedAreCached'
  <2> SUFFICES ASSUME NEW s \in Started, NEW d \in Parties[s]
               PROVE  /\ cache'[d][assigned[s][d].stream] # None
                      /\ assigned[s][d].nonces.next <= cache'[d][assigned[s][d].stream].next
                      /\ s \in Active' =>
                           cache'[d][assigned[s][d].stream].index <= assigned[s][d].nonces.next
    BY DEF AssignedAreCached
  <2> DEFINE t == assigned[s][d].stream
             n == assigned[s][d].nonces.next
  <2>1. d \in Devices /\ t \in Streams /\ n \in Nat
    BY Selected
  <2>2. cache[d][t] # None /\ n <= cache[d][t].next
    BY DEF HostInv, AssignedAreCached
  <2>3. Sized(cache[d][t]) /\ cache'[d][t] # None /\ cache[d][t].next <= cache'[d][t].next
    BY <2>1, <2>2, Entries
  <2>4. Sized(cache'[d][t])
    BY <2>1, <2>3
  <2> HIDE DEF t, n
  <2>5. n <= cache'[d][t].next
    BY <2>1, <2>2, <2>3, <2>4 DEF Sized
  <2> QED
    BY <2>3, <2>5 DEF t, n
<1> QED
  BY <1>1, <1>2, <1>3, <1>4, <1>5 DEF HostInv

\* delete_up_to of what is there: the end stays, and what is left is genuine.
LEMMA DeleteFollows ==
  ASSUME NoneIsNothing, NEW c, Sized(c), NEW v, v # None => v.index \in Nat, c # None,
         Follows(c, v), NEW n \in Nat, n <= c.next
  PROVE  LET h == DeleteUpTo(c, n)
         IN h # None /\ Follows(h, v) /\ h.next = c.next /\ Sized(h)
<1> DEFINE h == DeleteUpTo(c, n)
<1>1. CASE n <= c.index
  BY <1>1 DEF DeleteUpTo
<1>2. CASE ~(n <= c.index)
  <2> DEFINE left == [k \in n..(c.next - 1) |-> c.nonces[k]]
  <2>1. Greater(c.next, n) = c.next
    BY DEF Greater, Sized
  <2>2. h = [index |-> n, next |-> c.next, nonces |-> left]
    BY <1>2, <2>1 DEF DeleteUpTo, Slice
  <2> HIDE DEF left
  <2>3. h.index = n /\ h.next = c.next /\ h.nonces = left
    BY <2>2
  <2>4. h # None
    BY <2>2 DEF NoneIsNothing
  <2>5. \A k \in n..(c.next - 1) : left[k] = c.nonces[k] /\ k \in c.index..(c.next - 1)
    BY <1>2 DEF left, Sized
  <2>6. Genuine(h, v.seed)
    BY <2>3, <2>5 DEF Genuine, Follows
  <2>7. Follows(h, v)
    BY <2>3, <2>4, <2>6 DEF Follows
  <2> HIDE DEF h
  <2>8. Sized(h)
    BY <2>3 DEF Sized
  <2> QED
    BY <2>3, <2>4, <2>7, <2>8 DEF h
<1> QED
  BY <1>1, <1>2

\* A cache that holds what the sessions under way were given.
HoldsAssigned(c) ==
  /\ \A d \in Devices, t \in Streams :
       (c[d][t] = None \/ Sized(c[d][t])) /\ Follows(c[d][t], slots[d][t])
  /\ \A s \in Active : \A d \in Parties[s] :
       LET e == c[d][assigned[s][d].stream]
       IN e # None /\ e.index <= assigned[s][d].nonces.next /\ assigned[s][d].nonces.next <= e.next

\* An entry that ends where it did.
Kept(c, e, v) ==
  /\ e = None \/ Sized(e)
  /\ Follows(e, v)
  /\ c = None => e = None
  /\ c # None => e # None /\ e.next = c.next

\* Closing sessions leaves every entry its end.
LEMMA ConsumedFollows ==
  ASSUME NoneIsNothing, IInv, NEW c, NEW closed \in SUBSET Active, HoldsAssigned(c)
  PROVE  /\ \A d \in Devices, t \in Streams : Kept(c[d][t], Consumed(c, closed)[d][t], slots[d][t])
         /\ \A s \in Active \ closed : \A d \in Parties[s] :
              Consumed(c, closed)[d][assigned[s][d].stream] = c[d][assigned[s][d].stream]
<1>1. CoordTypes /\ AssignedTypes /\ ActiveNoncesAreDisjoint /\ Active \subseteq Started
  BY DEF IInv, CoordInv, Active, Started
<1>2. \A s \in Active : \A d \in Parties[s] : Sized(c[d][assigned[s][d].stream])
  BY <1>1, Selected DEF HoldsAssigned
<1>3. /\ \A s \in Active \ closed : \A d \in Parties[s] :
           Consumed(c, closed)[d][assigned[s][d].stream] = c[d][assigned[s][d].stream]
      /\ \A d \in Devices, t \in Streams :
           \/ Consumed(c, closed)[d][t] = c[d][t]
           \/ \E r \in closed :
                /\ d \in Parties[r] /\ assigned[r][d].stream = t
                /\ Consumed(c, closed)[d][t] = DeleteUpTo(c[d][t], assigned[r][d].nonces.next)
  BY <1>1, <1>2, ConsumedFacts DEF HoldsAssigned
<1>4. ASSUME NEW d \in Devices, NEW t \in Streams
      PROVE  Kept(c[d][t], Consumed(c, closed)[d][t], slots[d][t])
  <2> DEFINE e == Consumed(c, closed)[d][t]
  <2>0. (c[d][t] = None \/ Sized(c[d][t])) /\ Follows(c[d][t], slots[d][t])
    BY DEF HoldsAssigned
  <2>1. CASE e = c[d][t]
    BY <2>0, <2>1 DEF Kept
  <2>2. ASSUME NEW r \in closed, d \in Parties[r], assigned[r][d].stream = t,
               e = DeleteUpTo(c[d][t], assigned[r][d].nonces.next)
        PROVE  Kept(c[d][t], e, slots[d][t])
    <3>1. r \in Active /\ r \in Started
      BY <1>1
    <3>2. assigned[r][d].nonces.next \in Nat /\ Sized(c[d][t]) /\ c[d][t] # None
      BY <1>2, <2>2, <3>1, Selected DEF HoldsAssigned
    <3>3. assigned[r][d].nonces.next <= c[d][t].next
      BY <2>2, <3>1 DEF HoldsAssigned
    <3>4. slots[d][t] # None => slots[d][t].index \in Nat
      BY Entries
    <3> HIDE DEF e
    <3> QED
      BY <2>0, <2>2, <3>2, <3>3, <3>4, DeleteFollows DEF Kept
  <2> QED
    BY <1>3, <2>1, <2>2
<1> QED
  BY <1>3, <1>4
\* The other answers, when the entry has been extended by the first.
LEMMA AnswersExtended ==
  ASSUME NEW S, NEW q \in Seq(S), q # <<>>, NEW t, NEW c, NEW v, v # None => v.index \in Nat,
         AnswersOf(q, t, c, v), Carries(Head(q), t),
         NEW h, h.next = Carried(Head(q), t).next
  PROVE  AnswersOf(Tail(q), t, h, v)
<1> DEFINE g == Carried(Head(q), t)
           r == Tail(q)
<1>1. AnswersOf(r, t, c, v) /\ Refills(c, v, g) /\ GoesOn(r, t, g)
  BY AnswersTail
<1>2. g.index \in Nat /\ g.next = g.index + Batch /\ Batch \in Nat
  BY <1>1, RefillIs, SigningAssumption
<1> HIDE DEF g, r
<1>3. ASSUME NEW i \in 1..Len(r), Carries(r[i], t)
      PROVE  h.next <= Carried(r[i], t).next
  <2>1. Refills(c, v, Carried(r[i], t))
    BY <1>1, <1>3 DEF AnswersOf
  <2>2. /\ Carried(r[i], t).index \in Nat
        /\ Carried(r[i], t).next = Carried(r[i], t).index + Batch
    BY <2>1, RefillIs
  <2>3. g.index <= Carried(r[i], t).index
    BY <1>1, <1>3 DEF GoesOn
  <2>4. h.next = g.next
    BY DEF g
  <2> QED
    BY <1>2, <2>2, <2>3, <2>4
<1>4. v # None => v.index <= v.index
  OBVIOUS
<1>5. AnswersOf(r, t, h, v)
  BY <1>1, <1>3, <1>4, AnswersMove
<1> QED
  BY <1>5 DEF r

\* The same answers, or all but the first, when entries end where they did.
LEMMA AnswersStay ==
  ASSUME NEW q, NEW t, NEW c, NEW v, v # None => v.index \in Nat, AnswersOf(q, t, c, v),
         NEW h, c = None => h = None, c # None => h.next = c.next
  PROVE  AnswersOf(q, t, h, v)
<1>1. ASSUME NEW i \in 1..Len(q), Carries(q[i], t), h # None
      PROVE  h.next <= Carried(q[i], t).next
  <2>1. Refills(c, v, Carried(q[i], t))
    BY <1>1 DEF AnswersOf
  <2> QED
    BY <1>1, <2>1 DEF Refills
<1>2. v # None => v.index <= v.index
  OBVIOUS
<1> QED
  BY <1>1, <1>2, AnswersMove

LEMMA CancelFollows ==
  ASSUME NoneIsNothing, IInv, HostInv, (\E s \in Sessions : Cancel(s)) \/ CancelAll
  PROVE  HostInv'
<1>1. PICK closed \in SUBSET Active :
        /\ cache' = Consumed(cache, closed)
        /\ status' = [s \in Sessions |-> IF s \in closed THEN "cancelled" ELSE status[s]]
        /\ UNCHANGED <<assigned, slots, signed, parked, toDevice, toCoord>>
  <2>1. ASSUME NEW s \in Sessions, Cancel(s)
        PROVE  /\ {s} \in SUBSET Active /\ cache' = Consumed(cache, {s})
               /\ status' = [r \in Sessions |-> IF r \in {s} THEN "cancelled" ELSE status[r]]
               /\ UNCHANGED <<assigned, slots, signed, parked, toDevice, toCoord>>
    BY <2>1 DEF Cancel, IInv, CoordInv, CoordTypes, deviceVars
  <2>2. ASSUME CancelAll
        PROVE  /\ cache' = Consumed(cache, Active)
               /\ status' = [r \in Sessions |-> IF r \in Active THEN "cancelled" ELSE status[r]]
               /\ UNCHANGED <<assigned, slots, signed, parked, toDevice, toCoord>>
    BY <2>2 DEF CancelAll, deviceVars
  <2> QED
    BY <2>1, <2>2
<1>2. Started' = Started /\ Active' = Active \ closed /\ Active \subseteq Started
  BY <1>1 DEF Started, Active
<1>3. HoldsAssigned(cache)
  BY <1>2, Entries DEF HostInv, CacheFollows, AssignedAreCached, HoldsAssigned
<1>4. /\ \A d \in Devices, t \in Streams : Kept(cache[d][t], cache'[d][t], slots[d][t])
      /\ \A s \in Active' : \A d \in Parties[s] :
           cache'[d][assigned[s][d].stream] = cache[d][assigned[s][d].stream]
  BY <1>1, <1>2, <1>3, ConsumedFollows
<1>5. ASSUME NEW d \in Devices, NEW t \in Streams
      PROVE  /\ Follows(cache'[d][t], slots[d][t])
             /\ cache'[d][t] = None \/ Sized(cache'[d][t])
             /\ AnswersOf(toCoord'[d], t, cache'[d][t], slots[d][t])
             /\ cache[d][t] # None => cache'[d][t] # None /\ cache[d][t].next <= cache'[d][t].next
  <2>0. Kept(cache[d][t], cache'[d][t], slots[d][t])
    BY <1>4
  <2>1. AnswersOf(toCoord[d], t, cache[d][t], slots[d][t])
    BY DEF HostInv, AnswersFollow
  <2>2. slots[d][t] # None => slots[d][t].index \in Nat
    BY Entries
  <2>3. AnswersOf(toCoord[d], t, cache'[d][t], slots[d][t])
    BY <2>0, <2>1, <2>2, AnswersStay DEF Kept
  <2>4. cache[d][t] # None => cache[d][t].next \in Nat
    BY Entries DEF Sized
  <2> QED
    BY <1>1, <2>0, <2>3, <2>4 DEF Kept
<1>6. \A s \in Active' : \A d \in Parties[s] :
        cache'[d][assigned[s][d].stream].index <= assigned[s][d].nonces.next
  BY <1>2, <1>3, <1>4 DEF HoldsAssigned
<1> QED
  BY <1>1, <1>2, <1>5, <1>6, BooksMove

\* What the coordinator takes off the channel, in every case.
LEMMA TakenOff ==
  ASSUME IInv, HostInv, NEW d \in Devices, toCoord[d] # <<>>,
         toCoord' = [toCoord EXCEPT ![d] = Tail(@)]
  PROVE  /\ toCoord[d] \in Seq(Answers(d)) /\ toCoord'[d] = Tail(toCoord[d])
         /\ \A e \in Devices \ {d} : toCoord'[e] = toCoord[e]
         /\ \A e \in Devices, t \in Streams :
              AnswersOf(toCoord[e], t, cache[e][t], slots[e][t])
         /\ \A e \in Devices, t \in Streams :
              AnswersOf(toCoord'[e], t, cache[e][t], slots[e][t])
<1>1. /\ toCoord[d] \in Seq(Answers(d)) /\ toCoord'[d] = Tail(toCoord[d])
      /\ \A e \in Devices \ {d} : toCoord'[e] = toCoord[e]
  BY DEF IInv, WireInv
<1>2. ASSUME NEW e \in Devices, NEW t \in Streams
      PROVE  AnswersOf(toCoord[e], t, cache[e][t], slots[e][t])
  BY DEF HostInv, AnswersFollow
<1>3. ASSUME NEW t \in Streams
      PROVE  AnswersOf(Tail(toCoord[d]), t, cache[d][t], slots[d][t])
  BY <1>1, <1>2, AnswersTail
<1> QED
  BY <1>1, <1>2, <1>3

\* Dropping an answer.
LEMMA DroppedFollows ==
  ASSUME IInv, HostInv, NEW d \in Devices, toCoord[d] # <<>>,
         toCoord' = [toCoord EXCEPT ![d] = Tail(@)],
         UNCHANGED <<cache, status, assigned, slots, signed, parked, toDevice>>
  PROVE  HostInv'
<1>1. Started' = Started /\ Active' = Active /\ Active \subseteq Started
  BY DEF Started, Active
<1>2. \A e \in Devices, t \in Streams :
        /\ Follows(cache'[e][t], slots[e][t])
        /\ AnswersOf(toCoord'[e], t, cache'[e][t], slots[e][t])
        /\ cache[e][t] # None => cache'[e][t] # None /\ cache[e][t].next <= cache'[e][t].next
        /\ cache'[e][t] = None \/ Sized(cache'[e][t])
  <2> SUFFICES ASSUME NEW e \in Devices, NEW t \in Streams
               PROVE  /\ Follows(cache[e][t], slots[e][t])
                      /\ AnswersOf(toCoord'[e], t, cache[e][t], slots[e][t])
                      /\ cache[e][t] # None => cache[e][t].next <= cache[e][t].next
                      /\ cache[e][t] = None \/ Sized(cache[e][t])
    OBVIOUS
  <2>1. cache[e][t] = None \/ Sized(cache[e][t])
    BY Entries
  <2>2. AnswersOf(toCoord'[e], t, cache[e][t], slots[e][t])
    BY TakenOff
  <2>3. Follows(cache[e][t], slots[e][t])
    BY DEF HostInv, CacheFollows
  <2> QED
    BY <2>1, <2>2, <2>3 DEF Sized
<1>3. \A s \in Active' : \A e \in Parties[s] :
        cache'[e][assigned[s][e].stream].index <= assigned[s][e].nonces.next
  BY <1>1 DEF HostInv, AssignedAreCached
<1> QED
  BY <1>1, <1>2, <1>3, BooksMove

\* What an entry may become when an answer is taken: it reaches no less far,
\* and what is left of the channel, q, goes on from it.
Becomes(c, h, v, q, t) ==
  /\ h = None \/ Sized(h)
  /\ Follows(h, v)
  /\ AnswersOf(q, t, h, v)
  /\ c # None => h # None /\ c.next <= h.next
  /\ \A n \in Nat : c # None /\ c.index <= n /\ n <= c.next => h.index <= n

LEMMA EntryExtended ==
  ASSUME NoneIsNothing, IInv, HostInv, NEW d \in Devices, toCoord[d] # <<>>,
         NEW t \in Streams, Carries(Received(d), t),
         NEW h, h = Extend(IF cache[d][t] = None THEN NoNonces ELSE cache[d][t],
                           Carried(Received(d), t))
  PROVE  Becomes(cache[d][t], h, slots[d][t], Tail(toCoord[d]), t)
<1> DEFINE c == cache[d][t]
           v == slots[d][t]
           q == toCoord[d]
           g == Carried(Received(d), t)
<1>1. q \in Seq(Answers(d)) /\ q # <<>> /\ Received(d) = Head(q)
  BY DEF IInv, WireInv, Received
<1>2. (c = None \/ Sized(c)) /\ (v # None => v.index \in Nat)
  BY Entries
<1>3. Follows(c, v) /\ AnswersOf(q, t, c, v)
  BY DEF HostInv, CacheFollows, AnswersFollow
<1>4. h = Extend(IF c = None THEN NoNonces ELSE c, g) /\ Carries(Head(q), t) /\ g = Carried(Head(q), t)
  BY <1>1
<1> HIDE DEF c, v, q, g
<1>5. Refills(c, v, g)
  BY <1>1, <1>3, <1>4, AnswersTail
<1>6. Sized(g) /\ (c # None => c.next <= g.next)
  BY <1>2, <1>5, RefillIs
<1>7. /\ h # None /\ Follows(h, v) /\ h.next = g.next
      /\ \A n \in Nat : c # None /\ c.index <= n /\ n <= c.next => h.index <= n
  BY <1>2, <1>3, <1>4, <1>5, ExtendFollows
<1>8. AnswersOf(Tail(q), t, h, v)
  BY <1>1, <1>2, <1>3, <1>4, <1>7, AnswersExtended
<1>9. Sized(h)
  <2>1. Sized(NoNonces)
    BY DEF Sized, NoNonces
  <2> QED
    BY <1>2, <1>4, <1>6, <2>1, SegmentFacts
<1>10. Becomes(c, h, v, Tail(q), t)
  BY <1>6, <1>7, <1>8, <1>9 DEF Becomes
<1> QED
  BY <1>10 DEF c, v, q

\* An entry that stays as it is.
LEMMA EntryStays ==
  ASSUME IInv, HostInv, NEW d \in Devices, NEW t \in Streams,
         NEW q, AnswersOf(q, t, cache[d][t], slots[d][t])
  PROVE  Becomes(cache[d][t], cache[d][t], slots[d][t], q, t)
<1>1. cache[d][t] = None \/ Sized(cache[d][t])
  BY Entries
<1>2. Follows(cache[d][t], slots[d][t])
  BY DEF HostInv, CacheFollows
<1> QED
  BY <1>1, <1>2 DEF Becomes, Sized

\* The books after an answer, before sessions are closed.
LEMMA BecomesHolds ==
  ASSUME IInv, HostInv, NEW c, NEW said,
         \A d \in Devices, t \in Streams :
           Becomes(cache[d][t], c[d][t], slots[d][t], said[d], t)
  PROVE  HoldsAssigned(c)
<1>1. ASSUME NEW s \in Active, NEW d \in Parties[s]
      PROVE  /\ c[d][assigned[s][d].stream] # None
             /\ c[d][assigned[s][d].stream].index <= assigned[s][d].nonces.next
             /\ assigned[s][d].nonces.next <= c[d][assigned[s][d].stream].next
  <2> DEFINE t == assigned[s][d].stream
             n == assigned[s][d].nonces.next
  <2>1. s \in Started
    BY DEF Active, Started
  <2>2. d \in Devices /\ t \in Streams /\ n \in Nat
    BY <2>1, Selected
  <2>3. cache[d][t] # None /\ n <= cache[d][t].next /\ cache[d][t].index <= n
    BY <2>1 DEF HostInv, AssignedAreCached
  <2>4. Becomes(cache[d][t], c[d][t], slots[d][t], said[d], t)
    BY <2>2
  <2>5. Sized(cache[d][t])
    BY <2>2, <2>3, Entries
  <2> HIDE DEF t, n
  <2>6. c[d][t] # None /\ Sized(c[d][t]) /\ cache[d][t].next <= c[d][t].next /\ c[d][t].index <= n
    BY <2>2, <2>3, <2>4 DEF Becomes
  <2>7. n <= c[d][t].next
    BY <2>2, <2>3, <2>5, <2>6 DEF Sized
  <2> QED
    BY <2>6, <2>7 DEF t, n
<1> QED
  BY <1>1 DEF HoldsAssigned, Becomes

LEMMA BooksFollow ==
  ASSUME NoneIsNothing, IInv, HostInv, UNCHANGED <<assigned, slots, signed, parked, toDevice>>,
         Started' = Started, Active' = Active,
         \A d \in Devices, t \in Streams :
           Becomes(cache[d][t], cache'[d][t], slots[d][t], toCoord'[d], t)
  PROVE  HostInv'
<1>1. HoldsAssigned(cache')
  BY BecomesHolds
<1>2. \A d \in Devices, t \in Streams :
        /\ Follows(cache'[d][t], slots[d][t])
        /\ AnswersOf(toCoord'[d], t, cache'[d][t], slots[d][t])
        /\ cache[d][t] # None => cache'[d][t] # None /\ cache[d][t].next <= cache'[d][t].next
        /\ cache'[d][t] = None \/ Sized(cache'[d][t])
  BY DEF Becomes
<1>3. \A s \in Active' : \A d \in Parties[s] :
        cache'[d][assigned[s][d].stream].index <= assigned[s][d].nonces.next
  BY <1>1 DEF HoldsAssigned
<1> QED
  BY <1>2, <1>3, BooksMove

LEMMA RecvNonceResponseFollows ==
  ASSUME NoneIsNothing, IInv, HostInv, NEW d \in Devices, RecvNonceResponse(d)
  PROVE  HostInv'
<1> DEFINE segments == Received(d).segments
<1>1. /\ toCoord[d] # <<>> /\ Received(d).type = "nonces"
      /\ toCoord' = [toCoord EXCEPT ![d] = Tail(@)]
      /\ cache' = [cache EXCEPT ![d] =
           [t \in Streams |-> IF t \in DOMAIN segments
                              THEN Extended(@, t, segments[t])[t] ELSE @[t]]]
      /\ UNCHANGED <<status, assigned, slots, signed, parked, toDevice>>
  BY DEF RecvNonceResponse, Receiving, deviceVars
<1>2. Started' = Started /\ Active' = Active
  BY <1>1 DEF Started, Active
<1>3. /\ \A e \in Devices \ {d} : cache'[e] = cache[e]
      /\ \A t \in Streams : cache'[d][t] = IF t \in DOMAIN segments
                                           THEN Extended(cache[d], t, segments[t])[t]
                                           ELSE cache[d][t]
  BY <1>1 DEF IInv, CoordInv, CoordTypes
<1>4. ASSUME NEW e \in Devices, NEW t \in Streams
      PROVE  Becomes(cache[e][t], cache'[e][t], slots[e][t], toCoord'[e], t)
  <2>1. CASE e = d /\ t \in DOMAIN segments
    <3>1. Carries(Received(d), t) /\ Carried(Received(d), t) = segments[t]
      BY <1>1, <2>1 DEF Carries, Carried
    <3>2. cache[d] = [u \in Streams |-> cache[d][u]]
      BY DEF IInv, CoordInv, CoordTypes
    <3>3. cache'[d][t] = Extend(IF cache[d][t] = None THEN NoNonces ELSE cache[d][t], segments[t])
      BY <1>3, <2>1, <3>2 DEF Extended
    <3>4. toCoord'[d] = Tail(toCoord[d])
      BY <1>1, TakenOff
    <3> QED
      BY <1>1, <2>1, <3>1, <3>3, <3>4, EntryExtended
  <2>2. CASE ~(e = d /\ t \in DOMAIN segments)
    <3>1. cache'[e][t] = cache[e][t]
      BY <1>3, <2>2
    <3>2. AnswersOf(toCoord'[e], t, cache[e][t], slots[e][t])
      BY <1>1, TakenOff
    <3> QED
      BY <3>1, <3>2, EntryStays
  <2> QED
    BY <2>1, <2>2
<1> QED
  BY <1>1, <1>2, <1>4, BooksFollow

LEMMA LateShareFollows ==
  ASSUME IInv, HostInv, NEW d \in Devices, LateShare(d)
  PROVE  HostInv'
BY DroppedFollows DEF LateShare, deviceVars

LEMMA RecvShareFollows ==
  ASSUME NoneIsNothing, IInv, HostInv, NEW d \in Devices, RecvShare(d)
  PROVE  HostInv'
<1> DEFINE m == Received(d)
           s == m.session
           got == shares[s] \cup {d}
           extended == [cache EXCEPT ![d] = Extended(@, m.stream, m.replenish)]
<1>1. /\ toCoord[d] # <<>> /\ m.type = "share" /\ s \in Active
      /\ toCoord' = [toCoord EXCEPT ![d] = Tail(@)]
      /\ UNCHANGED <<assigned, slots, signed, parked, toDevice>>
  BY DEF RecvShare, Receiving, deviceVars
<1>2. CASE ~Verifies(s, d)
  <2>1. UNCHANGED <<cache, status>>
    BY <1>2 DEF RecvShare
  <2> QED
    BY <1>1, <2>1, DroppedFollows
<1>3. CASE Verifies(s, d)
  <2>1. ASSUME NEW e \in Devices, NEW t \in Streams
        PROVE  Becomes(cache[e][t], extended[e][t], slots[e][t], toCoord'[e], t)
    <3>0. /\ cache = [x \in Devices |-> cache[x]]
          /\ cache[e] = [u \in Streams |-> cache[e][u]]
      BY DEF IInv, CoordInv, CoordTypes
    <3>1. CASE e = d /\ t = m.stream
      <4>1. Carries(Received(d), t) /\ Carried(Received(d), t) = m.replenish
        BY <1>1, <3>1 DEF Carries, Carried
      <4>2. extended[d][t] = Extend(IF cache[d][t] = None THEN NoNonces ELSE cache[d][t], m.replenish)
        BY <3>0, <3>1 DEF Extended
      <4>3. toCoord'[d] = Tail(toCoord[d])
        BY <1>1, TakenOff
      <4> HIDE DEF extended, m
      <4> QED
        BY <1>1, <3>1, <4>1, <4>2, <4>3, EntryExtended
    <3>2. CASE ~(e = d /\ t = m.stream)
      <4>1. extended[e][t] = cache[e][t]
        BY <3>0, <3>2 DEF Extended
      <4>2. AnswersOf(toCoord'[e], t, cache[e][t], slots[e][t])
        BY <1>1, TakenOff
      <4> HIDE DEF extended, m
      <4> QED
        BY <4>1, <4>2, EntryStays
    <3> QED
      BY <3>1, <3>2
  <2> HIDE DEF extended
  <2>2. CASE ~AllReceived(s, got)
    <3>1. cache' = extended /\ status' = status
      BY <1>3, <2>2 DEF RecvShare, extended
    <3>2. Started' = Started /\ Active' = Active
      BY <3>1 DEF Started, Active
    <3> QED
      BY <1>1, <2>1, <3>1, <3>2, BooksFollow
  <2>3. CASE AllReceived(s, got)
    <3>1. status' = [status EXCEPT ![s] = "finished"] /\ cache' = Consumed(extended, {s})
      BY <1>3, <2>3 DEF RecvShare, extended
    <3>2. Started' = Started /\ Active' = Active \ {s} /\ {s} \in SUBSET Active
      BY <1>1, <3>1 DEF Started, Active, IInv, CoordInv, CoordTypes
    <3>3. HoldsAssigned(extended)
      BY <2>1, BecomesHolds
    <3> HIDE DEF s, m
    <3>4. /\ \A e \in Devices, t \in Streams : Kept(extended[e][t], cache'[e][t], slots[e][t])
          /\ \A r \in Active' : \A e \in Parties[r] :
               cache'[e][assigned[r][e].stream] = extended[e][assigned[r][e].stream]
      BY <3>1, <3>2, <3>3, ConsumedFollows
    <3>5. \A r \in Active' : \A e \in Parties[r] :
            cache'[e][assigned[r][e].stream].index <= assigned[r][e].nonces.next
      BY <3>2, <3>3, <3>4 DEF HoldsAssigned
    <3>6. ASSUME NEW e \in Devices, NEW t \in Streams
          PROVE  /\ Follows(cache'[e][t], slots[e][t])
                 /\ AnswersOf(toCoord'[e], t, cache'[e][t], slots[e][t])
                 /\ cache[e][t] # None => cache'[e][t] # None /\ cache[e][t].next <= cache'[e][t].next
                 /\ cache'[e][t] = None \/ Sized(cache'[e][t])
      <4>1. /\ Kept(extended[e][t], cache'[e][t], slots[e][t])
            /\ Becomes(cache[e][t], extended[e][t], slots[e][t], toCoord'[e], t)
        BY <2>1, <3>4
      <4>2. slots[e][t] # None => slots[e][t].index \in Nat
        BY Entries
      <4>3. AnswersOf(toCoord'[e], t, cache'[e][t], slots[e][t])
        BY <4>1, <4>2, AnswersStay DEF Kept, Becomes
      <4> QED
        BY <4>1, <4>3 DEF Kept, Becomes
    <3> QED
      BY <1>1, <3>2, <3>5, <3>6, BooksMove
  <2> QED
    BY <2>2, <2>3
<1> QED
  BY <1>2, <1>3

-------------------------------------------------------------------------------
(* Requests, and what becomes of them.                                       *)

\* A step that changes no more than the channels and the screen of device d.
LEMMA LinkMoves ==
  ASSUME IInv, HostInv, UNCHANGED <<cache, status, assigned, slots, signed>>, NEW d \in Devices,
         \A e \in Devices \ {d} : /\ toDevice'[e] = toDevice[e]
                                  /\ toCoord'[e] = toCoord[e] /\ parked'[e] = parked[e],
         ClaimsOf(toDevice'[d], slots[d]),
         \A t \in Streams : AnswersOf(toCoord'[d], t, cache[d][t], slots[d][t]),
         \A s \in Active : d \in Parties[s] => InOrder(d, s, toDevice'[d], parked'[d])
  PROVE  HostInv'
<1>1. Started' = Started /\ Active' = Active
  BY DEF Started, Active
<1>2. CacheFollows' /\ AssignedAreCached' /\ SignedAreStarted' /\ SignedIsReplayable'
  <2>1. CacheFollows' /\ SignedAreStarted'
    BY <1>1 DEF HostInv, CacheFollows, SignedAreStarted
  <2>2. AssignedAreCached'
    BY <1>1 DEF HostInv, AssignedAreCached
  <2>3. SignedIsReplayable'
    BY <1>1 DEF HostInv, SignedIsReplayable
  <2> QED
    BY <2>1, <2>2, <2>3
<1>3. AnswersFollow' /\ ClaimsFollow'
  <2>1. ASSUME NEW e \in Devices
        PROVE  /\ ClaimsOf(toDevice'[e], slots[e])
               /\ \A t \in Streams : AnswersOf(toCoord'[e], t, cache[e][t], slots[e][t])
    BY DEF HostInv, AnswersFollow, ClaimsFollow
  <2> QED
    BY <2>1 DEF AnswersFollow, ClaimsFollow
<1>4. AskedInOrder'
  <2>1. ASSUME NEW e \in Devices, NEW s \in Active, e \in Parties[s]
        PROVE  InOrder(e, s, toDevice'[e], parked'[e])
    BY <2>1 DEF HostInv, AskedInOrder
  <2>2. /\ \A e, s : HasSigned(e, s)' = HasSigned(e, s)
        /\ \A e, s, r : Apart(e, s, r)' = Apart(e, s, r)
    BY DEF HasSigned, Apart
  <2>3. ASSUME NEW e \in Devices, NEW s \in Active, e \in Parties[s]
        PROVE  InOrder(e, s, toDevice[e], parked[e])'
    <3>1. InOrder(e, s, toDevice'[e], parked'[e])
      BY <2>1, <2>3
    <3> QED
      BY ONLY <2>2, <3>1 DEF InOrder, AllApart, Behind
  <2> QED
    BY <1>1, <2>3 DEF AskedInOrder
<1> QED
  BY <1>2, <1>3, <1>4 DEF HostInv

\* The state of a link, as the invariant has it.
LEMMA LinkIs ==
  ASSUME IInv, HostInv, NEW d \in Devices
  PROVE  /\ toDevice[d] \in Seq(Requests(d)) /\ toCoord[d] \in Seq(Answers(d))
         /\ ClaimsOf(toDevice[d], slots[d])
         /\ \A t \in Streams : AnswersOf(toCoord[d], t, cache[d][t], slots[d][t])
         /\ \A s \in Active : d \in Parties[s] => InOrder(d, s, toDevice[d], parked[d])
BY DEF IInv, WireInv, HostInv, ClaimsFollow, AnswersFollow, AskedInOrder

\* One more request, of a session apart from those under way.
LEMMA RequestFollows ==
  ASSUME IInv, HostInv, NEW d \in Devices, NEW m,
         toDevice' = [toDevice EXCEPT ![d] = Append(@, m)],
         UNCHANGED <<cache, status, assigned, slots, signed, parked, toCoord>>,
         m.type = "open" => \A t \in DOMAIN m.claims : Covered(m.claims[t], slots[d][t]),
         m.type = "sign" => \A s \in Active : d \in Parties[s] => Apart(d, s, m.session)
  PROVE  HostInv'
<1>1. /\ toDevice'[d] = Append(toDevice[d], m)
      /\ \A e \in Devices \ {d} : toDevice'[e] = toDevice[e]
  BY DEF IInv, WireInv
<1>2. ClaimsOf(Append(toDevice[d], m), slots[d])
  BY LinkIs, ClaimsChange
<1>3. ASSUME NEW s \in Active, d \in Parties[s]
      PROVE  InOrder(d, s, Append(toDevice[d], m), parked[d])
  <2>1. InOrder(d, s, toDevice[d], parked[d]) /\ toDevice[d] \in Seq(Requests(d))
    BY <1>3, LinkIs
  <2>2. m.type = "sign" => Apart(d, s, m.session)
    BY <1>3
  <2>3. /\ AllApart(toDevice[d], d, s) => AllApart(Append(toDevice[d], m), d, s)
        /\ Behind(toDevice[d], d, s) => Behind(Append(toDevice[d], m), d, s)
    BY <2>1, <2>2, ApartChange
  <2> QED
    BY <2>1, <2>3 DEF InOrder
<1> QED
  BY <1>1, <1>2, <1>3, LinkIs, LinkMoves

LEMMA OpenStreamsFollows ==
  ASSUME IInv, HostInv, NEW d \in Devices, OpenStreams(d)
  PROVE  HostInv'
<1>1. UNCHANGED <<cache, status, assigned, slots, signed, parked, toCoord>>
  BY DEF OpenStreams, deviceVars
<1>2. PICK new \in SUBSET (Streams \ drawn[d]) : toDevice' = [toDevice EXCEPT ![d] =
        Append(@, [type |-> "open", claims |-> [t \in Known(d) \cup new |->
          IF t \in new THEN [index |-> 0, remaining |-> 0]
          ELSE [index |-> cache[d][t].index, remaining |-> Size(cache[d][t])]]])]
  BY DEF OpenStreams
<1> DEFINE claims == [t \in Known(d) \cup new |->
              IF t \in new THEN [index |-> 0, remaining |-> 0]
              ELSE [index |-> cache[d][t].index, remaining |-> Size(cache[d][t])]]
           m == [type |-> "open", claims |-> claims]
<1>3. ASSUME NEW t \in DOMAIN claims
      PROVE  Covered(claims[t], slots[d][t])
  <2>1. CASE t \in new
    BY <2>1, SigningAssumption DEF Covered
  <2>2. CASE t \notin new
    <3>1. t \in Streams /\ cache[d][t] # None
      BY <2>2 DEF Known
    <3>2. Sized(cache[d][t]) /\ slots[d][t] # None /\ slots[d][t].index \in Nat
      BY <3>1, Entries DEF HostInv, CacheFollows, Follows
    <3>3. cache[d][t].next <= slots[d][t].index + Batch
      BY <3>1 DEF HostInv, CacheFollows, Follows
    <3>4. claims[t].index + claims[t].remaining = cache[d][t].next
      BY <2>2, <3>2 DEF Size, Sized
    <3> HIDE DEF claims
    <3> QED
      BY <3>2, <3>3, <3>4 DEF Covered
  <2> QED
    BY <2>1, <2>2
<1>4. m.type = "open" /\ m.claims = claims /\ m.type # "sign"
  OBVIOUS
<1>5. toDevice' = [toDevice EXCEPT ![d] = Append(@, m)]
  BY <1>2
<1> HIDE DEF m, claims
<1> QED
  BY <1>1, <1>3, <1>4, <1>5, RequestFollows

LEMMA RequestDeviceSignFollows ==
  ASSUME IInv, HostInv, NEW s \in Sessions, NEW d \in Devices, RequestDeviceSign(s, d)
  PROVE  HostInv'
<1> DEFINE m == [type |-> "sign", session |-> s]
<1>1. /\ s \in Active /\ d \in Parties[s]
      /\ toDevice' = [toDevice EXCEPT ![d] = Append(@, m)]
      /\ UNCHANGED <<cache, status, assigned, slots, signed, parked, toCoord>>
  BY DEF RequestDeviceSign, deviceVars
<1>2. \A r \in Active : d \in Parties[r] => Apart(d, r, s)
  BY <1>1 DEF IInv, CoordInv, ActiveNoncesAreDisjoint, Apart
<1>3. m.type = "sign" /\ m.session = s /\ m.type # "open"
  OBVIOUS
<1> HIDE DEF m
<1> QED
  BY <1>1, <1>2, <1>3, RequestFollows

LEMMA RecvRequestFollows ==
  ASSUME IInv, HostInv, NEW d \in Devices, RecvRequest(d)
  PROVE  HostInv'
<1> DEFINE s == Message(d).session
           q == toDevice[d]
<1>1. /\ toDevice[d] # <<>> /\ Head(q).type = "sign" /\ Head(q).session = s
      /\ toDevice' = [toDevice EXCEPT ![d] = Tail(@)]
      /\ parked' = [parked EXCEPT ![d] = IF assigned[s][d].stream \in Held(d) THEN s ELSE @]
      /\ UNCHANGED <<cache, status, assigned, slots, signed, toCoord>>
  BY DEF RecvRequest, Handling, Message, coordVars
<1>2. /\ toDevice'[d] = Tail(q) /\ parked'[d] \in {s, parked[d]}
      /\ \A e \in Devices \ {d} : toDevice'[e] = toDevice[e] /\ parked'[e] = parked[e]
  BY <1>1 DEF IInv, WireInv, DeviceInv, DeviceTypes
<1>3. q \in Seq(Requests(d)) /\ ClaimsOf(q, slots[d])
  BY LinkIs
<1>4. ASSUME NEW r \in Active, d \in Parties[r]
      PROVE  InOrder(d, r, Tail(q), parked'[d])
  <2>1. InOrder(d, r, q, parked[d])
    BY <1>4, LinkIs
  <2> HIDE DEF q, s
  <2>2. /\ AllApart(q, d, r) => AllApart(Tail(q), d, r)
        /\ Behind(q, d, r) => Behind(Tail(q), d, r)
        /\ Behind(q, d, r) /\ s = r => AllApart(Tail(q), d, r)
        /\ AllApart(q, d, r) => Apart(d, r, s)
    BY <1>1, <1>3, ApartChange DEF q
  <2> QED
    BY <1>2, <2>1, <2>2 DEF InOrder
<1>5. ClaimsOf(Tail(q), slots[d])
  BY <1>1, <1>3, ClaimsChange
<1> QED
  BY <1>1, <1>2, <1>4, <1>5, LinkIs, LinkMoves

\* The prompt goes and nothing is signed.
LEMMA DismissFollows ==
  ASSUME IInv, HostInv, NEW d \in Devices, parked' = [parked EXCEPT ![d] = None],
         UNCHANGED <<cache, status, assigned, slots, signed, toDevice, toCoord>>
  PROVE  HostInv'
<1>1. parked'[d] = None /\ \A e \in Devices \ {d} : parked'[e] = parked[e]
  BY DEF IInv, DeviceInv, DeviceTypes
<1>2. ASSUME NEW s \in Active, d \in Parties[s]
      PROVE  InOrder(d, s, toDevice[d], None)
  <2>1. InOrder(d, s, toDevice[d], parked[d])
    BY <1>2, LinkIs
  <2>2. s # None
    BY SigningAssumption DEF Active
  <2> QED
    BY <2>1, <2>2 DEF InOrder
<1> QED
  BY <1>1, <1>2, LinkIs, LinkMoves

\* An unplugged device has nothing on its link and nothing on its screen.
LEMMA UnplugFollows ==
  ASSUME ~OtherHosts, IInv, HostInv, NEW d \in Devices, Unplug(d) \/ UseElsewhere(d)
  PROVE  HostInv'
<1>1. /\ parked' = [parked EXCEPT ![d] = None]
      /\ toDevice' = [toDevice EXCEPT ![d] = <<>>] /\ toCoord' = [toCoord EXCEPT ![d] = <<>>]
      /\ UNCHANGED <<cache, status, assigned, slots, signed>>
  BY DEF Unplug, UseElsewhere, Unplugged, coordVars
<1>2. /\ parked'[d] = None /\ toDevice'[d] = <<>> /\ toCoord'[d] = <<>>
      /\ \A e \in Devices \ {d} : /\ toDevice'[e] = toDevice[e]
                                  /\ toCoord'[e] = toCoord[e] /\ parked'[e] = parked[e]
  BY <1>1 DEF IInv, WireInv, DeviceInv, DeviceTypes
<1>3. ASSUME NEW s \in Active
      PROVE  InOrder(d, s, <<>>, None)
  BY SigningAssumption DEF InOrder, AllApart, Behind, Active
<1>4. ClaimsOf(<<>>, slots[d]) /\ \A t \in Streams : AnswersOf(<<>>, t, cache[d][t], slots[d][t])
  BY DEF ClaimsOf, AnswersOf
<1> QED
  BY <1>1, <1>2, <1>3, <1>4, LinkMoves

\* What is on a channel is one of its messages.
LEMMA ElementsAre ==
  ASSUME NEW S, NEW q \in Seq(S), NEW i \in 1..Len(q)
  PROVE  q[i] \in S
  OBVIOUS

LEMMA AskedAreStarted ==
  ASSUME IInv, NEW d \in Devices, NEW i \in 1..Len(toDevice[d]), toDevice[d][i].type = "sign"
  PROVE  toDevice[d][i].session \in Started
<1>1. toDevice[d][i] \in Requests(d)
  BY ElementsAre DEF IInv, WireInv
<1> QED
  BY <1>1 DEF Requests

\* A new session takes nonces that are cached and that no other one takes;
\* nobody has been asked for it.
LEMMA StartSignFollows ==
  ASSUME IInv, HostInv, NEW s \in Sessions, StartSign(s)
  PROVE  HostInv'
<1> DEFINE chosen(d) == First(Usable(d, Items[s]))
           given(d) == [stream |-> chosen(d),
                        nonces |-> Slice(cache[d][chosen(d)], cache[d][chosen(d)].index,
                                         cache[d][chosen(d)].index + Items[s])]
<1>1. /\ status[s] = "new" /\ status' = [status EXCEPT ![s] = "active"]
      /\ assigned' = [assigned EXCEPT ![s] = [d \in Parties[s] |-> given(d)]]
      /\ UNCHANGED <<cache, slots, signed, parked, toDevice, toCoord>>
  BY DEF StartSign, deviceVars
<1>2. /\ Started' = Started \cup {s} /\ s \notin Started
      /\ Active' = Active \cup {s} /\ Active \subseteq Started
      /\ \A r \in Started : assigned'[r] = assigned[r]
      /\ \A d \in Parties[s] : assigned'[s][d] = given(d)
  BY <1>1 DEF Started, Active, IInv, CoordInv, CoordTypes
<1>3. ASSUME NEW d \in Parties[s]
      PROVE  LET c == cache[d][assigned'[s][d].stream]
                 g == assigned'[s][d].nonces
             IN c # None /\ g.next <= c.next /\ c.index <= g.next
  <2>1. d \in Devices /\ Usable(d, Items[s]) # {} /\ Items[s] \in Nat
    BY SigningAssumption DEF StartSign
  <2>2. chosen(d) \in Usable(d, Items[s])
    BY <2>1, FirstFact DEF Usable, Known
  <2>3. given(d).stream = chosen(d) /\ given(d).nonces.next = cache[d][chosen(d)].index + Items[s]
    BY DEF Slice
  <2> HIDE DEF chosen, given
  <2>4. chosen(d) \in Streams /\ cache[d][chosen(d)] # None /\ Size(cache[d][chosen(d)]) >= Items[s]
    BY <2>2 DEF Usable, Known
  <2>5. Sized(cache[d][chosen(d)])
    BY <2>1, <2>4, Entries
  <2>6. /\ cache[d][chosen(d)].index + Items[s] <= cache[d][chosen(d)].next
        /\ cache[d][chosen(d)].index <= cache[d][chosen(d)].index + Items[s]
    BY <2>1, <2>4, <2>5 DEF Size, Sized
  <2> QED
    BY <1>2, <2>3, <2>4, <2>6
<1> HIDE DEF given
<1>4. CacheFollows' /\ AnswersFollow' /\ ClaimsFollow' /\ SignedAreStarted'
  BY <1>1, <1>2 DEF HostInv, CacheFollows, AnswersFollow, ClaimsFollow, SignedAreStarted
<1>5. AssignedAreCached'
  <2> SUFFICES ASSUME NEW r \in Started', NEW d \in Parties[r]
               PROVE  LET c == cache[d][assigned'[r][d].stream]
                          g == assigned'[r][d].nonces
                      IN c # None /\ g.next <= c.next /\ (r \in Active' => c.index <= g.next)
    BY <1>1 DEF AssignedAreCached
  <2>1. CASE r = s
    BY <1>3, <2>1
  <2>2. CASE r # s
    <3>1. r \in Started /\ assigned'[r] = assigned[r] /\ (r \in Active' => r \in Active)
      BY <1>2, <2>2
    <3> QED
      BY <3>1 DEF HostInv, AssignedAreCached
  <2> QED
    BY <2>1, <2>2
<1>6. ASSUME NEW d \in Devices
      PROVE  /\ ~HasSigned(d, s) /\ parked[d] # s /\ (parked[d] # None => parked[d] \in Started)
             /\ \A i \in 1..Len(toDevice[d]) :
                  toDevice[d][i].type = "sign" => toDevice[d][i].session \in Started
  <2>1. ~HasSigned(d, s)
    BY <1>2 DEF HostInv, SignedAreStarted, HasSigned
  <2>2. parked[d] # None => parked[d] \in Started
    BY DEF IInv, DeviceInv, DeviceTypes
  <2> QED
    BY <1>2, <2>1, <2>2, AskedAreStarted, SigningAssumption
<1>7. AskedInOrder'
  <2> SUFFICES ASSUME NEW d \in Devices, NEW r \in Active', d \in Parties[r]
               PROVE  InOrder(d, r, toDevice[d], parked[d])'
    BY <1>1 DEF AskedInOrder
  <2>1. CASE r = s
    BY <1>1, <1>2, <1>6, <2>1 DEF InOrder, HasSigned, Behind
  <2>2. CASE r # s
    <3>1. r \in Active /\ r \in Started /\ InOrder(d, r, toDevice[d], parked[d])
      BY <1>2, <2>2, LinkIs
    <3>2. \A x \in Started : Apart(d, r, x)' <=> Apart(d, r, x)
      BY <1>2, <3>1 DEF Apart
    <3>3. HasSigned(d, r)' <=> HasSigned(d, r)
      BY <1>1 DEF HasSigned
    <3> QED
      BY <1>1, <1>6, <3>1, <3>2, <3>3 DEF InOrder, AllApart, Behind
  <2> QED
    BY <2>1, <2>2
<1>8. SignedIsReplayable'
  <2> SUFFICES ASSUME NEW r \in Active', NEW d \in Parties[r], HasSigned(d, r)
               PROVE  LET v == slots[d][assigned'[r][d].stream] IN v # None /\ v.session = r
    BY <1>1 DEF SignedIsReplayable, HasSigned
  <2>1. r \in Sessions /\ d \in Devices
    BY SigningAssumption DEF Active
  <2>2. r \in Active /\ assigned'[r] = assigned[r]
    BY <1>2, <1>6, <2>1
  <2> QED
    BY <2>2 DEF HostInv, SignedIsReplayable, HasSigned
<1> QED
  BY <1>4, <1>5, <1>7, <1>8 DEF HostInv

-------------------------------------------------------------------------------
(* Slots that move on, and slots that are opened.                            *)

\* Claims stay covered when slots are opened and move on.
LEMMA ClaimsGrow ==
  ASSUME NEW d \in Devices, NEW q \in Seq(Requests(d)), NEW row, NEW grown, ClaimsOf(q, row),
         \A t \in Streams : row[t] # None =>
           grown[t] # None /\ row[t].index \in Nat /\ grown[t].index \in Nat
                           /\ row[t].index <= grown[t].index
  PROVE  ClaimsOf(q, grown)
<1> SUFFICES ASSUME NEW i \in 1..Len(q), q[i].type = "open", NEW t \in DOMAIN q[i].claims
             PROVE  Covered(q[i].claims[t], grown[t])
  BY DEF ClaimsOf
<1> DEFINE claim == q[i].claims[t]
<1>1. t \in Streams /\ claim.index \in Nat /\ claim.remaining \in Nat
  <2>1. q[i] \in Requests(d)
    BY ElementsAre
  <2>2. q[i].claims \in Claims
    BY <2>1 DEF Requests
  <2> DEFINE claims == q[i].claims
  <2>3. claims \in Claims /\ t \in DOMAIN claims
    BY <2>2
  <2> HIDE DEF claims
  <2>4. PICK T \in SUBSET Streams : claims \in [T -> [index : Nat, remaining : Nat]]
    BY <2>3 DEF Claims
  <2>5. t \in Streams /\ claims[t] \in [index : Nat, remaining : Nat]
    BY <2>3, <2>4
  <2> QED
    BY <2>5 DEF claims
<1>2. Covered(claim, row[t])
  BY DEF ClaimsOf
<1> HIDE DEF claim
<1>3. Covered(claim, grown[t])
  BY <1>1, <1>2, SigningAssumption DEF Covered
<1> QED
  BY <1>3 DEF claim

\* A step of device d that may change its slots, and what it has signed.
LEMMA SlotsMove ==
  ASSUME IInv, HostInv, UNCHANGED <<cache, status, assigned>>, NEW d \in Devices,
         \A e \in Devices \ {d} :
           /\ slots'[e] = slots[e] /\ signed'[e] = signed[e] /\ parked'[e] = parked[e]
           /\ toDevice'[e] = toDevice[e] /\ toCoord'[e] = toCoord[e],
         \A t \in Streams : /\ Follows(cache[d][t], slots'[d][t])
                            /\ AnswersOf(toCoord'[d], t, cache[d][t], slots'[d][t]),
         ClaimsOf(toDevice'[d], slots'[d]),
         \A x \in signed'[d] : x.session \in Started,
         \A s \in Active : d \in Parties[s] =>
           /\ InOrder(d, s, toDevice[d], parked[d])'
           /\ HasSigned(d, s)' =>
                LET v == slots'[d][assigned[s][d].stream] IN v # None /\ v.session = s
  PROVE  HostInv'
<1>1. Started' = Started /\ Active' = Active
  BY DEF Started, Active
<1>2. CacheFollows' /\ AnswersFollow' /\ ClaimsFollow' /\ SignedAreStarted'
  <2>1. ASSUME NEW e \in Devices
        PROVE  /\ ClaimsOf(toDevice'[e], slots'[e])
               /\ \A x \in signed'[e] : x.session \in Started
               /\ \A t \in Streams : /\ Follows(cache[e][t], slots'[e][t])
                                     /\ AnswersOf(toCoord'[e], t, cache[e][t], slots'[e][t])
    <3>1. CASE e = d
      BY <3>1
    <3>2. CASE e # d
      <4>1. /\ ClaimsOf(toDevice[e], slots[e]) /\ \A x \in signed[e] : x.session \in Started
            /\ \A t \in Streams : /\ Follows(cache[e][t], slots[e][t])
                                  /\ AnswersOf(toCoord[e], t, cache[e][t], slots[e][t])
        BY DEF HostInv, CacheFollows, AnswersFollow, ClaimsFollow, SignedAreStarted
      <4>2. /\ slots'[e] = slots[e] /\ signed'[e] = signed[e]
            /\ toDevice'[e] = toDevice[e] /\ toCoord'[e] = toCoord[e]
        BY <3>2
      <4> QED
        BY <4>1, <4>2
    <3> QED
      BY <3>1, <3>2
  <2> QED
    BY <1>1, <2>1 DEF CacheFollows, AnswersFollow, ClaimsFollow, SignedAreStarted
<1>3. AssignedAreCached'
  BY <1>1 DEF HostInv, AssignedAreCached
<1>4. ASSUME NEW e \in Devices, NEW s \in Active, e \in Parties[s]
      PROVE  /\ InOrder(e, s, toDevice[e], parked[e])'
             /\ HasSigned(e, s)' =>
                  LET v == slots'[e][assigned[s][e].stream] IN v # None /\ v.session = s
  <2>1. CASE e = d
    BY <1>4, <2>1
  <2>2. CASE e # d
    <3>1. /\ slots'[e] = slots[e] /\ signed'[e] = signed[e] /\ parked'[e] = parked[e]
          /\ toDevice'[e] = toDevice[e]
      BY <2>2
    <3>2. InOrder(e, s, toDevice[e], parked[e])
      BY <1>4, LinkIs
    <3>3. HasSigned(e, s) => LET v == slots[e][assigned[s][e].stream] IN v # None /\ v.session = s
      BY <1>4 DEF HostInv, SignedIsReplayable, HasSigned
    <3>4. HasSigned(e, s)' <=> HasSigned(e, s)
      BY <3>1 DEF HasSigned
    <3>5. InOrder(e, s, toDevice[e], parked[e])'
      <4>1. UNCHANGED assigned
        OBVIOUS
      <4>2. \A r : Apart(e, s, r)' <=> Apart(e, s, r)
        BY ONLY <4>1 DEF Apart
      <4>3. AllApart(toDevice[e], e, s)' <=> AllApart(toDevice[e], e, s)
        BY ONLY <3>1, <4>2 DEF AllApart
      <4>4. Behind(toDevice[e], e, s)' <=> Behind(toDevice[e], e, s)
        BY ONLY <3>1, <4>2 DEF Behind
      <4> QED
        BY ONLY <3>1, <3>2, <3>4, <4>2, <4>3, <4>4 DEF InOrder
    <3> QED
      BY ONLY <3>1, <3>3, <3>4, <3>5, <1>4
  <2> QED
    BY <2>1, <2>2
<1>5. AskedInOrder'
  BY <1>1, <1>4 DEF AskedInOrder
<1>6. SignedIsReplayable'
  <2> SUFFICES ASSUME NEW s \in Active, NEW e \in Parties[s], HasSigned(e, s)'
               PROVE  LET v == slots'[e][assigned[s][e].stream] IN v # None /\ v.session = s
    BY <1>1 DEF SignedIsReplayable, HasSigned
  <2>1. e \in Devices
    BY SigningAssumption DEF Active
  <2> QED
    BY <1>4, <2>1
<1> QED
  BY <1>2, <1>3, <1>5, <1>6 DEF HostInv

\* A refill that has just been cut, from where the slot stands.
LEMMA FreshRefill ==
  ASSUME NEW c, NEW v, v # None, v.index \in Nat, Follows(c, v), c # None => Sized(c)
  PROVE  /\ Refills(c, v, Segment(v.index, v.index + Batch, v.seed))
         /\ Segment(v.index, v.index + Batch, v.seed).index = v.index
<1> DEFINE g == Segment(v.index, v.index + Batch, v.seed)
<1>1. g.index = v.index /\ g.next = v.index + Batch
  BY SegmentIs
<1>2. c # None => c.next <= v.index + Batch
  BY DEF Follows
<1>3. g.index \in 0..v.index /\ g = Segment(g.index, g.index + Batch, v.seed)
  BY <1>1
<1> HIDE DEF g
<1>4. Refills(c, v, g)
  BY <1>1, <1>2, <1>3 DEF Refills
<1> QED
  BY <1>1, <1>4 DEF g

\* Device d, with session s on its screen, signs it: its slot v of stream t
\* becomes after, and m is what it answers.
Signs(d, s, t, v, after, m) ==
  /\ UNCHANGED <<cache, status, assigned, toDevice>>
  /\ d \in Parties[s] /\ parked[d] = s /\ t = assigned[s][d].stream
  /\ v = slots[d][t] /\ v # None
  /\ after # None /\ after.index \in Nat /\ v.index <= after.index
  /\ after.index <= cache[d][t].next /\ after.seed = v.seed /\ after.session = s
  /\ parked'[d] = None /\ slots'[d][t] = after
  /\ \A u \in Streams \ {t} : slots'[d][u] = slots[d][u]
  /\ \A x \in signed'[d] : x \in signed[d] \/ x.session = s
  /\ toCoord'[d] = Append(toCoord[d], m)
  /\ m.type = "share" /\ m.stream = t
  /\ m.replenish = Segment(after.index, after.index + Batch, after.seed)
  /\ \A e \in Devices \ {d} :
       /\ slots'[e] = slots[e] /\ signed'[e] = signed[e] /\ parked'[e] = parked[e]
       /\ toDevice'[e] = toDevice[e] /\ toCoord'[e] = toCoord[e]

LEMMA SigningFollows ==
  ASSUME IInv, HostInv, NEW d \in Devices, NEW s \in Started, NEW t \in Streams,
         NEW v, NEW after, NEW m, Signs(d, s, t, v, after, m)
  PROVE  HostInv'
<1> DEFINE c == cache[d][t]
           q == toCoord[d]
<1>1. /\ UNCHANGED <<cache, status, assigned, toDevice>>
      /\ d \in Parties[s] /\ parked[d] = s /\ t = assigned[s][d].stream
      /\ v = slots[d][t] /\ v # None
      /\ \A u \in Streams \ {t} : slots'[d][u] = slots[d][u]
      /\ \A x \in signed'[d] : x \in signed[d] \/ x.session = s
      /\ \A e \in Devices \ {d} :
           /\ slots'[e] = slots[e] /\ signed'[e] = signed[e] /\ parked'[e] = parked[e]
           /\ toDevice'[e] = toDevice[e] /\ toCoord'[e] = toCoord[e]
  BY Zenon DEF Signs
<1>2. /\ after # None /\ after.index \in Nat /\ v.index <= after.index
      /\ after.index <= c.next /\ after.seed = v.seed /\ after.session = s
      /\ parked'[d] = None /\ slots'[d][t] = after
      /\ toCoord'[d] = Append(q, m)
      /\ m.type = "share" /\ m.stream = t
      /\ m.replenish = Segment(after.index, after.index + Batch, after.seed)
  BY Zenon DEF Signs
<1>3. /\ c # None /\ Sized(c) /\ v.index \in Nat /\ Follows(c, v)
  <2>1. c # None
    BY <1>1 DEF HostInv, AssignedAreCached
  <2> QED
    BY <1>1, <2>1, Entries DEF HostInv, CacheFollows
<1>4. Follows(c, after)
  BY <1>2, <1>3, SigningAssumption DEF Follows, Sized, Genuine
<1>5. q \in Seq(Answers(d)) /\ \A u \in Streams : AnswersOf(q, u, cache[d][u], slots[d][u])
  BY LinkIs
<1>6. AnswersOf(Append(q, m), t, c, after)
  <2>1. AnswersOf(q, t, c, v)
    BY <1>1, <1>5
  <2>2. ASSUME NEW i \in 1..Len(q), Carries(q[i], t)
        PROVE  c.next <= Carried(q[i], t).next
    BY <1>3, <2>1, <2>2 DEF AnswersOf, Refills
  <2>3. AnswersOf(q, t, c, after)
    BY <1>2, <1>3, <2>1, <2>2, AnswersMove
  <2>4. Carries(m, t) => Refills(c, after, Carried(m, t)) /\ Carried(m, t).index = after.index
    <3>1. Carried(m, t) = Segment(after.index, after.index + Batch, after.seed)
      BY <1>2 DEF Carried
    <3> QED
      BY <1>2, <1>3, <1>4, <3>1, FreshRefill
  <2> HIDE DEF c, q
  <2> QED
    BY <1>2, <1>5, <2>3, <2>4, AnswersAppend
<1>7. ASSUME NEW u \in Streams
      PROVE  /\ Follows(cache[d][u], slots'[d][u])
             /\ AnswersOf(toCoord'[d], u, cache[d][u], slots'[d][u])
  <2>1. CASE u = t
    BY <1>2, <1>4, <1>6, <2>1
  <2>2. CASE u # t
    <3>1. slots'[d][u] = slots[d][u] /\ Follows(cache[d][u], slots[d][u])
      BY <1>1, <2>2 DEF HostInv, CacheFollows
    <3>2. ~Carries(m, u)
      BY <1>2, <2>2 DEF Carries
    <3>3. slots[d][u] # None => slots[d][u].index \in Nat
      BY Entries
    <3>4. AnswersOf(q, u, cache[d][u], slots[d][u])
      BY <1>5
    <3> HIDE DEF q
    <3>5. AnswersOf(Append(q, m), u, cache[d][u], slots[d][u])
      BY <1>5, <3>2, <3>3, <3>4, AnswersAppend
    <3> QED
      BY <1>2, <3>1, <3>5
  <2> QED
    BY <2>1, <2>2
<1>8. ClaimsOf(toDevice'[d], slots'[d])
  <2>1. \A u \in Streams : slots[d][u] # None =>
          /\ slots'[d][u] # None /\ slots[d][u].index \in Nat /\ slots'[d][u].index \in Nat
          /\ slots[d][u].index <= slots'[d][u].index
    <3> SUFFICES ASSUME NEW u \in Streams, slots[d][u] # None
                 PROVE  /\ slots'[d][u] # None /\ slots[d][u].index \in Nat
                        /\ slots'[d][u].index \in Nat
                        /\ slots[d][u].index <= slots'[d][u].index
      OBVIOUS
    <3>1. slots[d][u].index \in Nat
      BY Entries
    <3>2. CASE u = t
      <4>1. /\ slots[d][u] = v /\ slots'[d][u] = after
            /\ after # None /\ after.index \in Nat /\ v.index <= after.index
        BY ONLY <1>1, <1>2, <3>2
      <4> QED
        BY ONLY <3>1, <4>1
    <3>3. CASE u # t
      <4>1. slots'[d][u] = slots[d][u]
        BY ONLY <1>1, <3>3, u \in Streams
      <4> QED
        BY ONLY <3>1, <4>1, slots[d][u] # None
    <3> QED
      BY ONLY <3>2, <3>3
  <2>2. toDevice'[d] = toDevice[d]
    BY <1>1
  <2> QED
    BY <2>1, <2>2, LinkIs, ClaimsGrow
<1>9. ASSUME NEW r \in Active, d \in Parties[r]
      PROVE  /\ InOrder(d, r, toDevice[d], parked[d])'
             /\ HasSigned(d, r)' =>
                  LET w == slots'[d][assigned[r][d].stream] IN w # None /\ w.session = r
  <2>1. InOrder(d, r, toDevice[d], s)
    BY <1>1, <1>9, LinkIs
  <2>2. r # None /\ s # None /\ r \in Started
    BY SigningAssumption DEF Active, Started
  <2>3. HasSigned(d, r)' => HasSigned(d, r) \/ r = s
    BY <1>1 DEF HasSigned
  <2>4. AllApart(toDevice[d], d, r)' <=> AllApart(toDevice[d], d, r)
    BY <1>1 DEF AllApart, Apart
  <2>5. Behind(toDevice[d], d, r)' <=> Behind(toDevice[d], d, r)
    BY <1>1 DEF Behind, Apart
  <2>6. InOrder(d, r, toDevice[d], parked[d])'
    BY <1>2, <2>1, <2>2, <2>3, <2>4, <2>5 DEF InOrder
  <2>7. ASSUME HasSigned(d, r)'
        PROVE  LET w == slots'[d][assigned[r][d].stream] IN w # None /\ w.session = r
    <3>1. CASE r = s
      BY <1>1, <1>2, <3>1
    <3>2. CASE r # s
      <4>1. HasSigned(d, r)
        BY <2>3, <2>7, <3>2
      <4>2. assigned[r][d].stream # t
        BY <1>1, <2>1, <2>2, <3>2, <4>1 DEF InOrder, Apart
      <4>3. assigned[r][d].stream \in Streams
        BY <1>9, <2>2, Selected
      <4>4. slots'[d][assigned[r][d].stream] = slots[d][assigned[r][d].stream]
        BY <1>1, <4>2, <4>3
      <4> QED
        BY <1>9, <4>1, <4>4 DEF HostInv, SignedIsReplayable, HasSigned
    <3> QED
      BY <3>1, <3>2
  <2> QED
    BY <2>6, <2>7
<1>10. \A x \in signed'[d] : x.session \in Started
  BY <1>1 DEF HostInv, SignedAreStarted
<1> QED
  BY <1>1, <1>7, <1>8, <1>9, <1>10, SlotsMove

LEMMA ConfirmFollows ==
  ASSUME NoneIsNothing, IInv, HostInv, NEW d \in Devices, Confirm(d)
  PROVE  HostInv'
<1> DEFINE s == parked[d]
           t == assigned[s][d].stream
           g == assigned[s][d].nonces
           v == slots[d][t]
           after == IF Cached(v, s) THEN v ELSE SlotValue(g.next, v.seed, s)
           used == Segment(g.index, g.next, v.seed)
           m == [type |-> "share", session |-> s, stream |-> t, nonces |-> used,
                 replenish |-> Segment(after.index, after.index + Batch, after.seed)]
<1>0. DeviceTypes /\ WireInv
  BY DEF IInv, DeviceInv
<1>1. /\ parked' = [parked EXCEPT ![d] = None]
      /\ UNCHANGED <<cache, status, assigned, toDevice>>
  BY DEF Confirm, coordVars
<1>2. s \in Started /\ d \in Parties[s]
  BY <1>0 DEF Confirm, DeviceTypes
<1>3. t \in Streams /\ g.index \in Nat /\ g.next \in Nat /\ g.index <= g.next
  BY <1>2, Selected
<1>4. CASE ~(Cached(v, s) \/ Signable(v, g))
  <2>1. UNCHANGED <<slots, signed, toCoord>>
    BY <1>4 DEF Confirm
  <2> QED
    BY <1>1, <2>1, DismissFollows
<1>5. CASE Cached(v, s) \/ Signable(v, g)
  <2>1. /\ slots' = [slots EXCEPT ![d][t] = after]
        /\ signed' = [signed EXCEPT ![d] = @ \cup {Use(s, used)}]
        /\ toCoord' = [toCoord EXCEPT ![d] = Append(@, m)]
    BY <1>5 DEF Confirm, Use
  <2>2. v # None /\ v.index \in Nat
    BY <1>3, <1>5, Entries DEF Cached, Signable
  <2>3. cache[d][t] # None /\ g.next <= cache[d][t].next /\ v.index <= cache[d][t].next
    <3>1. cache[d][t] # None /\ g.next <= cache[d][t].next
      BY <1>2 DEF HostInv, AssignedAreCached
    <3> QED
      BY <1>3, <3>1 DEF HostInv, CacheFollows, Follows
  <2>4. /\ after # None /\ after.index \in Nat /\ v.index <= after.index
        /\ after.index <= cache[d][t].next /\ after.seed = v.seed /\ after.session = s
    <3>1. CASE Cached(v, s)
      <4>1. after = v /\ v.session = s
        BY ONLY <3>1 DEF Cached, after
      <4> HIDE DEF after, v, g, s, t
      <4> QED
        BY ONLY <2>2, <2>3, <4>1
    <3>2. CASE ~Cached(v, s)
      <4>1. after = SlotValue(g.next, v.seed, s) /\ v.index <= g.index
        BY <1>3, <1>5, <2>2, <3>2 DEF Signable
      <4> HIDE DEF after, v, g, s
      <4>2. after # None /\ after.index = g.next /\ after.seed = v.seed /\ after.session = s
        BY <4>1 DEF SlotValue, NoneIsNothing
      <4> QED
        BY <1>3, <2>2, <2>3, <4>1, <4>2
    <3> QED
      BY <3>1, <3>2
  <2>5. m.type = "share" /\ m.stream = t
        /\ m.replenish = Segment(after.index, after.index + Batch, after.seed)
    OBVIOUS
  <2>6. /\ slots'[d][t] = after
        /\ \A u \in Streams \ {t} : slots'[d][u] = slots[d][u]
        /\ \A e \in Devices \ {d} : slots'[e] = slots[e]
    BY <1>0, <1>3, <2>1 DEF DeviceTypes
  <2>7. /\ parked'[d] = None
        /\ \A e \in Devices \ {d} :
             /\ signed'[e] = signed[e] /\ parked'[e] = parked[e] /\ toDevice'[e] = toDevice[e]
    BY <1>0, <1>1, <2>1 DEF DeviceTypes
  <2>8. \A x \in signed'[d] : x \in signed[d] \/ x.session = s
    <3>1. signed'[d] = signed[d] \cup {Use(s, used)}
      BY <1>0, <2>1 DEF DeviceTypes
    <3>2. Use(s, used).session = s
      BY ONLY DEF Use
    <3> HIDE DEF s, used
    <3> QED
      BY ONLY <3>1, <3>2
  <2>9. toCoord'[d] = Append(toCoord[d], m) /\ \A e \in Devices \ {d} : toCoord'[e] = toCoord[e]
    <3> HIDE DEF m
    <3> QED
      BY <1>0, <2>1 DEF WireInv
  <2> HIDE DEF after, m
  <2>10. Signs(d, s, t, v, after, m)
    BY <1>1, <1>2, <2>2, <2>4, <2>5, <2>6, <2>7, <2>8, <2>9, Zenon DEF Signs
  <2> HIDE DEF s, t, v
  <2> QED
    BY <1>2, <1>3, <2>10, SigningFollows
<1> QED
  BY <1>4, <1>5

\* What is sent for a covered claim is a whole batch, or nothing.
LEMMA SendsABatch ==
  ASSUME NEW v, v.index \in Nat, NEW claim, claim.index \in Nat, claim.remaining \in Nat,
         Covered(claim, v), ToSend(v, claim) > 0
  PROVE  ToSend(v, claim) = Batch
<1>1. CASE v.index > claim.index \/ claim.remaining < Batch
  BY <1>1 DEF ToSend
<1>2. CASE ~(v.index > claim.index \/ claim.remaining < Batch)
  <2>1. ToSend(v, claim) = Lesser(claim.index - v.index, Batch)
    BY <1>2 DEF ToSend
  <2>2. claim.index + claim.remaining <= v.index + Batch /\ Batch \in Nat \ {0}
    BY <1>2, SigningAssumption DEF Covered
  <2>3. claim.index - v.index = 0
    BY <1>2, <2>2
  <2> QED
    BY <2>1, <2>2, <2>3 DEF Lesser
<1> QED
  BY <1>1, <1>2

\* Where there is a slot for every stream, none is given up.
LEMMA NoneIsLost ==
  ASSUME Cardinality(Streams) <= NSlots, NEW held \in SUBSET Streams, NEW new \in SUBSET Streams,
         held \cap new = {}, NEW lost \in SUBSET Streams,
         Cardinality(lost) = (IF Cardinality(held) + Cardinality(new) > NSlots
                              THEN (Cardinality(held) + Cardinality(new)) - NSlots ELSE 0)
  PROVE  lost = {}
<1>1. /\ IsFiniteSet(Streams) /\ IsFiniteSet(held) /\ IsFiniteSet(new) /\ IsFiniteSet(lost)
      /\ Cardinality(held) \in Nat /\ Cardinality(new) \in Nat /\ Cardinality(Streams) \in Nat
  BY SigningAssumption, FS_Subset, FS_CardinalityType
<1>2. Cardinality(held \cup new) = Cardinality(held) + Cardinality(new)
  <2>1. Cardinality(held \cap new) = 0
    BY FS_EmptySet
  <2>2. Cardinality(held \cup new) = Cardinality(held) + Cardinality(new) - Cardinality(held \cap new)
    BY <1>1, FS_Union
  <2> QED
    BY <1>1, <2>1, <2>2
<1>3. Cardinality(held \cup new) <= Cardinality(Streams)
  <2>1. held \cup new \in SUBSET Streams
    OBVIOUS
  <2> QED
    BY <1>1, <2>1, FS_Subset
<1>4. Cardinality(lost) = 0
  BY <1>1, <1>2, <1>3, SigningAssumption
<1> QED
  BY <1>1, <1>4, FS_EmptySet

\* Device d takes the head of its channel: its slots are now as in row, and m
\* is what it answers.
Opened(d, row, m) ==
  /\ UNCHANGED <<cache, status, assigned, signed, parked>>
  /\ toDevice[d] # <<>> /\ Head(toDevice[d]).type = "open"
  /\ toDevice'[d] = Tail(toDevice[d]) /\ toCoord'[d] = Append(toCoord[d], m)
  /\ \A t \in Streams :
       /\ slots'[d][t] = row[t]
       /\ slots[d][t] # None => row[t] = slots[d][t]
       /\ row[t] = None \/ slots[d][t] # None \/ row[t].index = 0
  /\ m.type = "nonces"
  /\ \A t \in DOMAIN m.segments :
       /\ t \in Streams /\ row[t] # None
       /\ m.segments[t] = Segment(row[t].index, row[t].index + Batch, row[t].seed)
  /\ \A e \in Devices \ {d} :
       slots'[e] = slots[e] /\ toDevice'[e] = toDevice[e] /\ toCoord'[e] = toCoord[e]

LEMMA OpenedFollows ==
  ASSUME IInv, HostInv, NEW d \in Devices, NEW row, NEW m, Opened(d, row, m)
  PROVE  HostInv'
<1> DEFINE q == toCoord[d]
<1>1. /\ UNCHANGED <<cache, status, assigned, signed, parked>>
      /\ toDevice[d] # <<>> /\ Head(toDevice[d]).type = "open"
      /\ toDevice'[d] = Tail(toDevice[d]) /\ toCoord'[d] = Append(q, m)
      /\ \A e \in Devices \ {d} :
           slots'[e] = slots[e] /\ toDevice'[e] = toDevice[e] /\ toCoord'[e] = toCoord[e]
  BY Zenon DEF Opened
<1>2. /\ \A t \in Streams :
           /\ slots'[d][t] = row[t]
           /\ slots[d][t] # None => row[t] = slots[d][t]
           /\ row[t] = None \/ slots[d][t] # None \/ row[t].index = 0
      /\ m.type = "nonces"
      /\ \A t \in DOMAIN m.segments :
           /\ t \in Streams /\ row[t] # None
           /\ m.segments[t] = Segment(row[t].index, row[t].index + Batch, row[t].seed)
  BY Zenon DEF Opened
<1>3. q \in Seq(Answers(d)) /\ toDevice[d] \in Seq(Requests(d)) /\ ClaimsOf(toDevice[d], slots[d])
  BY LinkIs
<1>4. ASSUME NEW t \in Streams
      PROVE  /\ Follows(cache[d][t], slots'[d][t])
             /\ AnswersOf(toCoord'[d], t, cache[d][t], slots'[d][t])
  <2> DEFINE c == cache[d][t]
             v == slots[d][t]
             w == row[t]
  <2>1. /\ Follows(c, v) /\ AnswersOf(q, t, c, v) /\ (c = None \/ Sized(c))
        /\ v # None => v.index \in Nat
    BY LinkIs, Entries DEF HostInv, CacheFollows
  <2>2. /\ v # None => w = v
        /\ w # None => w.index \in Nat /\ (v = None => w.index = 0)
    BY <1>2, <2>1
  <2>3. Follows(c, w)
    BY <2>1, <2>2 DEF Follows
  <2>4. AnswersOf(q, t, c, w)
    <3>1. CASE v # None
      BY <2>1, <2>2, <3>1
    <3>2. CASE v = None
      <4>1. c = None
        BY <2>1, <3>2 DEF Follows
      <4> HIDE DEF c, v, w, q
      <4> QED
        BY <2>1, <3>2, <4>1, AnswersMove
    <3> QED
      BY <3>1, <3>2
  <2>5. Carries(m, t) => Refills(c, w, Carried(m, t)) /\ Carried(m, t).index = w.index
    <3> SUFFICES ASSUME Carries(m, t)
                 PROVE  Refills(c, w, Carried(m, t)) /\ Carried(m, t).index = w.index
      OBVIOUS
    <3>1. t \in DOMAIN m.segments /\ Carried(m, t) = m.segments[t]
      BY <1>2 DEF Carries, Carried
    <3>2. w # None /\ Carried(m, t) = Segment(w.index, w.index + Batch, w.seed)
      BY <1>2, <3>1
    <3> HIDE DEF c, v, w
    <3> QED
      BY <2>1, <2>2, <2>3, <3>2, FreshRefill
  <2>6. AnswersOf(Append(q, m), t, c, w)
    <3> HIDE DEF c, v, w, q
    <3> QED
      BY <1>3, <2>2, <2>4, <2>5, AnswersAppend
  <2> QED
    BY <1>1, <1>2, <2>3, <2>6
<1>5. ClaimsOf(toDevice'[d], slots'[d])
  <2>1. ClaimsOf(Tail(toDevice[d]), slots[d]) /\ Tail(toDevice[d]) \in Seq(Requests(d))
    BY <1>1, <1>3, ClaimsChange
  <2>2. \A t \in Streams : slots[d][t] # None =>
          /\ slots'[d][t] # None /\ slots[d][t].index \in Nat /\ slots'[d][t].index \in Nat
          /\ slots[d][t].index <= slots'[d][t].index
    BY <1>2, Entries
  <2>3. ClaimsOf(Tail(toDevice[d]), slots'[d])
    BY <2>1, <2>2, ClaimsGrow
  <2> QED
    BY <1>1, <2>3
<1>6. ASSUME NEW s \in Active, d \in Parties[s]
      PROVE  /\ InOrder(d, s, toDevice[d], parked[d])'
             /\ HasSigned(d, s)' =>
                  LET v == slots'[d][assigned[s][d].stream] IN v # None /\ v.session = s
  <2>1. InOrder(d, s, toDevice[d], parked[d])
    BY <1>6, LinkIs
  <2>2. InOrder(d, s, Tail(toDevice[d]), parked[d])
    BY <1>1, <1>3, <2>1, ApartChange DEF InOrder
  <2>3. InOrder(d, s, toDevice[d], parked[d])'
    BY <1>1, <2>2 DEF InOrder, HasSigned, Apart, AllApart, Behind
  <2>4. HasSigned(d, s) =>
          LET v == slots[d][assigned[s][d].stream] IN v # None /\ v.session = s
    BY <1>6 DEF HostInv, SignedIsReplayable, HasSigned
  <2>5. s \in Started /\ assigned[s][d].stream \in Streams
    BY <1>6, Selected DEF Active, Started
  <2> QED
    BY <1>1, <1>2, <2>3, <2>4, <2>5 DEF HasSigned
<1>7. \A x \in signed'[d] : x.session \in Started
  BY <1>1 DEF HostInv, SignedAreStarted
<1> QED
  BY <1>1, <1>4, <1>5, <1>6, <1>7, SlotsMove

LEMMA RecvOpenFollows ==
  ASSUME NoneIsNothing, Cardinality(Streams) <= NSlots, IInv, HostInv,
         NEW d \in Devices, RecvOpen(d)
  PROVE  HostInv'
<1> DEFINE claims == Message(d).claims
           new(served) == served \ Held(d)
           value(served, t) ==
             IF t \in new(served)
             THEN SlotValue(0, seeds[d] + Cardinality({u \in new(served) : u <= t}), None)
             ELSE slots[d][t]
           worked(served) == {t \in served : ToSend(value(served, t), claims[t]) > 0}
           answer(served) == [t \in worked(served) |->
             Segment(value(served, t).index,
                     value(served, t).index + ToSend(value(served, t), claims[t]),
                     value(served, t).seed)]
<1>0. DeviceTypes /\ WireInv
  BY DEF IInv, DeviceInv
<1>1. /\ Handling(d, "open") /\ UNCHANGED <<cache, status, assigned, signed, parked>>
      /\ toDevice[d] # <<>> /\ Head(toDevice[d]).type = "open" /\ Head(toDevice[d]).claims = claims
      /\ toDevice' = [toDevice EXCEPT ![d] = Tail(@)]
  BY DEF RecvOpen, Handling, Message, coordVars
<1>2. DOMAIN claims \in SUBSET Streams
      /\ \A t \in DOMAIN claims : claims[t].index \in Nat /\ claims[t].remaining \in Nat
  <2>1. claims \in Claims
    <3>1. Message(d) \in Requests(d) /\ Message(d).type = "open"
      BY <1>1, Handled
    <3> QED
      BY <3>1 DEF Requests
  <2>2. PICK T \in SUBSET Streams : claims \in [T -> [index : Nat, remaining : Nat]]
    BY <2>1 DEF Claims
  <2> HIDE DEF claims
  <2> QED
    BY <2>2
<1>3. PICK served \in SUBSET (DOMAIN claims), lost \in SUBSET Streams :
        LET total == Cardinality(Held(d)) + Cardinality(new(served))
        IN /\ Cardinality(lost) = (IF total > NSlots THEN total - NSlots ELSE 0)
           /\ slots' = [slots EXCEPT ![d] = [t \in Streams |->
                IF t \in lost THEN None
                ELSE IF t \in new(served) THEN value(served, t) ELSE @[t]]]
           /\ toCoord' = [toCoord EXCEPT ![d] =
                Append(@, [type |-> "nonces", segments |-> answer(served)])]
  BY Zenon DEF RecvOpen
<1> DEFINE m == [type |-> "nonces", segments |-> answer(served)]
           row == [t \in Streams |-> value(served, t)]
<1>4. /\ new(served) \in SUBSET Streams /\ \A t \in new(served) : slots[d][t] = None
      /\ \A t \in served \ new(served) : slots[d][t] # None
      /\ Held(d) \in SUBSET Streams /\ Held(d) \cap new(served) = {}
  BY <1>2 DEF Held
<1>5. lost = {}
  <2> DEFINE held == Held(d)
             fresh == new(served)
  <2> HIDE DEF new, value, worked, answer, claims
  <2>1. Cardinality(lost) = (IF Cardinality(held) + Cardinality(fresh) > NSlots
                             THEN (Cardinality(held) + Cardinality(fresh)) - NSlots ELSE 0)
    BY <1>3, Zenon
  <2>2. held \in SUBSET Streams /\ fresh \in SUBSET Streams /\ held \cap fresh = {}
    BY <1>4
  <2> HIDE DEF held, fresh
  <2> QED
    BY <2>1, <2>2, NoneIsLost
<1>6. ASSUME NEW t \in Streams
      PROVE  /\ t \in new(served) => row[t] # None /\ row[t].index = 0
             /\ t \notin new(served) => row[t] = slots[d][t]
             /\ row[t] = value(served, t)
  <2>1. ASSUME NEW x PROVE SlotValue(0, x, None) # None /\ SlotValue(0, x, None).index = 0
    BY DEF SlotValue, NoneIsNothing
  <2> QED
    BY <2>1
<1>7. /\ slots'[d] = [t \in Streams |-> row[t]]
      /\ \A e \in Devices \ {d} : slots'[e] = slots[e]
  <2>1. [t \in Streams |-> IF t \in lost THEN None
                           ELSE IF t \in new(served) THEN value(served, t) ELSE slots[d][t]]
          = [t \in Streams |-> row[t]]
    BY <1>5, <1>6
  <2> HIDE DEF row, value, new
  <2> QED
    BY <1>0, <1>3, <2>1 DEF DeviceTypes
<1>8. ASSUME NEW t \in worked(served)
      PROVE  /\ t \in Streams /\ row[t] # None
             /\ answer(served)[t] = Segment(row[t].index, row[t].index + Batch, row[t].seed)
  <2>1. t \in served /\ t \in DOMAIN claims /\ t \in Streams /\ ToSend(row[t], claims[t]) > 0
    BY <1>2, <1>6
  <2>2. answer(served)[t] = Segment(row[t].index, row[t].index + ToSend(row[t], claims[t]), row[t].seed)
    BY <1>6, <2>1
  <2>3. Covered(claims[t], slots[d][t])
    <3>1. ClaimsOf(toDevice[d], slots[d]) /\ 1 \in 1..Len(toDevice[d]) /\ toDevice[d][1] = Head(toDevice[d])
      <4>1. toDevice[d] \in Seq(Requests(d))
        BY LinkIs
      <4>2. Len(toDevice[d]) \in Nat \ {0} /\ Head(toDevice[d]) = toDevice[d][1]
        BY <1>1, <4>1, TailFacts
      <4> QED
        BY <4>2, LinkIs
    <3> HIDE DEF claims
    <3> QED
      BY <1>1, <2>1, <3>1 DEF ClaimsOf
  <2>4. row[t] # None /\ row[t].index \in Nat
    BY <1>4, <1>6, <2>1, Entries
  <2>5. Covered(claims[t], row[t])
    BY <1>4, <1>6, <2>1, <2>3 DEF Covered
  <2> HIDE DEF row, claims, worked, answer
  <2>6. ToSend(row[t], claims[t]) = Batch
    BY <1>2, <2>1, <2>4, <2>5, SendsABatch
  <2> QED
    BY <2>1, <2>2, <2>4, <2>6
<1>9. m.type = "nonces" /\ m.segments = answer(served) /\ DOMAIN m.segments = worked(served)
  OBVIOUS
<1>10. ASSUME NEW t \in Streams
       PROVE  /\ slots'[d][t] = row[t]
              /\ slots[d][t] # None => row[t] = slots[d][t]
              /\ row[t] = None \/ slots[d][t] # None \/ row[t].index = 0
  BY <1>4, <1>6, <1>7
<1>11. /\ toDevice'[d] = Tail(toDevice[d])
       /\ \A e \in Devices \ {d} : toDevice'[e] = toDevice[e]
  BY <1>0, <1>1 DEF WireInv
<1>12. /\ toCoord'[d] = Append(toCoord[d], m)
       /\ \A e \in Devices \ {d} : toCoord'[e] = toCoord[e]
  <2>1. toCoord' = [toCoord EXCEPT ![d] = Append(@, m)]
    BY <1>3
  <2> HIDE DEF m
  <2> QED
    BY <1>0, <2>1 DEF WireInv
<1> HIDE DEF m, row, answer, worked, claims, new, value
<1>13. \A t \in DOMAIN m.segments :
         /\ t \in Streams /\ row[t] # None
         /\ m.segments[t] = Segment(row[t].index, row[t].index + Batch, row[t].seed)
  BY <1>8, <1>9
<1>14. Opened(d, row, m)
  BY <1>1, <1>7, <1>9, <1>10, <1>11, <1>12, <1>13, Zenon DEF Opened
<1> QED
  BY <1>14, OpenedFollows

-------------------------------------------------------------------------------
LEMMA InitFollows == Init => HostInv
<1> SUFFICES ASSUME Init PROVE HostInv
  OBVIOUS
<1> USE DEF Init
<1>1. CacheFollows /\ AnswersFollow /\ ClaimsFollow
  BY DEF CacheFollows, Follows, AnswersFollow, AnswersOf, ClaimsFollow, ClaimsOf
<1>2. AssignedAreCached /\ SignedAreStarted
  BY DEF AssignedAreCached, SignedAreStarted, Started
<1>3. AskedInOrder /\ SignedIsReplayable
  BY DEF AskedInOrder, SignedIsReplayable, Active
<1> QED
  BY <1>1, <1>2, <1>3 DEF HostInv

LEMMA StepFollows ==
  ASSUME OneHost, NoneIsNothing, IInv, HostInv, [Next]_vars
  PROVE  HostInv'
<1> USE DEF OneHost
<1>1. CASE UNCHANGED vars
  <2>1. UNCHANGED <<cache, status, assigned, slots, signed, parked, toDevice, toCoord>>
    BY <1>1 DEF vars, coordVars, deviceVars
  <2>2. UNCHANGED Started /\ UNCHANGED Active
    BY <2>1 DEF Started, Active
  <2>3. (CacheFollows /\ AnswersFollow /\ ClaimsFollow)'
    BY <2>1 DEF HostInv, CacheFollows, AnswersFollow, ClaimsFollow
  <2>4. (AssignedAreCached /\ SignedAreStarted /\ SignedIsReplayable)'
    BY <2>1, <2>2 DEF HostInv, AssignedAreCached, SignedAreStarted, SignedIsReplayable
  <2>5. AskedInOrder'
    BY <2>1, <2>2 DEF HostInv, AskedInOrder, InOrder, HasSigned, Apart, AllApart, Behind
  <2> QED
    BY <2>3, <2>4, <2>5 DEF HostInv
<1>2. ASSUME NEW s \in Sessions, StartSign(s)
      PROVE  HostInv'
  BY <1>2, StartSignFollows
<1>3. CASE (\E s \in Sessions : Cancel(s)) \/ CancelAll
  BY <1>3, CancelFollows
<1>4. ASSUME NEW s \in Sessions, NEW d \in Devices, RequestDeviceSign(s, d)
      PROVE  HostInv'
  BY <1>4, RequestDeviceSignFollows
<1>5. ASSUME NEW d \in Devices, OpenStreams(d)
      PROVE  HostInv'
  BY <1>5, OpenStreamsFollows
<1>6. ASSUME NEW d \in Devices, RecvNonceResponse(d)
      PROVE  HostInv'
  BY <1>6, RecvNonceResponseFollows
<1>7. ASSUME NEW d \in Devices, RecvShare(d)
      PROVE  HostInv'
  BY <1>7, RecvShareFollows
<1>8. ASSUME NEW d \in Devices, LateShare(d)
      PROVE  HostInv'
  BY <1>8, LateShareFollows
<1>9. ASSUME NEW d \in Devices, RecvOpen(d)
      PROVE  HostInv'
  BY <1>9, RecvOpenFollows
<1>10. ASSUME NEW d \in Devices, RecvRequest(d)
       PROVE  HostInv'
  BY <1>10, RecvRequestFollows
<1>11. ASSUME NEW d \in Devices, Confirm(d)
       PROVE  HostInv'
  BY <1>11, ConfirmFollows
<1>12. ASSUME NEW d \in Devices, Decline(d)
       PROVE  HostInv'
  BY <1>12, DismissFollows DEF Decline, coordVars
<1>13. ASSUME NEW d \in Devices, Unplug(d) \/ UseElsewhere(d)
       PROVE  HostInv'
  BY <1>13, UnplugFollows
<1> QED
  BY <1>1, <1>2, <1>3, <1>4, <1>5, <1>6, <1>7, <1>8, <1>9, <1>10, <1>11, <1>12, <1>13 DEF Next

(* With a device that serves one coordinator, which has a slot for every      *)
(* stream, the coordinator's cache, what is on the wire and the slots of the *)
(* devices never drift apart, whatever is lost, cancelled or asked twice.    *)
THEOREM HostInvariant ==
  ASSUME OneHost, NoneIsNothing
  PROVE  Spec => []HostInv
<1>1. Init => IInv /\ HostInv
  BY InitInv, InitFollows
<1>2. IInv /\ HostInv /\ [Next]_vars => (IInv /\ HostInv)'
  BY StepKeepsInv, StepFollows
<1>3. Spec => [](IInv /\ HostInv)
  BY <1>1, <1>2, PTL DEF Spec
<1> QED
  BY <1>3, PTL

(* Whenever a session is closed, the nonces it sent are there to be deleted: *)
(* the assertions of consume and delete_up_to (nonces.rs) hold.              *)
THEOREM ConsumptionNeverFails ==
  ASSUME OneHost, NoneIsNothing
  PROVE  Spec => []ConsumptionIsDefined
<1>1. IInv /\ HostInv => ConsumptionIsDefined
  <2> SUFFICES ASSUME IInv, HostInv, NEW s \in Active, NEW d \in sent[s]
               PROVE  LET g == cache[d][assigned[s][d].stream]
                      IN g # None /\ g.index <= assigned[s][d].nonces.next
                                  /\ assigned[s][d].nonces.next <= g.next
    BY DEF ConsumptionIsDefined
  <2>1. s \in Started /\ d \in Parties[s]
    BY DEF IInv, CoordInv, CoordTypes, Active, Started
  <2> QED
    BY <2>1 DEF HostInv, AssignedAreCached
<1> QED
  BY <1>1, Invariant, HostInvariant, PTL

(* What a device has signed for a session under way it will sign again: the  *)
(* slot of the stream still caches the shares (sign_ack of device_nonces.rs).*)
THEOREM LostSharesAreReplayed ==
  ASSUME OneHost, NoneIsNothing
  PROVE  Spec => []SignedIsReplayable
<1>1. HostInv => SignedIsReplayable
  BY DEF HostInv
<1> QED
  BY <1>1, HostInvariant, PTL

(* Every nonce the coordinator caches is the one the device will derive      *)
(* (extend_segment and reconcile_coord_nonce_stream_state).                  *)
THEOREM CachedNoncesAreGenuine ==
  ASSUME OneHost, NoneIsNothing
  PROVE  Spec => []CacheIsGenuine
<1>1. HostInv => CacheIsGenuine
  BY DEF HostInv, CacheFollows, Follows, Genuine, CacheIsGenuine, Held
<1> QED
  BY <1>1, HostInvariant, PTL

-------------------------------------------------------------------------------
(* The book of nonces that the devices of a round keep.                      *)

\* A session selects at least one nonce on each of its devices.
NoncesAreSelected ==
  \A s \in Started : \A d \in Parties[s] :
    assigned[s][d].nonces.index < assigned[s][d].nonces.next

LEMMA SelectedNext ==
  ASSUME IInv, NoncesAreSelected, [Next]_vars
  PROVE  /\ NoncesAreSelected'
         /\ Started \subseteq Started' /\ \A s \in Started : assigned'[s] = assigned[s]
<1>1. ASSUME NEW s \in Sessions, StartSign(s)
      PROVE  /\ NoncesAreSelected'
             /\ Started \subseteq Started' /\ \A r \in Started : assigned'[r] = assigned[r]
  <2> DEFINE chosen(d) == First(Usable(d, Items[s]))
             given(d) == [stream |-> chosen(d),
                          nonces |-> Slice(cache[d][chosen(d)], cache[d][chosen(d)].index,
                                           cache[d][chosen(d)].index + Items[s])]
  <2>1. /\ status[s] = "new" /\ status' = [status EXCEPT ![s] = "active"]
        /\ assigned' = [assigned EXCEPT ![s] = [d \in Parties[s] |-> given(d)]]
    BY <1>1 DEF StartSign
  <2>2. /\ Started' = Started \cup {s} /\ s \notin Started
        /\ \A r \in Sessions \ {s} : assigned'[r] = assigned[r]
        /\ \A d \in Parties[s] : assigned'[s][d] = given(d)
    BY <2>1 DEF Started, IInv, CoordInv, CoordTypes
  <2>3. ASSUME NEW d \in Parties[s]
        PROVE  given(d).nonces.index < given(d).nonces.next
    <3>1. d \in Devices /\ Usable(d, Items[s]) # {}
      BY <1>1, SigningAssumption DEF StartSign
    <3>2. chosen(d) \in Usable(d, Items[s])
      BY <3>1, FirstFact DEF Usable, Known
    <3> HIDE DEF chosen
    <3>3. cache[d][chosen(d)].index \in Nat
      BY <3>1, <3>2 DEF Usable, Known, IInv, CoordInv, CoordTypes, Sized
    <3>4. Items[s] \in Nat \ {0}
      BY SigningAssumption
    <3> QED
      BY <3>3, <3>4 DEF Slice
  <2> HIDE DEF given
  <2> QED
    BY <2>2, <2>3 DEF NoncesAreSelected, Started
<1>2. CASE UNCHANGED assigned /\ Started' = Started
  BY <1>2 DEF NoncesAreSelected
<1>3. ASSUME NEW s \in Sessions, Cancel(s)
      PROVE  UNCHANGED assigned /\ Started' = Started
  BY <1>3 DEF Cancel, Started, Active, IInv, CoordInv, CoordTypes
<1>4. CASE CancelAll
  <2>1. UNCHANGED assigned /\ Started' = Started
    BY <1>4 DEF CancelAll, Started, Active
  <2> QED
    BY <1>2, <2>1
<1>5. ASSUME NEW d \in Devices, RecvShare(d)
      PROVE  UNCHANGED assigned /\ Started' = Started
  BY <1>5 DEF RecvShare, Started, Active, IInv, CoordInv, CoordTypes
<1>6. ASSUME UNCHANGED <<status, assigned>>
      PROVE  UNCHANGED assigned /\ Started' = Started
  BY <1>6 DEF Started
<1>7. ASSUME NEW s \in Sessions, NEW d \in Devices, RequestDeviceSign(s, d)
      PROVE  UNCHANGED <<status, assigned>>
  BY <1>7 DEF RequestDeviceSign
<1>8. ASSUME NEW d \in Devices,
             \/ OpenStreams(d) \/ RecvNonceResponse(d) \/ LateShare(d)
             \/ RecvOpen(d) \/ RecvRequest(d) \/ Confirm(d) \/ Decline(d)
             \/ Unplug(d) \/ UseElsewhere(d)
      PROVE  UNCHANGED <<status, assigned>>
  BY <1>8, Zenon DEF OpenStreams, RecvNonceResponse, LateShare, RecvOpen, RecvRequest, Confirm,
    Decline, Unplug, UseElsewhere, Unplugged, coordVars
<1>9. CASE UNCHANGED vars
  BY <1>2, <1>6, <1>9 DEF vars, coordVars
<1> QED
  BY <1>1, <1>2, <1>3, <1>4, <1>5, <1>6, <1>7, <1>8, <1>9 DEF Next

\* The book, spelt out.
Drawn == UNION {{d} \X (1..seeds[d]) : d \in Devices}
BookPages == UNION {PagesOf(d) : d \in Devices}
Spent == UNION {SharesOf(x[1], x[2]) : x \in UNION {{d} \X signed[d] : d \in Devices}}

LEMMA PagesAre ==
  /\ \A p : p \in BookPages <=>
       \E d \in Devices, t \in Streams : slots[d][t] # None /\ p = PageOf(d, t)
  /\ \A p : p \in BookPages' <=>
       \E d \in Devices, t \in Streams : slots'[d][t] # None /\ p = PageOf(d, t)'
  BY DEF BookPages, PagesOf

LEMMA DrawnAre ==
  /\ \A x : x \in Drawn <=> \E d \in Devices : \E n \in 1..seeds[d] : x = <<d, n>>
  /\ \A x : x \in Drawn' <=> \E d \in Devices : \E n \in 1..seeds'[d] : x = <<d, n>>
  BY DEF Drawn

LEMMA SpentAre ==
  /\ \A x : x \in Spent <=> \E d \in Devices : \E e \in signed[d] : x \in SharesOf(d, e)
  /\ \A x : x \in Spent' <=> \E d \in Devices : \E e \in signed'[d] : x \in SharesOf(d, e)
<1>1. ASSUME NEW f, NEW x
      PROVE  x \in UNION {SharesOf(y[1], y[2]) : y \in UNION {{d} \X f[d] : d \in Devices}} <=>
               \E d \in Devices : \E e \in f[d] : x \in SharesOf(d, e)
  <2> DEFINE pairs == UNION {{d} \X f[d] : d \in Devices}
  <2>1. \A y : y \in pairs <=> \E d \in Devices : \E e \in f[d] : y = <<d, e>>
    OBVIOUS
  <2>2. \A d, e : <<d, e>>[1] = d /\ <<d, e>>[2] = e
    OBVIOUS
  <2> HIDE DEF pairs
  <2>3. x \in UNION {SharesOf(y[1], y[2]) : y \in pairs} <=>
          \E y \in pairs : x \in SharesOf(y[1], y[2])
    OBVIOUS
  <2>4. (\E y \in pairs : x \in SharesOf(y[1], y[2])) <=>
          \E d \in Devices : \E e \in f[d] : x \in SharesOf(d, e)
    <3>1. ASSUME NEW y \in pairs, x \in SharesOf(y[1], y[2])
          PROVE  \E d \in Devices : \E e \in f[d] : x \in SharesOf(d, e)
      <4>1. PICK d \in Devices : \E e \in f[d] : y = <<d, e>>
        BY <2>1
      <4>2. PICK e \in f[d] : y = <<d, e>>
        BY <4>1
      <4>3. y[1] = d /\ y[2] = e
        BY <4>2
      <4> QED
        BY <3>1, <4>3
    <3>2. ASSUME NEW d \in Devices, NEW e \in f[d], x \in SharesOf(d, e)
          PROVE  \E y \in pairs : x \in SharesOf(y[1], y[2])
      <4>1. PICK y \in pairs : y = <<d, e>>
        BY <2>1
      <4>2. y[1] = d /\ y[2] = e
        BY <4>1
      <4> QED
        BY <3>2, <4>2
    <3> QED
      BY <3>1, <3>2
  <2> QED
    BY <2>3, <2>4 DEF pairs
<1> QED
  BY <1>1 DEF Spent

\* A page stands as long as its slot does: sessions keep what they selected.
LEMMA PageStays ==
  ASSUME DeviceTypes, \A s \in Started : assigned'[s] = assigned[s],
         NEW d \in Devices, NEW t \in Streams, slots[d][t] # None, slots'[d][t] = slots[d][t]
  PROVE  PageOf(d, t)' = PageOf(d, t)
<1>1. slots[d][t].session \in {None} \cup Started
  BY DEF DeviceTypes
<1> QED
  BY <1>1 DEF PageOf

(* Steps that sign nothing and only begin slots anew turn pages.             *)
LEMMA OpeningTurns ==
  ASSUME IInv, IInv', NEW d \in Devices, NEW new, NEW drew, NEW rank,
         Opens(d, new, drew, rank)
  PROVE  Book!Turn
<1>1. /\ UNCHANGED <<signed, assigned>> /\ drew \in Nat /\ seeds'[d] = seeds[d] + drew
      /\ \A e \in Devices \ {d} : seeds'[e] = seeds[e]
  BY DEF Opens
<1>2. DeviceTypes /\ SeedsAreDistinct' /\ \A e \in Devices : seeds[e] \in Nat
  BY DEF IInv, DeviceInv, DeviceTypes
<1>3. Drawn \subseteq Drawn'
  <2>1. \A e \in Devices : 1..seeds[e] \subseteq 1..seeds'[e]
    BY <1>1, <1>2
  <2> QED
    BY <2>1, DrawnAre
<1>4. Spent' = Spent
  BY <1>1 DEF Spent
<1>5. ASSUME NEW p \in BookPages', p \notin BookPages
      PROVE  /\ p.seed \in Drawn' \ Drawn /\ p.index = 0 /\ p.signing = None
             /\ \A q \in BookPages' : q.seed = p.seed => q = p
  <2>1. PICK e \in Devices, t \in Streams : slots'[e][t] # None /\ p = PageOf(e, t)'
    BY PagesAre
  <2>2. ~(slots[e][t] # None /\ slots'[e][t] = slots[e][t])
    <3>1. ASSUME slots[e][t] # None, slots'[e][t] = slots[e][t]
          PROVE  FALSE
      BY <1>1, <1>2, <1>5, <2>1, <3>1, PageStays, PagesAre
    <3> QED
      BY <3>1
  <2>3. e = d /\ t \in new /\ slots'[d][t] = SlotValue(0, seeds[d] + rank[t], None)
    BY <2>1, <2>2 DEF Opens
  <2>4. rank[t] \in 1..drew
    BY <2>3 DEF Opens
  <2>5. p.seed = <<d, seeds[d] + rank[t]>> /\ p.index = 0 /\ p.signing = None
    BY <2>1, <2>3 DEF PageOf, SlotValue
  <2>6. p.seed \in Drawn' \ Drawn
    <3>1. /\ seeds[d] + rank[t] \in 1..seeds'[d]
          /\ seeds[d] + rank[t] \notin 1..seeds[d]
      BY <1>1, <1>2, <2>4
    <3> QED
      BY <2>5, <3>1, DrawnAre
  <2>7. ASSUME NEW q \in BookPages', q.seed = p.seed
        PROVE  q = p
    <3>1. PICK f \in Devices, u \in Streams : slots'[f][u] # None /\ q = PageOf(f, u)'
      BY PagesAre
    <3>2. q.seed = <<f, slots'[f][u].seed>> /\ p.seed = <<e, slots'[e][t].seed>>
      BY <2>1, <3>1 DEF PageOf
    <3>3. f = e /\ slots'[f][u].seed = slots'[e][t].seed
      <4>1. <<f, slots'[f][u].seed>> = <<e, slots'[e][t].seed>>
        BY <2>7, <3>2
      <4> QED
        BY ONLY <4>1
    <3>4. u = t
      BY <1>2, <2>1, <3>1, <3>3 DEF SeedsAreDistinct
    <3> QED
      BY <2>1, <3>1, <3>3, <3>4
  <2> QED
    BY <2>5, <2>6, <2>7
<1> QED
  BY <1>3, <1>4, <1>5 DEF Book!Turn, Drawn, BookPages, Spent

\* Steps that leave each slot as it is or empty it turn pages too.
LEMMA LosingTurns ==
  ASSUME IInv, \A s \in Started : assigned'[s] = assigned[s], UNCHANGED <<seeds, signed>>,
         \A d \in Devices, t \in Streams : slots'[d][t] \in {None, slots[d][t]}
  PROVE  Book!Turn
<1>1. Drawn' = Drawn /\ Spent' = Spent
  BY DEF Drawn, Spent
<1>2. BookPages' \subseteq BookPages
  <2> SUFFICES ASSUME NEW p \in BookPages' PROVE p \in BookPages
    OBVIOUS
  <2>1. PICK d \in Devices, t \in Streams : slots'[d][t] # None /\ p = PageOf(d, t)'
    BY PagesAre
  <2>2. slots[d][t] # None /\ slots'[d][t] = slots[d][t]
    BY <2>1
  <2>3. p = PageOf(d, t)
    BY <2>1, <2>2, PageStays DEF IInv, DeviceInv
  <2> QED
    BY <2>2, <2>3, PagesAre
<1> QED
  BY <1>1, <1>2 DEF Book!Turn, Drawn, BookPages, Spent

\* Signing replaces one page by the page past the nonces it used.
LEMMA SigningSigns ==
  ASSUME IInv, IInv', NoneIsNothing, NoncesAreSelected,
         NEW d \in Devices, NEW s \in Started, NEW t \in Streams,
         NEW v, NEW g, NEW used, NEW after, SignsAs(d, s, t, v, g, used, after)
  PROVE  Book!Sign
<1>1. /\ UNCHANGED <<seeds, assigned, status>>
      /\ d \in Parties[s] /\ t = assigned[s][d].stream
      /\ v = slots[d][t] /\ v # None /\ g = assigned[s][d].nonces /\ v.index <= g.index
  BY Zenon DEF SignsAs
<1>2. /\ after \in [index : Nat, seed : 1..seeds[d], session : {None} \cup Started]
      /\ used = Segment(g.index, g.next, v.seed) /\ slots'[d][t] = after
      /\ after.index = g.next /\ after.seed = v.seed /\ after.session = s
      /\ \A e \in Devices, u \in Streams : e # d \/ u # t => slots'[e][u] = slots[e][u]
  BY Zenon DEF SignsAs
<1>3. /\ \A e \in Devices : signed[e] \subseteq signed'[e]
      /\ Use(s, used) \in signed'[d]
      /\ \A e \in Devices : \A x \in signed'[e] : x \notin signed[e] => e = d /\ x = Use(s, used)
  BY Zenon DEF SignsAs
<1>4. DeviceTypes /\ SeedsAreDistinct /\ SeedsAreDistinct'
  BY DEF IInv, DeviceInv
<1>5. s # None /\ after # None /\ \A i : None # [session |-> s, first |-> i]
  <2>1. after = [index |-> after.index, seed |-> after.seed, session |-> after.session]
    BY <1>2
  <2>2. s # None
    BY SigningAssumption DEF Started
  <2> QED
    BY <2>1, <2>2 DEF NoneIsNothing
<1> DEFINE p == PageOf(d, t)
           q == [seed |-> <<d, v.seed>>, stream |-> t, index |-> g.next,
                 signing |-> [session |-> s, first |-> g.index]]
<1>6. PageOf(d, t)' = q
  BY <1>1, <1>2, <1>5 DEF PageOf
<1>7. p.seed = <<d, v.seed>> /\ p.stream = t /\ p.index = v.index
  BY <1>1 DEF PageOf
<1>8. Book!Signed(p, q)
  <2>1. g.index < g.next /\ g.index \in Nat /\ g.next \in Nat
    BY <1>1 DEF NoncesAreSelected, IInv, CoordInv, AssignedTypes, Sized
  <2>2. v.index \in Nat
    BY <1>1, <1>4 DEF DeviceTypes
  <2>3. g.index \in v.index..(g.next - 1)
    BY <1>1, <2>1, <2>2
  <2> HIDE DEF p
  <2> QED
    BY <1>1, <1>5, <1>7, <2>1, <2>3 DEF Book!Signed
<1>9. p \in BookPages /\ q \in BookPages'
  BY <1>1, <1>2, <1>5, <1>6, PagesAre
<1>10. ASSUME NEW e \in Devices, NEW u \in Streams, e # d \/ u # t, slots[e][u] # None
       PROVE  /\ slots'[e][u] # None /\ PageOf(e, u)' = PageOf(e, u)
              /\ PageOf(e, u) # p
  <2>1. slots'[e][u] = slots[e][u]
    BY <1>2, <1>10
  <2>2. PageOf(e, u)' = PageOf(e, u)
    BY <1>1, <1>4, <1>10, <2>1, PageStays
  <2>3. PageOf(e, u).seed = <<e, slots[e][u].seed>>
    BY DEF PageOf
  <2>4. ASSUME PageOf(e, u) = p
        PROVE  FALSE
    <3>1. <<e, slots[e][u].seed>> = <<d, v.seed>>
      BY <1>7, <2>3, <2>4
    <3>2. e = d /\ slots[e][u].seed = v.seed
      BY ONLY <3>1
    <3> QED
      BY <1>1, <1>4, <1>10, <3>2 DEF SeedsAreDistinct
  <2> QED
    BY <1>10, <2>1, <2>2, <2>4
<1> HIDE DEF p, q
<1>11. BookPages' = (BookPages \ {p}) \cup {q}
  <2>1. ASSUME NEW x \in BookPages', x # q
        PROVE  x \in BookPages \ {p}
    <3>1. PICK e \in Devices, u \in Streams : slots'[e][u] # None /\ x = PageOf(e, u)'
      BY PagesAre
    <3>2. e # d \/ u # t
      BY <1>6, <2>1, <3>1
    <3>3. slots[e][u] # None
      BY <1>2, <3>1, <3>2
    <3> QED
      BY <1>10, <3>1, <3>2, <3>3, PagesAre
  <2>2. ASSUME NEW x \in BookPages, x # p
        PROVE  x \in BookPages'
    <3>1. PICK e \in Devices, u \in Streams : slots[e][u] # None /\ x = PageOf(e, u)
      BY PagesAre
    <3>2. e # d \/ u # t
      BY <2>2, <3>1 DEF p
    <3> QED
      BY <1>10, <3>1, <3>2, PagesAre
  <2> QED
    BY <1>9, <2>1, <2>2
<1>12. Book!Shares(q) = SharesOf(d, Use(s, used))
  <2>1. /\ q.seed = <<d, v.seed>> /\ q.index = g.next
        /\ q.signing.session = s /\ q.signing.first = g.index
    BY DEF q
  <2>2. Book!LastUsed(q) = {[seed |-> <<d, v.seed>>, index |-> k] : k \in g.index..(g.next - 1)}
    BY <2>1 DEF Book!LastUsed
  <2>3. /\ Use(s, used).session = s /\ Use(s, used).nonces = used
        /\ used.index = g.index /\ used.next = g.next
        /\ \A k \in g.index..(g.next - 1) : used.nonces[k] = v.seed
    BY <1>2 DEF Use, Segment
  <2>4. SharesOf(d, Use(s, used)) =
          {[session |-> s, nonce |-> [seed |-> <<d, v.seed>>, index |-> k]] :
             k \in g.index..(g.next - 1)}
    BY <2>3 DEF SharesOf
  <2>5. Book!Shares(q) = {[session |-> s, nonce |-> n] : n \in Book!LastUsed(q)}
    BY <2>1 DEF Book!Shares
  <2> QED
    BY <2>2, <2>4, <2>5
<1>13. Spent' = Spent \cup Book!Shares(q)
  <2>1. ASSUME NEW x \in Spent', x \notin Spent
        PROVE  x \in Book!Shares(q)
    <3>1. PICK e \in Devices : \E y \in signed'[e] : x \in SharesOf(e, y)
      BY SpentAre
    <3>2. PICK y \in signed'[e] : x \in SharesOf(e, y)
      BY <3>1
    <3>3. y \notin signed[e]
      BY <2>1, <3>2, SpentAre
    <3> QED
      BY <1>3, <1>12, <3>2, <3>3
  <2>2. ASSUME NEW x \in Spent
        PROVE  x \in Spent'
    <3>1. PICK e \in Devices : \E y \in signed[e] : x \in SharesOf(e, y)
      BY SpentAre
    <3> QED
      BY <1>3, <3>1, SpentAre
  <2>3. ASSUME NEW x \in Book!Shares(q)
        PROVE  x \in Spent'
    BY <1>3, <1>12, <2>3, SpentAre
  <2> QED
    BY <2>1, <2>2, <2>3
<1>14. Drawn' = Drawn
  BY <1>1 DEF Drawn
<1> QED
  BY <1>8, <1>9, <1>11, <1>13, <1>14 DEF Book!Sign, Drawn, BookPages, Spent

LEMMA StepBooks ==
  ASSUME NoneIsNothing, IInv, NoncesAreSelected, [Next]_vars
  PROVE  Book!Next
<1>1. IInv' /\ \A s \in Started : assigned'[s] = assigned[s]
  BY StepKeepsInv, SelectedNext
<1>2. CASE UNCHANGED <<slots, seeds, signed>>
  <2>1. Book!Turn
    BY <1>1, <1>2, LosingTurns
  <2> QED
    BY <2>1 DEF Book!Next
<1>3. ASSUME NEW d \in Devices, RecvOpen(d)
      PROVE  Book!Next
  <2>1. PICK new, drew, rank : Opens(d, new, drew, rank)
    BY <1>3, RecvOpenKeeps
  <2>2. Book!Turn
    BY <1>1, <2>1, OpeningTurns
  <2> QED
    BY <2>2 DEF Book!Next
<1>4. ASSUME NEW d \in Devices, Confirm(d)
      PROVE  Book!Next
  <2>1. SignsOnce(d)
    BY <1>4, ConfirmCases
  <2>2. CASE UNCHANGED <<slots, signed>>
    BY <1>2, <2>1, <2>2 DEF SignsOnce
  <2>3. CASE ~UNCHANGED <<slots, signed>>
    <3>1. PICK s \in Started, t \in Streams : \E v, g, used, after :
            SignsAs(d, s, t, v, g, used, after)
      BY <2>1, <2>3 DEF SignsOnce
    <3>2. PICK v, g, used, after : SignsAs(d, s, t, v, g, used, after)
      BY <3>1
    <3>3. Book!Sign
      BY <1>1, <3>2, SigningSigns
    <3> QED
      BY <3>3 DEF Book!Next
  <2> QED
    BY <2>2, <2>3
<1>5. ASSUME NEW d \in Devices, UseElsewhere(d)
      PROVE  Book!Next
  <2>1. UNCHANGED <<seeds, signed>>
    BY <1>5 DEF UseElsewhere, Unplugged
  <2>2. PICK lost \in SUBSET Held(d) :
          slots' = [slots EXCEPT ![d] = [t \in Streams |-> IF t \in lost THEN None ELSE @[t]]]
    BY <1>5 DEF UseElsewhere
  <2>3. \A e \in Devices, t \in Streams : slots'[e][t] \in {None, slots[e][t]}
    BY <2>2 DEF IInv, DeviceInv, DeviceTypes
  <2>4. Book!Turn
    BY <1>1, <2>1, <2>3, LosingTurns
  <2> QED
    BY <2>4 DEF Book!Next
<1>6. ASSUME NEW s \in Sessions, StartSign(s) \/ Cancel(s)
      PROVE  UNCHANGED <<slots, seeds, signed>>
  BY <1>6, Zenon DEF StartSign, Cancel, deviceVars
<1>7. ASSUME CancelAll \/ \E s \in Sessions, d \in Devices : RequestDeviceSign(s, d)
      PROVE  UNCHANGED <<slots, seeds, signed>>
  BY <1>7, Zenon DEF CancelAll, RequestDeviceSign, deviceVars
<1>8. ASSUME NEW d \in Devices, OpenStreams(d) \/ RecvNonceResponse(d) \/ RecvShare(d) \/ LateShare(d)
      PROVE  UNCHANGED <<slots, seeds, signed>>
  BY <1>8, Zenon DEF OpenStreams, RecvNonceResponse, RecvShare, LateShare, deviceVars
<1>9. ASSUME NEW d \in Devices, RecvRequest(d) \/ Decline(d) \/ Unplug(d)
      PROVE  UNCHANGED <<slots, seeds, signed>>
  BY <1>9, Zenon DEF RecvRequest, Decline, Unplug, Unplugged
<1>10. CASE UNCHANGED vars
  BY <1>2, <1>10 DEF vars, deviceVars
<1> QED
  BY <1>2, <1>3, <1>4, <1>5, <1>6, <1>7, <1>8, <1>9, <1>10 DEF Next

(* The devices of a round keep a book of nonces: whatever the coordinator    *)
(* asks, the link loses and other hosts do, shares leave only with a page    *)
(* that moves past their nonces, and a seed that was given up never returns. *)
THEOREM DevicesKeepTheBook ==
  ASSUME NoneIsNothing
  PROVE  Spec => NoncesAreBooked
<1>1. Init => IInv /\ NoncesAreSelected
  <2>1. Init => NoncesAreSelected
    BY DEF Init, NoncesAreSelected, Started
  <2> QED
    BY <2>1, InitInv
<1>2. IInv /\ NoncesAreSelected /\ [Next]_vars => (IInv /\ NoncesAreSelected)'
  BY StepKeepsInv, SelectedNext
<1>3. Init => Book!Init
  <2> SUFFICES ASSUME Init PROVE Book!Init
    OBVIOUS
  <2>1. Drawn = {}
    BY DrawnAre DEF Init
  <2>2. BookPages = {}
    BY PagesAre DEF Init
  <2>3. Spent = {}
    BY SpentAre DEF Init
  <2> QED
    BY <2>1, <2>2, <2>3 DEF Book!Init, Drawn, BookPages, Spent
<1>4. IInv /\ NoncesAreSelected /\ [Next]_vars => Book!Next
  BY StepBooks
<1> QED
  BY <1>1, <1>2, <1>3, <1>4, PTL DEF Spec, NoncesAreBooked, Book!Spec
===============================================================================
