------------------------------ MODULE NonceSlots ------------------------------
(* The device's nonce streams: AbSlots over NonceStreamSlot, each slot kept  *)
(* in an A/B pair of flash sectors, and the two handlers that use them,      *)
(* OpenNonceStreams and RequestSign / sign_ack.                              *)
(*                                                                           *)
(* A nonce is determined by the seed a slot was initialised with and its     *)
(* index: the ratchet material stored next to the index is a function of the *)
(* two.  Seeds are numbered in the order the device draws them.              *)
EXTENDS AbFormat, FiniteSets

CONSTANTS NSlots,       \* total_slots
          Streams,      \* nonce stream ids
          Sessions,     \* sign session ids
          Items,        \* sign items of a session: nonces it uses on a device
          MaxNonce,     \* u32::MAX, the index at which a stream ends
          Batch,        \* nonce_batch_size
          SkipBatches,  \* MAX_NONCE_SKIP_BATCHES
          Faults,       \* whether the flash may refuse or power be cut
          OpenStates,   \* what the coordinator may claim of a stream to open
          SignStates,   \* what it may claim of the nonces it asks to use
          MaxSeeds,     \* bound: seeds drawn
          MaxServed     \* bound: the least-recently-used counter

ASSUME NonceAssumption ==
  /\ NSlots \in Nat \ {0} /\ MaxNonce \in Nat \ {0}
  /\ Batch \in Nat \ {0} /\ SkipBatches \in Nat
  /\ Items \in [Sessions -> Nat]
  /\ Faults \in BOOLEAN /\ MaxSeeds \in Nat /\ MaxServed \in Nat

SlotIds == 1..NSlots

\* CoordNonceStreamState: what the coordinator believes of a stream.
CoordStates == [stream : Streams, index : 0..MaxNonce, remaining : Nat]

ASSUME ClaimsAssumption ==
  OpenStates \subseteq CoordStates /\ SignStates \subseteq CoordStates

\* SecretNonceSlot, with the SigningState of the last session, if any.
SlotValues ==
  [index : 0..MaxNonce, stream : Streams, seed : Nat, used : Nat,
   signing : {None} \cup [session : Sessions, first : 0..MaxNonce]]

ASSUME NoneAssumption ==
  /\ None \notin SlotValues
  /\ None \notin [session : Sessions, first : 0..MaxNonce]

\* SignPhase1, as far as nonces are concerned.
Requests == [session : Sessions, nonces : SignStates]

VARIABLES flash,      \* the A/B pair of each slot
          last_used,  \* AbSlots::last_used, in RAM
          parked,     \* the sign request on the screen, or None
          existing,   \* streams OpenNonceStreams has to serve that existed
          fresh,      \* and those that did not
          room,       \* how many streams the message may still have served
          seeds,      \* number of seeds drawn so far
          emitted,    \* ghost: which nonce signed for which session
          offer       \* ghost: the nonces the last step published

vars == <<flash, last_used, parked, existing, fresh, room, seeds, emitted,
          offer>>

queue == <<existing, fresh, room>>

SlotValue(index, stream, seed, used, signing) ==
  [index |-> index, stream |-> stream, seed |-> seed, used |-> used,
   signing |-> signing]

Value(i) == AbRead(flash[i])
Readable(i) == Value(i) # None

\* AbSlots::get: the first slot that holds the stream, 0 if there is none.
FirstIn(S) == IF S = {} THEN 0 ELSE CHOOSE i \in S : \A j \in S : i <= j
Get(s) == FirstIn({i \in SlotIds : Readable(i) /\ Value(i).stream = s})

(* AbSlots::new: the counter restarts from the newest readable slot.         *)
MaxUsed(fl) ==
  LET used == {AbRead(fl[i]).used : i \in {j \in SlotIds : AbRead(fl[j]) # None}}
  IN IF used = {} THEN 0 ELSE CHOOSE u \in used : \A w \in used : w <= u

Results(slots, v) ==
  {r \in WriteResults(slots, v) :
     Faults \/ Exhausted(slots) \/ r.outcome = "committed"}

Nonces(v, first, n) == {[seed |-> v.seed, index |-> k] : k \in first..(first + n - 1)}

\* Mutant: the job starts where the coordinator says it stands.
ReconcileFromClaim(v, state) == Nonces(v, state.index, Batch)

(* reconcile_coord_nonce_stream_state on a readable slot: the nonces of the  *)
(* job it returns, none if there is nothing to do or the stream would end.   *)
Reconcile(v, state) ==
  LET length == IF v.index > state.index \/ state.remaining < Batch THEN Batch
                ELSE IF v.index = state.index THEN 0
                ELSE IF state.index - v.index < Batch THEN state.index - v.index
                ELSE Batch
  IN IF v.index + length >= MaxNonce THEN {} ELSE Nonces(v, v.index, length)

Init == /\ flash = [i \in SlotIds |-> Blank]
        /\ last_used = 0
        /\ parked = None
        /\ existing = {} /\ fresh = {} /\ room = 0
        /\ seeds = 0
        /\ emitted = {}
        /\ offer = {}

\* A reset: RAM is rebuilt from flash by load_slots.
Restarted(fl) ==
  /\ last_used' = MaxUsed(fl)
  /\ parked' = None
  /\ existing' = {} /\ fresh' = {} /\ room' = 0

\* The streams one of which is served next.
Turn == IF existing # {} THEN existing ELSE fresh
Idle == room = 0 \/ Turn = {}

(* OpenNonceStreams: existing streams are served first, each class in the    *)
(* order of the request, and no more streams than there are slots.           *)
OpenNonceStreams(streams) ==
  /\ Idle
  /\ seeds + Cardinality(streams) <= MaxSeeds
  /\ last_used + Cardinality(streams) <= MaxServed
  /\ existing' = {st \in streams : Get(st.stream) # 0}
  /\ fresh' = {st \in streams : Get(st.stream) = 0}
  /\ room' = NSlots
  /\ offer' = {}
  /\ UNCHANGED <<flash, last_used, parked, seeds, emitted>>

\* The loop goes on with the next stream.
Taken(st) ==
  /\ existing' = existing \ {st} /\ fresh' = fresh \ {st}
  /\ room' = room - 1
  /\ last_used' = last_used + 1

\* Mutant: a free slot is taken before the stream is looked for.
FirstFree(s) ==
  LET free == {i \in SlotIds : ~Readable(i)}
      hits == {i \in SlotIds : Readable(i) /\ Value(i).stream = s}
      oldest == {i \in SlotIds : \A j \in SlotIds : Value(i).used <= Value(j).used}
  IN IF free # {} THEN FirstIn(free)
     ELSE IF hits # {} THEN FirstIn(hits) ELSE FirstIn(oldest)

(* The slot get_or_create settles on.  It walks the slots in order and stops *)
(* at the first that is unreadable or holds the stream; otherwise it takes   *)
(* the first of the least recently used ones.                                *)
Chosen(s) ==
  LET hits == {i \in SlotIds : ~Readable(i) \/ Value(i).stream = s}
      oldest == {i \in SlotIds : \A j \in SlotIds : Value(i).used <= Value(j).used}
  IN IF hits # {} THEN FirstIn(hits) ELSE FirstIn(oldest)

Found(i, s) == Readable(i) /\ Value(i).stream = s

\* get_or_create finds the stream: the job is computed from its slot.
ServeExisting ==
  /\ ~Idle
  /\ \E st \in Turn :
       /\ Found(Chosen(st.stream), st.stream)
       /\ offer' = Reconcile(Value(Chosen(st.stream)), st)
       /\ Taken(st)
  /\ UNCHANGED <<flash, parked, seeds, emitted>>

\* get_or_create initialises the slot with a fresh seed; nothing checks that
\* the write took, and reconcile reads whatever the slot now holds.
ServeNew ==
  /\ ~Idle
  /\ seeds' = seeds + 1
  /\ \E st \in Turn :
       LET i == Chosen(st.stream)
           v == SlotValue(0, st.stream, seeds + 1, last_used + 1, None)
       IN /\ ~Found(i, st.stream)
          /\ \E r \in Results(flash[i], v) :
               /\ flash' = [flash EXCEPT ![i] = r.slots]
               /\ IF r.outcome = "crash"
                  THEN Restarted(flash') /\ offer' = {}
                  ELSE /\ Taken(st)
                       /\ offer' = (IF AbRead(r.slots) = None THEN {}
                                    ELSE Reconcile(AbRead(r.slots), st))
                       /\ UNCHANGED parked
  /\ UNCHANGED emitted

\* RequestSign: the stream must exist; its nonces are not checked here.  The
\* prompt replaces the one on the screen.
RequestSign(q) ==
  /\ Idle /\ last_used < MaxServed
  /\ Get(q.nonces.stream) # 0
  /\ parked' = q
  /\ offer' = {}
  /\ UNCHANGED <<flash, last_used, queue, seeds, emitted>>

(* What sign_guaranteeing_nonces_destroyed writes for a request, given the   *)
(* slot's value: the cached state again, or the state past the nonces used.  *)
Cached(v, q) == v.signing # None /\ v.signing.session = q.session

Signable(v, q) ==
  /\ q.nonces.index >= v.index
  /\ q.nonces.index - v.index <= Batch * SkipBatches
  /\ Items[q.session] > 0
  /\ q.nonces.index + Items[q.session] <= MaxNonce

Signed(v, q) ==
  IF Cached(v, q) THEN v
  ELSE SlotValue(q.nonces.index + Items[q.session], v.stream, v.seed,
                 last_used + 1,
                 [session |-> q.session, first |-> q.nonces.index])

\* The nonces the signature shares of a signed value were made with.
Used(v) == Nonces(v, v.signing.first, v.index - v.signing.first)

\* Mutant: nothing is read back before the shares leave.
NotReadBack(slots, v) == TRUE

(* The read-back: the shares leave only if the slot reads as what was written. *)
Destroyed(slots, v) == AbRead(slots) = v

Refuse == UNCHANGED <<flash, last_used, emitted, queue>> /\ parked' = None /\ offer' = {}

(* The user confirms: write, read back, and only then let the shares out.    *)
SignAck ==
  /\ Idle /\ parked # None
  /\ UNCHANGED seeds
  /\ LET i == Get(parked.nonces.stream)
     IN IF i = 0 \/ ~(Cached(Value(i), parked) \/ Signable(Value(i), parked))
        THEN Refuse
        ELSE LET v == Signed(Value(i), parked)
             IN \E r \in Results(flash[i], v) :
                  /\ flash' = [flash EXCEPT ![i] = r.slots]
                  /\ CASE r.outcome = "crash" ->
                            Restarted(flash') /\ offer' = {} /\ UNCHANGED emitted
                       [] r.outcome # "crash" /\ ~Destroyed(r.slots, v) ->
                            /\ parked' = None
                            /\ offer' = {}
                            /\ UNCHANGED <<last_used, queue, emitted>>
                       [] r.outcome # "crash" /\ Destroyed(r.slots, v) ->
                            /\ emitted' = emitted \cup
                                 {[session |-> parked.session, nonce |-> n] :
                                     n \in Used(v)}
                            /\ offer' = Reconcile(v, parked.nonces)
                            /\ last_used' = last_used + 1
                            /\ parked' = None
                            /\ UNCHANGED queue

\* The user declines, or the frame is replaced.
Dismiss ==
  /\ parked # None
  /\ parked' = None
  /\ offer' = {}
  /\ UNCHANGED <<flash, last_used, queue, seeds, emitted>>

\* Power is cut between two handlers or, where faults are allowed, inside one.
Reboot ==
  /\ Faults \/ Idle
  /\ Restarted(flash)
  /\ offer' = {}
  /\ UNCHANGED <<flash, seeds, emitted>>

\* The coordinator asks for each stream at most once.
OpenRequests ==
  {r \in SUBSET OpenStates \ {{}} : \A a, b \in r : a.stream = b.stream => a = b}

Next == \/ \E streams \in OpenRequests : OpenNonceStreams(streams)
        \/ ServeExisting
        \/ ServeNew
        \/ \E q \in Requests : RequestSign(q)
        \/ SignAck
        \/ Dismiss
        \/ Reboot

Spec == Init /\ [][Next]_vars

-------------------------------------------------------------------------------
AllNonces == [seed : Nat, index : 0..MaxNonce]

(* Every variable has its type; an index never passes the end of its stream, *)
(* and a message never has more streams left to serve than there are slots.  *)
TypeOK ==
  /\ flash \in [SlotIds -> [Copies -> SlotOver(SlotValues)]]
  /\ last_used \in Nat
  /\ parked \in {None} \cup Requests
  /\ existing \in SUBSET OpenStates /\ fresh \in SUBSET OpenStates
  /\ room \in 0..NSlots
  /\ seeds \in Nat
  /\ emitted \in SUBSET [session : Sessions, nonce : AllNonces]
  /\ offer \in SUBSET AllNonces

(* No nonce ever signs for two sessions: two challenges over one nonce solve *)
(* for the secret share.                                                     *)
NoNonceReuse ==
  \A e, f \in emitted : e.nonce = f.nonce => e.session = f.session

(* A share leaves the device only after the advance past its nonce is what   *)
(* the slot reads as: no readable slot stands at or below a spent index of   *)
(* its own seed.                                                             *)
SpentIsBehind ==
  \A i \in SlotIds : Readable(i) =>
    \A e \in emitted : e.nonce.seed = Value(i).seed => e.nonce.index < Value(i).index

(* The shares a slot caches may be sent again only for the session they were *)
(* made for, so any share already sent for those nonces is that session's.   *)
CacheIsOneSession ==
  \A i \in SlotIds : (Readable(i) /\ Value(i).signing # None) =>
    \A e \in emitted : e.nonce \in Used(Value(i))
                         => e.session = Value(i).signing.session

\* No two slots ever derive nonces from one seed.
SeedsAreDistinct ==
  \A i, j \in SlotIds :
    (i # j /\ Readable(i) /\ Readable(j)) => Value(i).seed # Value(j).seed

(* A segment never publishes a nonce that has already signed.                *)
OffersAreUnspent == \A e \in emitted : e.nonce \notin offer

(* get returns the first match, so a stream in two slots would come back     *)
(* with an older index once the first is lost.  Only a hole among the slots  *)
(* can make a second copy: while every slot before a used one is readable,   *)
(* no step stores a stream twice, whatever the flash does during it.         *)
Unique == \A i, j \in SlotIds :
  (i # j /\ Readable(i) /\ Readable(j)) => Value(i).stream # Value(j).stream
NoHole == \A i, j \in SlotIds : i < j /\ Readable(j) => Readable(i)

StreamsStayUnique == [][NoHole /\ Unique => Unique']_vars

(* Slots, copies, faults and caches amount to a book of nonces: a slot that  *)
(* reads is a page, a seed that was given up never reads again, and shares   *)
(* leave only for the session and the nonces a slot stands behind.           *)
Page(v) == [seed |-> v.seed, stream |-> v.stream, index |-> v.index, signing |-> v.signing]
Pages == {Page(Value(i)) : i \in {j \in SlotIds : Readable(j)}}

Book == INSTANCE NonceBook WITH drawn <- 1..seeds, book <- Pages, spent <- emitted

NoncesAreBooked == Book!Spec
===============================================================================
