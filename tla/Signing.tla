------------------------------- MODULE Signing -------------------------------
(* A signing round: the coordinator's nonce cache and sign sessions, the     *)
(* nonce streams of each device, and the two ordered channels of each USB    *)
(* link.  A device's flash is taken to work here (NonceSlots models it when  *)
(* it does not) and which stream a full device gives up is left open.        *)
EXTENDS NonceSegments, FiniteSets, FiniteSetsExt, Sequences

CONSTANTS Devices, Streams,  \* Streams: naturals, ordered as stream ids are
          Sessions, Parties, \* the devices each session selects
          Items,             \* the sign items of each session
          NSlots,            \* nonce slots of a device
          MinStreams,        \* streams the coordinator wants on a device
          Batch, SkipBatches,
          MayCancel,         \* whether the user cancels or declines
          OtherHosts,        \* whether devices are used with other hosts too
          MaxInFlight,       \* bound: messages in a channel
          MaxResets,         \* bound: unplugged devices
          MaxSeeds,          \* bound: seeds a device draws
          None

ASSUME SigningAssumption ==
  /\ Streams \subseteq Nat /\ IsFiniteSet(Streams) /\ Seeds = Nat
  /\ None \notin Sessions
  /\ Parties \in [Sessions -> SUBSET Devices]
  /\ Items \in [Sessions -> Nat \ {0}]
  /\ Batch \in Nat \ {0} /\ SkipBatches \in Nat /\ NSlots \in Nat \ {0}

\* Mutant: the slot moves on without the shares it was moved for.
SlotWithoutShares(index, seed, session) == [index |-> index, seed |-> seed, session |-> None]

\* A device's slot: where the stream stands, and the session whose shares it
\* caches.
SlotValue(index, seed, session) == [index |-> index, seed |-> seed, session |-> session]

VARIABLES cache,     \* NonceCache::by_device, None where there is no entry
          status,    \* of each session
          assigned,  \* StartSign::nonces: stream and nonces of each party
          sent,      \* sent_req_to_device
          shares,    \* devices whose signature shares have arrived
          drawn,     \* stream ids drawn for a device
          slots,     \* the nonce slots of each device, None if not there
          seeds,     \* seeds a device has drawn
          parked,    \* the session on a device's screen, or None
          signed,    \* ghost: <<session, nonces>> a device has signed
          toDevice, toCoord,
          resets, panicked

coordVars == <<cache, status, assigned, sent, shares, drawn, panicked>>
deviceVars == <<slots, seeds, parked, signed>>
vars == <<coordVars, deviceVars, toDevice, toCoord, resets>>

Init == /\ cache = [d \in Devices |-> [t \in Streams |-> None]]
        /\ status = [s \in Sessions |-> "new"]
        /\ assigned = [s \in Sessions |-> None]
        /\ sent = [s \in Sessions |-> {}]
        /\ shares = [s \in Sessions |-> {}]
        /\ drawn = [d \in Devices |-> {}]
        /\ slots = [d \in Devices |-> [t \in Streams |-> None]]
        /\ seeds = [d \in Devices |-> 0]
        /\ parked = [d \in Devices |-> None]
        /\ signed = [d \in Devices |-> {}]
        /\ toDevice = [d \in Devices |-> <<>>]
        /\ toCoord = [d \in Devices |-> <<>>]
        /\ resets = 0
        /\ panicked = FALSE

Room(channel) == Len(channel) < MaxInFlight
Active == {s \in Sessions : status[s] = "active"}

-------------------------------------------------------------------------------
(* The coordinator.                                                          *)

Known(d) == {t \in Streams : cache[d][t] # None}

\* maybe_request_nonce_replenishment: the streams it knows, and new ones to
\* make up the number it wants.
OpenStreams(d) ==
  /\ Room(toDevice[d])
  /\ \E new \in SUBSET (Streams \ drawn[d]) :
       /\ Cardinality(new) =
            (IF MinStreams > Cardinality(Known(d)) THEN MinStreams - Cardinality(Known(d)) ELSE 0)
       /\ drawn' = [drawn EXCEPT ![d] = @ \cup new]
       /\ LET claim(t) == IF t \in new THEN [index |-> 0, remaining |-> 0]
                          ELSE [index |-> cache[d][t].index, remaining |-> Size(cache[d][t])]
          IN toDevice' = [toDevice EXCEPT ![d] =
               Append(@, [type |-> "open", claims |-> [t \in Known(d) \cup new |-> claim(t)]])]
  /\ UNCHANGED <<cache, status, assigned, sent, shares, panicked, deviceVars, toCoord, resets>>

\* Mutant: only streams of sessions already sent out count as used.
UsedOnceSent(d) == {assigned[s][d].stream : s \in {a \in Active : d \in sent[a]}}

\* all_used_nonce_streams, as far as they are of d.
UsedStreams(d) == {assigned[s][d].stream : s \in {a \in Active : d \in Parties[a]}}

\* Streams with enough nonces that no active session uses.
Usable(d, n) == {t \in Known(d) \ UsedStreams(d) : Size(cache[d][t]) >= n}
First(ts) == CHOOSE t \in ts : \A u \in ts : t <= u

\* start_sign, with new_signing_session: each party's first usable stream.
StartSign(s) ==
  /\ status[s] = "new"
  /\ \A d \in Parties[s] : Usable(d, Items[s]) # {}
  /\ status' = [status EXCEPT ![s] = "active"]
  /\ assigned' = [assigned EXCEPT ![s] = [d \in Parties[s] |->
       LET t == First(Usable(d, Items[s]))
           g == cache[d][t]
       IN [stream |-> t, nonces |-> Slice(g, g.index, g.index + Items[s])]]]
  /\ UNCHANGED <<cache, sent, shares, drawn, panicked, deviceVars, toDevice, toCoord, resets>>

\* SentSignReq
Sent(s, d) == [sent EXCEPT ![s] = @ \cup {d}]

\* request_device_sign: may be repeated for as long as the session is active.
RequestDeviceSign(s, d) ==
  /\ s \in Active /\ d \in Parties[s] /\ Room(toDevice[d])
  /\ sent' = Sent(s, d)
  /\ toDevice' = [toDevice EXCEPT ![d] = Append(@, [type |-> "sign", session |-> s])]
  /\ UNCHANGED <<cache, status, assigned, shares, drawn, panicked, deviceVars, toCoord, resets>>

(* CloseSignSession, of the sessions `closed`: nonces that were sent are gone *)
(* whether they were used or not.                                            *)
Consumed(c, closed) ==
  [d \in Devices |-> [t \in Streams |->
    LET ends == {assigned[s][d].nonces.next :
                   s \in {r \in closed : d \in sent[r] /\ assigned[r][d].stream = t}}
    IN IF ends = {} THEN c[d][t] ELSE DeleteUpTo(c[d][t], Max(ends))]]

\* cancel_sign_session
Cancel(s) ==
  /\ MayCancel
  /\ s \in Active
  /\ status' = [status EXCEPT ![s] = "cancelled"]
  /\ cache' = Consumed(cache, {s})
  /\ UNCHANGED <<assigned, sent, shares, drawn, panicked, deviceVars, toDevice, toCoord, resets>>

\* cancel_all_signing_sessions, and DeleteKey: the sessions are of one key.
CancelAll ==
  /\ MayCancel
  /\ Active # {}
  /\ status' = [s \in Sessions |-> IF s \in Active THEN "cancelled" ELSE status[s]]
  /\ cache' = Consumed(cache, Active)
  /\ UNCHANGED <<assigned, sent, shares, drawn, panicked, deviceVars, toDevice, toCoord, resets>>

Received(d) == Head(toCoord[d])
Receiving(d, type) ==
  /\ toCoord[d] # <<>> /\ Received(d).type = type
  /\ toCoord' = [toCoord EXCEPT ![d] = Tail(@)]

\* extend_segment, on the entry or on an empty one.
Extended(c, t, g) == [c EXCEPT ![t] = Extend(IF @ = None THEN NoNonces ELSE @, g)]

\* NonceResponse: one segment of each stream at most.
RecvNonceResponse(d) ==
  /\ Receiving(d, "nonces")
  /\ cache' = [cache EXCEPT ![d] =
       LET segments == Received(d).segments
       IN [t \in Streams |-> IF t \in DOMAIN segments
                             THEN Extended(@, t, segments[t])[t] ELSE @[t]]]
  /\ UNCHANGED <<status, assigned, sent, shares, drawn, panicked, deviceVars, toDevice, resets>>

\* verify_signature_share: the shares are over the nonces of the session.
Verifies(s, d) == d \in Parties[s] /\ Received(d).nonces = assigned[s][d].nonces

\* Mutant: the session is complete with one share short.
AllButOne(s, got) == Cardinality(got) + 1 >= Cardinality(Parties[s])
AllReceived(s, got) == got = Parties[s]

(* SignatureShare for an active session: the shares, the replenishment, and  *)
(* the signature when they are the last.                                     *)
RecvShare(d) ==
  LET s == Received(d).session
      got == shares[s] \cup {d}
      extended == [cache EXCEPT ![d] = Extended(@, Received(d).stream, Received(d).replenish)]
  IN /\ Receiving(d, "share")
     /\ s \in Active
     /\ IF ~Verifies(s, d) THEN UNCHANGED <<cache, status, shares>>
        ELSE /\ shares' = [shares EXCEPT ![s] = got]
             /\ IF AllReceived(s, got)
                THEN /\ status' = [status EXCEPT ![s] = "finished"]
                     /\ cache' = Consumed(extended, {s})
                ELSE cache' = extended /\ UNCHANGED status
     /\ UNCHANGED <<assigned, sent, drawn, panicked, deviceVars, toDevice, resets>>

\* A share of a session that is closed: recv_device_message panics.  The
\* process comes back with the state its mutations rebuild, which is the same.
LateShare(d) ==
  /\ toCoord[d] # <<>> /\ Received(d).type = "share"
  /\ Received(d).session \notin Active
  /\ toCoord' = [toCoord EXCEPT ![d] = Tail(@)]
  /\ panicked' = TRUE
  /\ UNCHANGED <<cache, status, assigned, sent, shares, drawn, deviceVars, toDevice, resets>>

-------------------------------------------------------------------------------
(* A device.                                                                 *)

\* Mutant: a stream that has signed is taken for a free slot.
HeldUnused(d) == {t \in Streams : slots[d][t] # None /\ slots[d][t].index = 0}

Held(d) == {t \in Streams : slots[d][t] # None}
Message(d) == Head(toDevice[d])
Handling(d, type) ==
  /\ toDevice[d] # <<>> /\ Message(d).type = type
  /\ toDevice' = [toDevice EXCEPT ![d] = Tail(@)]

\* reconcile_coord_nonce_stream_state: how many nonces to send.
ToSend(v, claim) ==
  IF v.index > claim.index \/ claim.remaining < Batch THEN Batch
  ELSE Lesser(claim.index - v.index, Batch)

\* OpenNonceStreams: existing streams first, no more than there are slots; a
\* new stream takes a free slot or that of another stream.
RecvOpen(d) ==
  /\ Handling(d, "open") /\ Room(toCoord[d])
  /\ LET claims == Message(d).claims
     IN \E served \in SUBSET (DOMAIN claims), lost \in SUBSET Streams :
          LET new == served \ Held(d)
              total == Cardinality(Held(d)) + Cardinality(new)
              seed(t) == seeds[d] + Cardinality({u \in new : u <= t})
              value(t) == IF t \in new THEN SlotValue(0, seed(t), None) ELSE slots[d][t]
              worked == {t \in served : ToSend(value(t), claims[t]) > 0}
          IN /\ seeds[d] + Cardinality(new) <= MaxSeeds
             /\ Cardinality(served) = Lesser(NSlots, Cardinality(DOMAIN claims))
             /\ new # {} => DOMAIN claims \cap Held(d) \subseteq served
             /\ lost \subseteq Held(d) \cup new
             /\ Cardinality(lost) = (IF total > NSlots THEN total - NSlots ELSE 0)
             /\ slots' = [slots EXCEPT ![d] =
                  [t \in Streams |-> IF t \in lost THEN None
                                     ELSE IF t \in new THEN value(t) ELSE @[t]]]
             /\ seeds' = [seeds EXCEPT ![d] = @ + Cardinality(new)]
             /\ toCoord' = [toCoord EXCEPT ![d] = Append(@, [type |-> "nonces",
                  segments |-> [t \in worked |->
                    Segment(value(t).index, value(t).index + ToSend(value(t), claims[t]),
                            value(t).seed)]])]
  /\ UNCHANGED <<coordVars, parked, signed, resets>>

\* RequestSign: refused without the stream, otherwise put on the screen in
\* place of what was there.
RecvRequest(d) ==
  LET s == Message(d).session
  IN /\ Handling(d, "sign")
     /\ parked' = [parked EXCEPT ![d] = IF assigned[s][d].stream \in Held(d) THEN s ELSE @]
     /\ UNCHANGED <<coordVars, slots, seeds, signed, toCoord, resets>>

\* Mutant: nothing is ever taken from the cache.
NeverCached(v, s) == FALSE

Cached(v, s) == v # None /\ v.session = s

\* Mutant: a nonce is good for as long as the slot has not passed the last.
SignableOverlap(v, g) == v # None /\ g.next >= v.index

Signable(v, g) ==
  /\ v # None
  /\ g.index >= v.index
  /\ g.index - v.index <= Batch * SkipBatches

(* sign_ack: the cached shares again, or shares over the nonces asked for,   *)
(* after which the stream stands past them.                                  *)
Confirm(d) ==
  LET s == parked[d]
      t == assigned[s][d].stream
      g == assigned[s][d].nonces
      v == slots[d][t]
      after == IF Cached(v, s) THEN v ELSE SlotValue(g.next, v.seed, s)
      used == Segment(g.index, g.next, v.seed)
  IN /\ s # None /\ Room(toCoord[d])
     /\ parked' = [parked EXCEPT ![d] = None]
     /\ IF Cached(v, s) \/ Signable(v, g)
        THEN /\ slots' = [slots EXCEPT ![d][t] = after]
             /\ signed' = [signed EXCEPT ![d] = @ \cup {[session |-> s, nonces |-> used]}]
             /\ toCoord' = [toCoord EXCEPT ![d] = Append(@,
                  [type |-> "share", session |-> s, stream |-> t, nonces |-> used,
                   replenish |-> Segment(after.index, after.index + Batch, after.seed)])]
        ELSE UNCHANGED <<slots, signed, toCoord>>
     /\ UNCHANGED <<coordVars, seeds, toDevice, resets>>

\* The prompt is declined; like Confirm, a key the device has room to answer.
Decline(d) ==
  /\ MayCancel
  /\ parked[d] # None /\ Room(toCoord[d])
  /\ parked' = [parked EXCEPT ![d] = None]
  /\ UNCHANGED <<coordVars, slots, seeds, signed, toDevice, toCoord, resets>>

\* The cable is pulled: the device loses its RAM, the link what is on it.
Unplugged(d) ==
  /\ resets < MaxResets
  /\ resets' = resets + 1
  /\ parked' = [parked EXCEPT ![d] = None]
  /\ toDevice' = [toDevice EXCEPT ![d] = <<>>]
  /\ toCoord' = [toCoord EXCEPT ![d] = <<>>]
  /\ UNCHANGED <<coordVars, seeds, signed>>

Unplug(d) == Unplugged(d) /\ UNCHANGED slots

\* Another host opens streams of its own on the device, in these slots.
UseElsewhere(d) ==
  /\ OtherHosts
  /\ Unplugged(d)
  /\ \E lost \in SUBSET Held(d) \ {{}} :
       slots' = [slots EXCEPT ![d] = [t \in Streams |-> IF t \in lost THEN None ELSE @[t]]]

-------------------------------------------------------------------------------
Next ==
  \/ \E s \in Sessions : StartSign(s) \/ Cancel(s)
  \/ CancelAll
  \/ \E s \in Sessions, d \in Devices : RequestDeviceSign(s, d)
  \/ \E d \in Devices :
       \/ OpenStreams(d) \/ RecvNonceResponse(d) \/ RecvShare(d) \/ LateShare(d)
       \/ RecvOpen(d) \/ RecvRequest(d) \/ Confirm(d) \/ Decline(d)
       \/ Unplug(d) \/ UseElsewhere(d)

Spec == Init /\ [][Next]_vars

(* The cable is pulled finitely often (MaxResets), the link delivers, the    *)
(* application asks again for a share it does not have, and a user asked     *)
(* again and again for a session confirms it at last.                        *)
Fairness ==
  /\ \A s \in Sessions, d \in Devices :
       /\ SF_vars(d \notin shares[s] /\ RequestDeviceSign(s, d))
       /\ SF_vars(parked[d] = s /\ Confirm(d))
  /\ \A d \in Devices :
       /\ WF_vars(RecvNonceResponse(d)) /\ WF_vars(RecvShare(d)) /\ WF_vars(LateShare(d))
       /\ WF_vars(RecvOpen(d)) /\ WF_vars(RecvRequest(d))

FairSpec == Spec /\ Fairness

-------------------------------------------------------------------------------
IsSlot(v) == v \in [index : Nat, seed : Nat, session : {None} \cup Sessions]

(* Every variable has its type; a session has nonces from when it is         *)
(* started, as many as it has items, and only its parties are asked or heard.*)
TypeOK ==
  /\ cache = [d \in Devices |-> [t \in Streams |-> cache[d][t]]]
  /\ \A d \in Devices, t \in Streams : cache[d][t] = None \/ IsSegment(cache[d][t])
  /\ status \in [Sessions -> {"new", "active", "finished", "cancelled"}]
  /\ \A s \in Sessions :
       IF status[s] = "new" THEN assigned[s] = None /\ sent[s] = {} /\ shares[s] = {}
       ELSE \A d \in Parties[s] :
              /\ assigned[s][d].stream \in Streams
              /\ IsSegment(assigned[s][d].nonces)
              /\ Size(assigned[s][d].nonces) = Items[s]
  /\ sent \in [Sessions -> SUBSET Devices] /\ shares \in [Sessions -> SUBSET Devices]
  /\ \A s \in Sessions : shares[s] \subseteq sent[s] /\ sent[s] \subseteq Parties[s]
  /\ drawn \in [Devices -> SUBSET Streams] /\ seeds \in [Devices -> Nat]
  /\ \A d \in Devices, t \in Streams : slots[d][t] = None \/ IsSlot(slots[d][t])
  /\ parked \in [Devices -> {None} \cup Sessions]
  /\ resets \in 0..MaxResets /\ panicked \in BOOLEAN

(* Sessions under way at the same time never draw on one nonce of a device:  *)
(* two challenges over it would give the secret share away if the device     *)
(* ever signed both, and leave one of them unsignable if it does not.        *)
ActiveNoncesAreDisjoint ==
  \A s, r \in Active : s # r =>
    \A d \in Parties[s] \cap Parties[r] : assigned[s][d].stream # assigned[r][d].stream

(* Whenever a session is closed, the nonces it sent are there to be deleted: *)
(* the assertions of consume and delete_up_to hold, whatever order nonces,   *)
(* shares and requests arrive in.                                            *)
ConsumptionIsDefined ==
  \A s \in Active : \A d \in sent[s] :
    LET g == cache[d][assigned[s][d].stream]
    IN g # None /\ g.index <= assigned[s][d].nonces.next
                /\ assigned[s][d].nonces.next <= g.next

(* What a device has signed for a session it will sign again for as long as  *)
(* the session is open: a lost share can always be asked for once more.      *)
SignedIsReplayable ==
  \A s \in Active : \A d \in Parties[s] :
    (\E e \in signed[d] : e.session = s) =>
      LET v == slots[d][assigned[s][d].stream] IN v # None /\ v.session = s

(* Every nonce the coordinator holds for a device is the one the device will *)
(* derive, so that the shares it is about to ask for will verify.            *)
CacheIsGenuine ==
  \A d \in Devices, t \in Streams : cache[d][t] # None =>
    /\ t \in Held(d)
    /\ \A k \in cache[d][t].index..(cache[d][t].next - 1) :
         cache[d][t].nonces[k] = slots[d][t].seed

(* A finished session was signed by every device it selected, each over the  *)
(* nonces the session was started with.                                      *)
FinishedIsUnanimous ==
  \A s \in Sessions : status[s] = "finished" =>
    \A d \in Parties[s] :
      [session |-> s, nonces |-> assigned[s][d].nonces] \in signed[d]

\* A device never signs two sessions with one nonce.
NoNonceReuse ==
  \A d \in Devices : \A e, f \in signed[d] : e.session # f.session =>
    \A k \in (e.nonces.index..(e.nonces.next - 1)) \cap (f.nonces.index..(f.nonces.next - 1)) :
      e.nonces.nonces[k] # f.nonces.nonces[k]

(* The devices of a round keep one book of nonces, as NonceSlots does with a *)
(* flash that fails: what this module takes for granted of a device.         *)
PageOf(d, t) ==
  LET v == slots[d][t]
  IN [seed |-> <<d, v.seed>>, stream |-> t, index |-> v.index,
      signing |-> IF v.session = None THEN None
                  ELSE [session |-> v.session, first |-> assigned[v.session][d].nonces.index]]

PagesOf(d) == {PageOf(d, t) : t \in {u \in Streams : slots[d][u] # None}}

SharesOf(d, e) ==
  {[session |-> e.session, nonce |-> [seed |-> <<d, e.nonces.nonces[k]>>, index |-> k]] :
     k \in e.nonces.index..(e.nonces.next - 1)}

Book == INSTANCE NonceBook
          WITH drawn <- UNION {{d} \X (1..seeds[d]) : d \in Devices},
               book <- UNION {PagesOf(d) : d \in Devices},
               spent <- UNION {SharesOf(x[1], x[2]) :
                                 x \in UNION {{d} \X signed[d] : d \in Devices}}

NoncesAreBooked == Book!Spec

(* A device has given up the stream a session selected on it: its slot is    *)
(* another host's, or was seeded again since.                                *)
GivenUp(s, d) ==
  LET v == slots[d][assigned[s][d].stream]
      g == assigned[s][d].nonces
  IN v = None \/ v.seed # g.nonces[g.index]

(* A started session is signed in the end, however messages are lost and     *)
(* requests declined, unless it is cancelled or a device gives its nonces up.*)
Completes ==
  \A s \in Sessions : status[s] = "active" ~>
    status[s] # "active" \/ \E d \in Parties[s] : GivenUp(s, d)

(* coordinator.rs says of the session a share is for that its being active   *)
(* is an invariant (an expect).                                              *)
SharesAreForActiveSessions == ~panicked
===============================================================================
