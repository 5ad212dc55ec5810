------------------------------ MODULE Upgrade ------------------------------
(***************************************************************************)
(* The upgrade listener (firmware/src/upgrade.rs): instead of the session, *)
(* a device booted with the upgrade key held admits an announced image,    *)
(* takes the raw bytes of it off the wire past the framing, stages them in *)
(* PSRAM and checks what it reads back.  The driver is external: it sends  *)
(* the offer, enters upgrade mode, leaves a gap, and then writes a chunk   *)
(* and waits for its ack; it gives up when nothing comes.                  *)
(***************************************************************************)
EXTENDS Wire

CONSTANTS Offers,      \* PrepareUpgrade2 frames: [size, digest, sends]; digest and sends are images
          Declared,    \* the length each image declares in its header
          HeaderByte,  \* where that header is complete
          Chunk,       \* FIRMWARE_UPGRADE_CHUNK_LEN
          WriteAlign,  \* psram::WRITE_ALIGN
          BodyAlign,   \* memmap::FW_BODY_ALIGN
          MinBody,     \* memmap::FW_MIN_BODY_LEN
          MaxBody      \* psram::BURN_LEN_MAX

OfferFrames == DOMAIN Offers \ {"legacy"}

ASSUME UpgradeAssumption ==
    /\ "legacy" \in DOMAIN Offers
    /\ "enter" \notin DOMAIN Offers
    /\ DOMAIN Offers \cup {"enter"} \subseteq Frames \ {"magic"}
    /\ \A f \in DOMAIN Offers \cup {"enter"} : Length[f] <= FrameLimit
    /\ \A f \in DOMAIN Offers : /\ Offers[f].size \in Nat
                               /\ {Offers[f].digest, Offers[f].sends} \subseteq DOMAIN Declared
    /\ DOMAIN Declared \cap Frames = {}
    /\ {Chunk, WriteAlign, BodyAlign, MinBody, HeaderByte} \subseteq Nat \ {0}
    /\ BodyAlign % WriteAlign = 0 /\ Chunk % WriteAlign = 0 /\ HeaderByte <= MinBody

VARIABLES stager,      \* the Stager: its state, and what is in PSRAM and in the carry
          offer,       \* what the driver offers
          step,        \* "idle", "offered", "entered", "refused", "failed" or "done"
          sent,        \* bytes of the image it has written
          acked        \* acks it has counted

driverVars == <<offer, step, sent, acked>>

NoImage == "none"
Ack == <<"ack", 1>>          \* FIRMWARE_NEXT_CHUNK_READY_SIGNAL
Refusals == {"Legacy", "OutOfOrder", "Unaligned", "TooSmall", "TooLarge", "Selftest",
             "ExtraBytes", "LengthDisagreement", "Digest"}

Idle == [state |-> "Idle", size |-> 0, received |-> 0, expected |-> NoImage,
         psram |-> <<>>, carry |-> <<>>]

UpgradeInit == /\ stager = Idle
               /\ offer = "legacy" /\ step = "idle" /\ sent = 0 /\ acked = 0

Image(i, n) == [k \in 1..n |-> <<i, k>>]

-----------------------------------------------------------------------------
(* The Stager.                                                             *)

Refuse(st, why) == [st EXCEPT !.state = why]

BadSize(size) == IF size % BodyAlign # 0 THEN "Unaligned"
                 ELSE IF size < MinBody THEN "TooSmall"
                 ELSE IF size > MaxBody THEN "TooLarge"
                 ELSE "none"

(* admit: the self-test overwrites the window and may find a bad byte; the *)
(* digest a refused offer announces is not kept.                           *)
Admit(st, f) ==
    LET cleared == [st EXCEPT !.state = "Idle", !.psram = <<>>, !.carry = <<>>]
        size == Offers[f].size
    IN  CASE f = "legacy" -> {Refuse(st, "Legacy")}
          [] f = "enter" ->
                {IF st.state = "Prepared" THEN [st EXCEPT !.state = "Streaming", !.received = 0]
                 ELSE Refuse(st, "OutOfOrder")}
          [] f \in OfferFrames ->
                IF BadSize(size) # "none" THEN {Refuse(cleared, BadSize(size))}
                ELSE {Refuse(cleared, "Selftest"),
                      [cleared EXCEPT !.state = "Prepared", !.size = size,
                                      !.expected = Offers[f].digest]}
          [] OTHER -> {st}

\* Every frame of a packet, in the order they came.
Admitted(st, frames) ==
    LET after[i \in 0..Len(frames)] ==
            IF i = 0 THEN {st} ELSE UNION {Admit(s, frames[i]) : s \in after[i - 1]}
    IN  after[Len(frames)]

\* The carry topped up to a word first, then whole words, then a new carry.
Fed(st, bytes) ==
    LET room == WriteAlign - Len(st.carry)
        take == IF st.carry = <<>> THEN 0 ELSE IF room < Len(bytes) THEN room ELSE Len(bytes)
        topped == st.carry \o SubSeq(bytes, 1, take)
        put == take > 0 /\ take = room
        rest == From(bytes, take)
        whole == Len(rest) - (Len(rest) % WriteAlign)
    IN  [st EXCEPT !.psram = @ \o (IF put THEN topped ELSE <<>>) \o SubSeq(rest, 1, whole),
                   !.carry = IF rest = <<>> THEN IF put THEN <<>> ELSE topped
                             ELSE From(rest, whole),
                   !.received = @ + Len(bytes)]

\* Mutant: the image is taken at its word.
VerdictUnchecked(st) == "Staged"

(* verify: the length the staged header declares, then the digest of what  *)
(* the window holds.                                                       *)
Verdict(st) ==
    LET head == st.psram[HeaderByte]
    IN  IF head[1] \in DOMAIN Declared /\ head[2] = HeaderByte /\ Declared[head[1]] # st.size
        THEN "LengthDisagreement"
        ELSE IF st.psram # Image(st.expected, st.size) THEN "Digest"
        ELSE "Staged"

\* Mutant: the last, short chunk is never acknowledged.
AcksAtWhole(size, n) == n \div Chunk

\* One ack for each whole chunk, and one for the last however short it is.
Chunks(n) == (n + Chunk - 1) \div Chunk
AcksAt(size, n) == IF n = size THEN Chunks(size) ELSE n \div Chunk

(* feed: what it makes of the stager, and the acks owed.  A refusal owes   *)
(* none, not even for a chunk that landed.                                 *)
Feed(st, bytes) ==
    LET next == Fed(st, bytes)
    IN  IF next.received > st.size THEN [stager |-> Refuse(st, "ExtraBytes"), acks |-> 0]
        ELSE IF next.received < st.size
        THEN [stager |-> next, acks |-> AcksAt(st.size, next.received) - AcksAt(st.size, st.received)]
        ELSE [stager |-> [next EXCEPT !.state = Verdict(next)],
              acks |-> IF Verdict(next) = "Staged"
                       THEN AcksAt(st.size, next.received) - AcksAt(st.size, st.received) ELSE 0]

-----------------------------------------------------------------------------
(* The listener: run ends once an image is staged.                         *)

Stream(packet) ==
    LET fed == Feed(stager, packet)
    IN  /\ stager.state = "Streaming"
        /\ stager' = fed.stager
        /\ \E w \in Written([i \in 1..fed.acks |-> Ack]) : toHost' = toHost \o w
        /\ toDevice' = Rest(packet)
        /\ UNCHANGED <<link, configured, port, restarts, driverVars>>

\* A stream that cannot be parsed ends the iteration before the reply is sent.
Listen(packet) ==
    /\ stager.state \notin {"Streaming", "Staged"}
    /\ \E r \in Poll(link, packet) :
           /\ link' = r.link
           /\ stager' \in Admitted(stager, r.frames)
           /\ \E w \in Written(IF ~r.err /\ "magic" \in Range(r.frames)
                               THEN <<MagicReply>> ELSE <<>>) : toHost' = toHost \o w
    /\ toDevice' = Rest(packet)
    /\ UNCHANGED <<configured, port, restarts, driverVars>>

StagePacket == \E packet \in Packets : Stream(packet) \/ Listen(packet)

-----------------------------------------------------------------------------
(* The driver: hostcheck's, which drains the replies still in flight, and  *)
(* takes anything but an ack for a failure.                                *)

Dial == (OpenPort \/ SendMagic \/ AwaitReply) /\ UNCHANGED <<stager, driverVars>>

Drain == /\ port = "linked" /\ step \in {"idle", "refused", "done"} /\ toHost # <<>>
         /\ toHost' = Tail(toHost)
         /\ UNCHANGED <<link, toDevice, configured, port, restarts, stager, driverVars>>

Offer(f) == /\ port = "linked" /\ step \in {"idle", "refused"}
            /\ toDevice = <<>> /\ toHost = <<>>
            /\ step' = "offered" /\ offer' = f /\ sent' = 0 /\ acked' = 0
            /\ toDevice' = Encoded(f)
            /\ UNCHANGED <<link, toHost, configured, port, restarts, stager>>

Enter == /\ port = "linked" /\ step = "offered"
         /\ step' = "entered"
         /\ toDevice' = toDevice \o Encoded("enter")
         /\ UNCHANGED <<link, toHost, configured, port, restarts, stager, offer, sent, acked>>

\* The gap before the first chunk lets the device read everything before it.
SendChunk ==
    LET size == Offers[offer].size
        upTo == IF sent + Chunk < size THEN sent + Chunk ELSE size
    IN  /\ port = "linked" /\ step = "entered" /\ sent < size
        /\ acked = Chunks(sent)
        /\ sent = 0 => toDevice = <<>>
        /\ sent' = upTo
        /\ toDevice' = toDevice \o From(Image(Offers[offer].sends, upTo), sent)
        /\ UNCHANGED <<link, toHost, configured, port, restarts, stager, offer, step, acked>>

ReadAck ==
    /\ port = "linked" /\ step = "entered" /\ toHost # <<>>
    /\ toHost' = Tail(toHost)
    /\ IF Head(toHost) = Ack
       THEN /\ acked' = acked + 1
            /\ step' = IF acked' = Chunks(Offers[offer].size) THEN "done" ELSE step
       ELSE step' = "failed" /\ UNCHANGED acked
    /\ UNCHANGED <<link, toDevice, configured, port, restarts, stager, offer, sent>>

(* Nothing is under way and no ack came before the deadline: either the    *)
(* verdict, and the next image may be offered, or a failure.               *)
GiveUp == /\ port = "linked" /\ step = "entered" /\ acked < Chunks(sent)
          /\ toDevice = <<>> /\ toHost = <<>>
          /\ restarts < MaxRestarts /\ restarts' = restarts + 1
          /\ step' = IF sent = Offers[offer].size /\ acked > 0 THEN "refused" ELSE "failed"
          /\ UNCHANGED <<link, toDevice, toHost, configured, port, stager, offer, sent, acked>>

HangUp == PortLost /\ step' = "idle" /\ UNCHANGED <<stager, offer, sent, acked>>

UpgradeNext == \/ StagePacket \/ Dial \/ Drain \/ Enter \/ SendChunk \/ ReadAck
               \/ GiveUp \/ HangUp
               \/ \E f \in DOMAIN Offers : Offer(f)

-----------------------------------------------------------------------------
(* The last ack carries the verdict: a driver that has counted them all    *)
(* knows that the image it announced is in PSRAM, whole, and is the one    *)
(* whose length its header declares.  (Stager::feed and verify)            *)
AcksCarryTheVerdict ==
    step = "done" => LET o == Offers[offer] IN
        /\ stager.state = "Staged"
        /\ stager.psram = Image(o.digest, o.size)
        /\ Declared[o.digest] = o.size

(* An image that is what its offer says is staged and acknowledged once it *)
(* starts to stream, however packets cut it, unless the cable is pulled.   *)
(* (the carry and the acks of Stager::feed)                                *)
UpgradeCompletes ==
    (/\ step = "entered" /\ sent = 0 /\ toDevice = <<>>
     /\ stager.state = "Streaming"
     /\ Offers[offer].sends = Offers[offer].digest
     /\ Declared[Offers[offer].digest] = Offers[offer].size)
    ~> step \in {"done", "idle"}
=============================================================================
