------------------------------- MODULE Wire -------------------------------
(***************************************************************************)
(* The two directions of the USB data endpoints, the device's framing      *)
(* state and the coordinator's port: what the session loop and the upgrade *)
(* listener have in common.  The coordinator repeats its magic bytes until *)
(* it reads the reply and discards what comes before that; its process may *)
(* end and start again, and the bus may be reset.                          *)
(***************************************************************************)
EXTENDS Framing

CONSTANTS PacketSize,  \* usb::MAX_PACKET_SIZE, the most one poll hands over
          Unread,      \* bound: replies left unread when magic bytes are sent
          MaxRestarts  \* bound: how often the coordinator or the bus starts again

ASSUME WireAssumption == /\ PacketSize \in Nat \ {0}
                         /\ Unread \in Nat /\ MaxRestarts \in Nat

VARIABLES link,        \* the Link of the loop that runs
          toDevice,    \* bytes on their way to the device
          toHost,      \* what the device has written: frames, replies and acks
          configured,  \* the host has selected a configuration
          port,        \* the coordinator's side: "closed", "waiting" or "linked"
          restarts

wireVars == <<link, toDevice, toHost, configured, port, restarts>>

WireInit == /\ link = Unlinked /\ toDevice = <<>> /\ toHost = <<>>
            /\ configured = FALSE /\ port = "closed" /\ restarts = 0

MagicReply == <<"reply", 1>>

-----------------------------------------------------------------------------
(* The device's end.                                                       *)

(* One packet off the endpoint: usb::Cdc::poll returns at most PacketSize  *)
(* bytes, and frames do not start or end where packets do.                 *)
Packets == {SubSeq(toDevice, 1, n) : n \in {n \in 1..PacketSize : n <= Len(toDevice)}}

\* Mutant: the packet stays in the FIFO.
PacketKept(packet) == toDevice

Rest(packet) == From(toDevice, Len(packet))

(* usb::Cdc::write: nothing before the host has configured the device, and *)
(* only a part while nobody collects.                                      *)
Written(frames) ==
    IF ~configured THEN {<<>>}
    ELSE IF port = "closed" THEN {SubSeq(frames, 1, n) : n \in 0..Len(frames)}
    ELSE {frames}

-----------------------------------------------------------------------------
(* The coordinator's end and the bus.                                      *)

\* By then the device has read what was in flight, and its packets are past.
OpenPort == /\ port = "closed" /\ toDevice = <<>>
            /\ port' = "waiting" /\ configured' = TRUE
            /\ UNCHANGED <<link, toDevice, toHost, restarts>>

SendMagic == /\ port = "waiting"
             /\ Len(toDevice) <= Length["magic"] /\ Len(toHost) <= Unread
             /\ toDevice' = toDevice \o Encoded("magic")
             /\ UNCHANGED <<link, toHost, configured, port, restarts>>

\* Whatever precedes the magic reply is discarded.
AwaitReply == /\ port = "waiting" /\ toHost # <<>>
              /\ toHost' = Tail(toHost)
              /\ port' = IF Head(toHost) = MagicReply THEN "linked" ELSE port
              /\ UNCHANGED <<link, toDevice, configured, restarts>>

\* The coordinator's process ends, in the middle of a frame it may be.
ClosePort == /\ port # "closed" /\ restarts < MaxRestarts
             /\ restarts' = restarts + 1 /\ port' = "closed"
             /\ \E n \in 0..Len(toDevice) : toDevice' = SubSeq(toDevice, 1, n)
             /\ UNCHANGED <<link, toHost, configured>>

\* GINTSTS.USBRST: the endpoints are flushed; the framing does not notice.
BusReset == /\ restarts < MaxRestarts
            /\ restarts' = restarts + 1 /\ port' = "closed"
            /\ configured' = FALSE /\ toDevice' = <<>> /\ toHost' = <<>>
            /\ UNCHANGED link

PortLost == ClosePort \/ BusReset
=============================================================================
