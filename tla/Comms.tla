------------------------------- MODULE Comms -------------------------------
(***************************************************************************)
(* The device on its cable: at boot the upgrade key decides whether the    *)
(* session or the upgrade listener answers the coordinator (main.rs), for  *)
(* as long as the device is powered.  Both read the same wire.             *)
(***************************************************************************)
EXTENDS DeviceLink, Upgrade

VARIABLES mode         \* "session" or "upgrade"

commsVars == <<wireVars, deviceVars, hostVars, stager, driverVars, mode>>

CommsInit == /\ WireInit /\ LinkInit /\ UpgradeInit
        /\ mode \in {"session", "upgrade"}

Session == mode = "session" /\ UNCHANGED <<stager, driverVars, mode>>
Listener == mode = "upgrade" /\ UNCHANGED <<deviceVars, hostVars, mode>>

CommsNext == (Session /\ LinkNext) \/ (Listener /\ UpgradeNext)

(* The loops read their endpoint for as long as they run; the coordinator  *)
(* repeats its magic, reads what comes, and writes the chunks it may.      *)
Fairness ==
    /\ WF_commsVars(Session /\ IteratePacket) /\ WF_commsVars(Session /\ Connect) /\ WF_commsVars(Session /\ Hear)
    /\ WF_commsVars(Listener /\ StagePacket) /\ WF_commsVars(Listener /\ Dial)
    /\ WF_commsVars(Listener /\ Drain) /\ WF_commsVars(Listener /\ SendChunk) /\ WF_commsVars(Listener /\ ReadAck)

CommsSpec == CommsInit /\ [][CommsNext]_commsVars /\ Fairness

(* A coordinator that waits for the device gets its magic reply, after any *)
(* cut frame, refused stream, restart or bus reset, unless the listener    *)
(* has staged an image and stopped.  (Link::poll, CommsError::Desync)      *)
LinkComesUp == port = "waiting" ~> (port # "waiting" \/ stager.state = "Staged")
=============================================================================
