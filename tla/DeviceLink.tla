----------------------------- MODULE DeviceLink -----------------------------
(***************************************************************************)
(* The transport half of the event loop (main.rs): a packet goes through   *)
(* the framing, its messages to the session, whose answers collect in the  *)
(* outbox (lib.rs) and leave after the magic reply.  The coordinator is    *)
(* external and speaks to a device once it has announced itself.           *)
(***************************************************************************)
EXTENDS Wire

CONSTANTS Messages,     \* what the coordinator asks, each at most once
          Parts         \* the frames of the answer to each, as their lengths

ASSUME MessagesAssumption ==
    /\ Messages \subseteq Frames \ {"magic"}
    /\ Parts \in [Messages -> Seq(Nat \ {0})]
    /\ {"reply", "announce"} \cap Messages = {}

VARIABLES owesReply,    \* send_magic_reply
          outbox,       \* encoded frames not yet written
          got,          \* the messages handed to the session
          met,          \* the coordinator has read the announcement
          asked,        \* the messages it has sent
          heard         \* the answers it has read

deviceVars == <<owesReply, outbox, got>>
hostVars == <<met, asked, heard>>

LinkInit == /\ owesReply = FALSE /\ outbox = <<>> /\ got = <<>>
            /\ met = FALSE /\ asked = <<>> /\ heard = <<>>

-----------------------------------------------------------------------------
(* The device.                                                             *)

\* Mutant: what does not fit is left out and the rest follows.
PushedRest(m) == LET fits(i) == Parts[m][i] <= FrameLimit
                 IN  SelectSeq([i \in 1..Len(Parts[m]) |-> <<m, i>>], LAMBDA p : fits(p[2]))

(* Outbox::push: one frame per nonce segment; a frame over the limit is    *)
(* refused, which ends the answer, with the frames before it queued.       *)
Pushed(m) == LET fits == {n \in 0..Len(Parts[m]) : \A i \in 1..n : Parts[m][i] <= FrameLimit}
                 last == CHOOSE n \in fits : \A k \in fits : k <= n
             IN  [i \in 1..last |-> <<m, i>>]

Answers(messages) == FlattenSeq([i \in 1..Len(messages) |-> Pushed(messages[i])])

\* Magic bytes within the link are the wire's business, not the session's.
Spoken(frames) ==
    FlattenSeq([i \in 1..Len(frames) |-> IF frames[i] = "magic" THEN <<>> ELSE <<frames[i]>>])

\* Session::announce: the digest, then the name or that it needs one.
Announcement == <<"announce", 1>>

(* One iteration of the loop, over a packet or over none.  A stream that   *)
(* cannot be parsed ends the iteration before anything is written.         *)
Iteration(packet) ==
    \E r \in Poll(link, packet) :
        LET messages == Spoken(r.frames)
            reply == owesReply \/ Len(messages) < Len(r.frames)
            edge == ~link.linked /\ r.link.linked
            out == outbox \o Answers(messages) \o (IF edge THEN <<Announcement>> ELSE <<>>)
        IN  /\ link' = r.link
            /\ got' = got \o messages
            /\ toDevice' = Rest(packet)
            /\ IF r.err
               THEN /\ outbox' = outbox \o Answers(messages)
                    /\ owesReply' = reply
                    /\ UNCHANGED toHost
               ELSE /\ outbox' = <<>> /\ owesReply' = FALSE
                    /\ \E w \in Written((IF reply THEN <<MagicReply>> ELSE <<>>) \o out) :
                           toHost' = toHost \o w

IteratePacket == /\ \E packet \in Packets : Iteration(packet)
                 /\ UNCHANGED <<configured, port, restarts, hostVars>>

Iterate == /\ Iteration(<<>>)
           /\ UNCHANGED <<configured, port, restarts, hostVars>>

-----------------------------------------------------------------------------
(* The coordinator and the bus.                                            *)

Connect == (OpenPort \/ SendMagic \/ AwaitReply) /\ UNCHANGED <<deviceVars, hostVars>>

Hear == /\ port = "linked" /\ toHost # <<>>
        /\ toHost' = Tail(toHost)
        /\ met' = (met \/ Head(toHost) = Announcement)
        /\ heard' = IF Head(toHost)[1] \in Messages THEN Append(heard, Head(toHost)) ELSE heard
        /\ UNCHANGED <<link, toDevice, configured, port, restarts, deviceVars, asked>>

Ask(m) == /\ port = "linked" /\ met /\ m \notin Range(asked)
          /\ asked' = Append(asked, m)
          /\ toDevice' = toDevice \o Encoded(m)
          /\ UNCHANGED <<link, toHost, configured, port, restarts, deviceVars, met, heard>>

\* The device keeps its outbox and the reply it owes; the host forgets it.
Lost == PortLost /\ met' = FALSE /\ UNCHANGED <<deviceVars, asked, heard>>

LinkNext == \/ IteratePacket \/ Iterate \/ Connect \/ Hear \/ Lost
            \/ \E m \in Messages : Ask(m)

-----------------------------------------------------------------------------
(* The session is handed the messages of the coordinator, each once and in *)
(* the order they were sent, however packets cut them and whatever the     *)
(* bytes between them were: what is handed over is a subsequence of what   *)
(* was sent.  (Link::poll and drain, comms.rs)                             *)
DeliveredWasSent ==
    \E at \in [1..Len(got) -> 1..Len(asked)] :
        \A i \in 1..Len(got) : /\ asked[at[i]] = got[i]
                               /\ \A j \in 1..i - 1 : at[j] < at[i]

(* Of the answer to a message the coordinator reads a beginning: nothing   *)
(* is missing before a frame that it gets.  (Outbox::push, lib.rs)         *)
AnswersHaveNoGaps ==
    \A i \in 1..Len(heard) : LET m == heard[i][1]  n == heard[i][2] IN
        n > 1 => i > 1 /\ heard[i - 1] = <<m, n - 1>>

(* What main.rs says, "Announce on the LINK EDGE, after the magic reply":  *)
(* the announcement is read, since the coordinator discards only what      *)
(* comes before the reply.  It does not hold: on the edge the announcement *)
(* is written first.                                                       *)
AnnouncesAreHeard ==
    port = "waiting" =>
        \A i \in 1..Len(toHost) :
            toHost[i] = Announcement => \E j \in 1..i : toHost[j] = MagicReply
=============================================================================
