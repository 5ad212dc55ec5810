------------------------------ MODULE Framing ------------------------------
(***************************************************************************)
(* The device end of the serial link (hal/src/comms.rs): a gate that opens *)
(* on the coordinator's magic bytes, and a bounded buffer from which whole *)
(* frames are decoded.  A frame carries no length: only decoding it tells  *)
(* where it ends.  Here a byte is its place in a frame, <<f, i>>, so that  *)
(* a decoder sees at once whether the bytes before it are the beginning of *)
(* a frame.  Bytes that are not, for instance those behind a frame that    *)
(* was cut, are misread: dropped as some frame nobody asked for (with good *)
(* bytes behind them), held as the beginning of one, or refused.  Magic    *)
(* bytes are never misread: none of the pattern is a variant tag, and what *)
(* follows their own tag is compared.                                      *)
(***************************************************************************)
EXTENDS Integers, FiniteSets, SequencesExt

CONSTANTS Frames,      \* what the coordinator can send, "magic" among them
          Length,      \* the bytes of each frame
          FrameLimit   \* FRAME_LIMIT, the size of the buffer

ASSUME FramesAssumption ==
    /\ "magic" \in Frames
    /\ Length \in [Frames -> Nat \ {0}]
    /\ FrameLimit \in Nat /\ Length["magic"] \in 2..FrameLimit

Encoded(f) == [i \in 1..Length[f] |-> <<f, i>>]

\* The magic frame is a variant tag and then the pattern the gate waits for.
MagicLen == Length["magic"] - 1
Pattern == [i \in 1..MagicLen |-> <<"magic", i + 1>>]

Unlinked == [rx |-> <<>>, progress |-> 0, linked |-> FALSE]

From(bytes, n) == SubSeq(bytes, n + 1, Len(bytes))

(* make_progress_on_magic_bytes: a byte that does not fit starts again at  *)
(* nothing, even if it could itself be the first byte of the pattern.      *)
SeenAfter(seen, byte) ==
    CASE seen = MagicLen -> MagicLen
      [] seen # MagicLen -> IF byte = Pattern[seen + 1] THEN seen + 1 ELSE 0

ScanMagic(bytes, progress) ==
    LET seen[i \in 0..Len(bytes)] ==
            IF i = 0 THEN progress ELSE SeenAfter(seen[i - 1], bytes[i])
    IN  seen

FrameAt(bytes, n) ==
    {f \in Frames : /\ Length[f] <= FrameLimit /\ n + Length[f] <= Len(bytes)
                    /\ SubSeq(bytes, n + 1, n + Length[f]) = Encoded(f)}

IsPartial(bytes) ==
    \E f \in Frames : /\ Len(bytes) < Length[f]
                      /\ bytes = SubSeq(Encoded(f), 1, Len(bytes))

Held(frames, bytes) ==
    [frames |-> frames, err |-> FALSE,
     link |-> [rx |-> bytes, progress |-> 0, linked |-> TRUE]]

Desync(frames) == [frames |-> frames, err |-> TRUE, link |-> Unlinked]

Waiting(frames, bytes) ==
    IF Len(bytes) <= FrameLimit THEN Held(frames, bytes) ELSE Desync(frames)

(* What may become of bytes that begin no frame: refused, held until more  *)
(* arrive, or a number of them dropped.                                    *)
Misread(bytes, n) ==
    LET short == Len(bytes) - n < Length["magic"]
    IN  CASE bytes[n + 1] = <<"magic", 1>> ->
                [refused |-> ~short, held |-> short, dropped |-> {}]
          [] bytes[n + 1] \in Range(Pattern) ->
                [refused |-> TRUE, held |-> FALSE, dropped |-> {}]
          [] OTHER ->
                [refused |-> TRUE, held |-> TRUE, dropped |-> n + 1..Len(bytes)]

\* What the bytes behind the n-th become, given what those behind later ones do.
DrainedFrom(after, bytes, n) ==
    IF FrameAt(bytes, n) # {}
    THEN LET f == CHOOSE f \in FrameAt(bytes, n) : TRUE
         IN  {[r EXCEPT !.frames = <<f>> \o @] : r \in after[n + Length[f]]}
    ELSE IF IsPartial(From(bytes, n))
    THEN {Waiting(<<>>, From(bytes, n))}
    ELSE LET may == Misread(bytes, n)
         IN  (IF may.refused THEN {Desync(<<>>)} ELSE {})
             \cup (IF may.held THEN {Waiting(<<>>, From(bytes, n))} ELSE {})
             \cup UNION {after[m] : m \in may.dropped}

(* drain, with the refills of poll: every whole frame in order, and what   *)
(* becomes of the bytes behind the last one.                               *)
Drained(bytes) ==
    LET after[n \in 0..Len(bytes)] == DrainedFrom(after, bytes, n)
    IN  after[0]

\* Mutant: what follows the pattern in its packet is dropped.
PollDropsRest(lk, bytes) ==
    LET seen == ScanMagic(bytes, lk.progress)
    IN  IF lk.linked THEN Drained(lk.rx \o bytes)
        ELSE IF MagicLen \in Range(seen) THEN {Held(<<>>, <<>>)}
        ELSE {[frames |-> <<>>, err |-> FALSE,
               link |-> [lk EXCEPT !.progress = seen[Len(bytes)]]]}

(* Link::poll: the frames handed over, the link afterwards and whether the *)
(* stream was refused.  A refusal drops the rest of the packet.            *)
Poll(lk, bytes) ==
    LET seen == ScanMagic(bytes, lk.progress)
        ends == {i \in 1..Len(bytes) : seen[i] = MagicLen}
        first == CHOOSE i \in ends : \A j \in ends : i <= j
    IN  IF lk.linked THEN Drained(lk.rx \o bytes)
        ELSE IF ends # {} THEN Drained(From(bytes, first))
        ELSE {[frames |-> <<>>, err |-> FALSE,
               link |-> [lk EXCEPT !.progress = seen[Len(bytes)]]]}
=============================================================================
