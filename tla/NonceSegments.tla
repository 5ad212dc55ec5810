---------------------------- MODULE NonceSegments ----------------------------
(* NonceStreamSegment: the run of consecutive public nonces of one stream    *)
(* that the coordinator holds.  A nonce is determined by the seed the device *)
(* drew for the stream and by its index, so a segment maps each index it     *)
(* covers to a seed.                                                         *)
EXTENDS Integers

CONSTANT Seeds

\* nonces: VecDeque<Nonce> at index; next is index_after_last.
SegmentFrom(index, next) ==
  [index : {index}, next : {next}, nonces : [index..(next - 1) -> Seeds]]

IsSegment(g) ==
  /\ g.index \in Nat /\ g.next \in Nat /\ g.index <= g.next
  /\ g \in SegmentFrom(g.index, g.next)

Segment(index, next, seed) ==
  [index |-> index, next |-> next, nonces |-> [k \in index..(next - 1) |-> seed]]

NoNonces == [index |-> 0, next |-> 0, nonces |-> [k \in 0..(0 - 1) |-> 0]]

Size(g) == g.next - g.index
IsEmpty(g) == g.index = g.next

Lesser(a, b) == IF a <= b THEN a ELSE b
Greater(a, b) == IF a <= b THEN b ELSE a

\* The nonces of g from index on, next not included.
Slice(g, index, next) ==
  [index |-> index, next |-> next, nonces |-> [k \in index..(next - 1) |-> g.nonces[k]]]

\* delete_up_to; past the last nonce only the index moves on.
DeleteUpTo(g, upTo) ==
  IF upTo <= g.index THEN g ELSE Slice(g, upTo, Greater(g.next, upTo))

\* Whether the two leave no gap between them.
Connected(curr, other) ==
  IF other.index > curr.index THEN curr.next >= other.index
  ELSE other.next >= curr.index

\* Mutant: the update is kept only if it is longer than the whole.
ExtendByLonger(curr, other) == IF Size(curr) > Size(other) THEN curr ELSE other

(* _extend: segments that connect are merged, what curr already holds wins;  *)
(* otherwise the longer one is kept, the update if they are equally long.    *)
Extend(curr, other) ==
  IF ~Connected(curr, other) \/ IsEmpty(curr)
  THEN IF Size(curr) > Size(other) THEN curr ELSE other
  ELSE LET first == Lesser(curr.index, other.index)
           next == Greater(curr.next, other.next)
       IN [index |-> first, next |-> next,
           nonces |-> [k \in first..(next - 1) |->
                         IF k \in curr.index..(curr.next - 1)
                         THEN curr.nonces[k] ELSE other.nonces[k]]]
===============================================================================
