------------------------------ MODULE NonceBook -------------------------------
(* What a device promises of its nonces, whatever its flash does and whoever *)
(* asks: a book with one page for each seed it still keeps, and the          *)
(* signature shares that have left.  A page says how far its stream has been *)
(* used and for which session last.  NonceSlots implements it for a device   *)
(* whose flash may refuse or lose power, Signing for all devices of a round. *)
EXTENDS Integers

CONSTANT None

VARIABLES drawn,    \* every seed ever drawn
          book,     \* the pages: [seed, stream, index, signing]
          spent     \* <<session, nonce>> of every share that has left

\* The nonces a page was last signed with, and the shares made with them.
LastUsed(page) == {[seed |-> page.seed, index |-> k] : k \in page.signing.first..(page.index - 1)}
Shares(page) == {[session |-> page.signing.session, nonce |-> n] : n \in LastUsed(page)}

Init == drawn = {} /\ book = {} /\ spent = {}

(* Pages are given up, for good, and begun at their start with seeds that    *)
(* were never drawn before, one page to a seed.                              *)
Turn ==
  /\ drawn \subseteq drawn'
  /\ \A p \in book' \ book :
       /\ p.seed \in drawn' \ drawn /\ p.index = 0 /\ p.signing = None
       /\ \A q \in book' : q.seed = p.seed => q = p
  /\ spent' = spent

(* A page is signed: it moves past nonces that are all at or ahead of where  *)
(* it stood.  The shares may leave with it, later, or never.                 *)
Signed(p, q) ==
  /\ q.seed = p.seed /\ q.stream = p.stream /\ q.signing # None
  /\ q.index \in Nat /\ q.signing.first \in p.index..(q.index - 1)

Sign ==
  /\ \E p \in book, q \in book' :
       /\ Signed(p, q) /\ book' = (book \ {p}) \cup {q}
       /\ spent' \in {spent, spent \cup Shares(q)}
  /\ UNCHANGED drawn

\* The shares of a page leave, for the first time or once more.
Release ==
  /\ \E p \in book : p.signing # None /\ spent' = spent \cup Shares(p)
  /\ UNCHANGED <<drawn, book>>

Next == Turn \/ Sign \/ Release

Spec == Init /\ [][Next]_<<drawn, book, spent>>
===============================================================================
