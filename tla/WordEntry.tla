------------------------------ MODULE WordEntry ------------------------------
(***************************************************************************)
(* Typing a share back in: its index, then its words, letter by letter     *)
(* from the letters that can follow (firmware/src/wordentry.rs, Entry).    *)
(* A word is the sequence of its letters, a letter its place in the        *)
(* alphabet.  A key that does nothing is not an action.                    *)
(***************************************************************************)
EXTENDS Naturals, FiniteSets, Sequences

CONSTANTS WordList,      \* the words of BIP39
          LastLetter,    \* letters of the alphabet
          BackupWords,   \* words of a share
          Radix,         \* digit keys: 0 turns pages, the others pick letters
          MaxIndex,      \* the largest share index that fits
          None

ASSUME WordEntryAssumption ==
    /\ BackupWords \in Nat \ {0} /\ Radix \in Nat \ {0, 1} /\ MaxIndex \in Nat
    /\ LastLetter \in Nat
    /\ WordList # {} /\ \A w \in WordList : w \in Seq(1..LastLetter) /\ w # <<>>
    /\ None \notin WordList

VARIABLES entry,    \* the Entry, or None
          entered   \* ghost: the share submitted last, or None

entryVars == <<entry, entered>>

Slots == 1..BackupWords
LettersPerPage == Radix - 1

Begins(prefix, w) == Len(prefix) <= Len(w) /\ SubSeq(w, 1, Len(prefix)) = prefix
WithPrefix(prefix) == {w \in WordList : Begins(prefix, w)}
NextLetters(prefix) == {w[Len(prefix) + 1] : w \in WithPrefix(prefix) \ {prefix}}

\* The word OK commits: the only one that follows, or what is typed if it is one.
Accepted(e) ==
    IF \E w \in WordList : WithPrefix(e.prefix) = {w}
    THEN CHOOSE w \in WordList : WithPrefix(e.prefix) = {w}
    ELSE IF e.prefix \in WordList THEN e.prefix ELSE None

\* Letters are offered in order, LettersPerPage of them on a page.
PlaceOf(letter, letters) == Cardinality({l \in letters : l < letter})
PageOf(letter, letters) == PlaceOf(letter, letters) \div LettersPerPage
Pages(letters) == IF letters = {} THEN 1 ELSE (Cardinality(letters) - 1) \div LettersPerPage + 1

-------------------------------------------------------------------------------
\* Mutant: the page of the letters before is kept.
PageKept(e) == [e EXCEPT !.letters = NextLetters(e.prefix)]
Refresh(e) == [e EXCEPT !.letters = NextLetters(e.prefix), !.page = 0]

\* Mutant: going back takes the word out, as a stack would.
GoToEmpty(e, slot) == Refresh([e EXCEPT !.cursor = slot, !.prefix = <<>>, !.words[slot] = None])
GoTo(e, slot) ==
    Refresh([e EXCEPT !.cursor = slot,
                      !.prefix = IF e.words[slot] = None THEN <<>> ELSE e.words[slot]])

NewEntry == Refresh([stage |-> "index", index |-> 0, words |-> [s \in Slots |-> None],
                     cursor |-> 1, prefix |-> <<>>, letters |-> {}, page |-> 0])

EntryInit == entry = None /\ entered = None

At(stage) == entry # None /\ entry.stage = stage
Becomes(e) == entry' = e /\ UNCHANGED entered

(* The share index.                                                        *)
TypeDigit(d) ==
    LET index == entry.index * Radix + d
    IN At("index") /\ index <= MaxIndex /\ Becomes([entry EXCEPT !.index = index])

EraseDigit == At("index") /\ entry.index > 0
              /\ Becomes([entry EXCEPT !.index = entry.index \div Radix])

AcceptIndex == At("index") /\ entry.index > 0
               /\ Becomes(GoTo([entry EXCEPT !.stage = "word"], 1))

LeaveEntry == At("index") /\ entry.index = 0 /\ Becomes(None)

(* The letters of a word.  `slot` picks from the page that is up.          *)
TypeLetter(key) ==
    /\ At("word")
    /\ \E l \in entry.letters :
         /\ PlaceOf(l, entry.letters) = entry.page * LettersPerPage + key - 1
         /\ Becomes(Refresh([entry EXCEPT !.prefix = Append(@, l)]))

TurnLetters ==
    /\ At("word") /\ Pages(entry.letters) > 1
    /\ Becomes([entry EXCEPT !.page = (@ + 1) % Pages(entry.letters)])

EraseLetter ==
    /\ At("word") /\ entry.prefix # <<>>
    /\ Becomes(Refresh([entry EXCEPT !.prefix = SubSeq(@, 1, Len(@) - 1)]))

BackOneWord == At("word") /\ entry.prefix = <<>> /\ entry.cursor > 1
               /\ Becomes(GoTo(entry, entry.cursor - 1))

BackToIndex == At("word") /\ entry.prefix = <<>> /\ entry.cursor = 1
               /\ Becomes([entry EXCEPT !.stage = "index"])

(* The last word is in: the first slot that is empty, if there is one; or  *)
(* the checksum of the share is right and the share leaves, or it is wrong *)
(* and every word stays.                                                   *)
Missing(e) == {s \in Slots : e.words[s] = None}

Submit(e) ==
    IF Missing(e) # {}
    THEN Becomes(GoTo(e, CHOOSE s \in Missing(e) : \A t \in Missing(e) : s <= t))
    ELSE \/ entered' = [index |-> e.index, words |-> e.words] /\ entry' = None
         \/ Becomes([e EXCEPT !.stage = "failed"])

AcceptWord ==
    LET e == [entry EXCEPT !.words[entry.cursor] = Accepted(entry)]
    IN /\ At("word") /\ Accepted(entry) # None
       /\ IF entry.cursor < BackupWords THEN Becomes(GoTo(e, entry.cursor + 1)) ELSE Submit(e)

AfterFailure == At("failed") /\ Becomes(GoTo([entry EXCEPT !.stage = "word"], BackupWords))

EntryKey ==
    \/ (\E d \in 0..(Radix - 1) : TypeDigit(d)) \/ EraseDigit \/ AcceptIndex \/ LeaveEntry
    \/ (\E key \in 1..LettersPerPage : TypeLetter(key)) \/ TurnLetters \/ EraseLetter
    \/ BackOneWord \/ BackToIndex \/ AcceptWord \/ AfterFailure

-------------------------------------------------------------------------------
(* Whatever was typed, erased and turned before, every word that begins    *)
(* with the letters on the screen can still be reached: OK commits it, or  *)
(* its next letter is on a page the user can turn to.  (wordentry.rs,      *)
(* refresh, slot and accept)                                               *)
EveryWordIsTypable ==
    At("word") =>
      /\ WithPrefix(entry.prefix) # {}
      /\ \A w \in WithPrefix(entry.prefix) :
           \/ w = Accepted(entry)
           \/ LET letter == w[Len(entry.prefix) + 1]
              IN /\ letter \in entry.letters
                 /\ \/ PageOf(letter, entry.letters) = entry.page
                    \/ Pages(entry.letters) > 1 /\ PageOf(letter, entry.letters) < Pages(entry.letters)
=============================================================================
