---------------------------- MODULE GlassProofs ----------------------------
(* The pad reports no key that was not held, no word typed is lost, every    *)
(* word can be typed, and a quiz is passed only by right answers: for every  *)
(* size of the pad, word list, share and number of questions.                *)
EXTENDS Glass, TLAPS, FiniteSetTheorems, SequenceTheorems, WellFoundedInduction

-------------------------------------------------------------------------------
(* The pad.                                                                  *)

\* A column reads low only because of a contact closed in the row that is
\* driven, whose own column reads low as well.
LEMMA GhostsHaveCompany ==
  ASSUME NEW r \in Rows, NEW c \in Low(r), closed \subseteq Keys
  PROVE  \E d \in Low(r) : <<r, d>> \in closed
<1>1. PICK k \in closed : k[1] = r
  <2> SUFFICES ASSUME \A k \in closed : k[1] # r PROVE FALSE
    OBVIOUS
  <2>1. {r} \in SUBSET Rows /\ {} \in SUBSET Cols
    OBVIOUS
  <2>2. \A k \in closed : k[1] \in {r} <=> k[2] \in {}
    OBVIOUS
  <2>3. \A R \in SUBSET Rows, C \in SUBSET Cols :
          r \in R /\ (\A k \in closed : k[1] \in R <=> k[2] \in C) => c \in C
    BY DEF Low
  <2>4. c \in {}
    BY <2>1, <2>2, <2>3
  <2> QED
    BY <2>4
<1>2. k = <<r, k[2]>> /\ k[2] \in Cols
  BY <1>1 DEF Keys
<1>3. k[2] \in Low(r)
  BY <1>1, <1>2 DEF Low
<1> QED
  BY <1>1, <1>2, <1>3

PadTypes ==
  /\ closed \subseteq Keys /\ left \subseteq Rows /\ bitmap \subseteq Keys
  /\ touched \subseteq Keys /\ held \subseteq Keys
  /\ debounce \in [history : [Keys -> Nat], samples : Nat, multi : BOOLEAN]

\* What this scan has seen without a finger on it, it has not seen alone.
SeenOrSeveral == \A k \in bitmap : k \in touched \/ \E j \in bitmap : j # k

\* A key counted in every scan of the window was held in every one of them.
CountedWereHeld(d, keys) ==
  ~d.multi => \A k \in Keys : /\ d.history[k] <= d.samples
                              /\ d.history[k] = d.samples => k \in keys

PadInv ==
  /\ PadTypes /\ SeenOrSeveral
  /\ debounce.samples < DebounceSamples
  /\ event = Pending => CountedWereHeld(debounce, held)
  /\ event # Pending => debounce = Fresh
  /\ ReportedWasHeld

LEMMA PushKeepsHeld ==
  ASSUME PadInv, event = Pending, NEW bits \in SUBSET Keys, NEW seen \in SUBSET Keys,
         \A k \in bits : k \in seen \/ \E j \in bits : j # k
  PROVE  /\ Counted(bits) \in [history : [Keys -> Nat], samples : Nat, multi : BOOLEAN]
         /\ Counted(bits).samples = debounce.samples + 1
         /\ CountedWereHeld(Counted(bits), held \cap seen)
<1> DEFINE d == Counted(bits)
<1> USE DEF PadInv, PadTypes
<1>1. d \in [history : [Keys -> Nat], samples : Nat, multi : BOOLEAN]
  BY DEF Counted, Several
<1>2. d.samples = debounce.samples + 1
  BY DEF Counted
<1>3. ASSUME ~d.multi, NEW k \in Keys
      PROVE  d.history[k] <= d.samples /\ (d.history[k] = d.samples => k \in held \cap seen)
  <2>1. ~debounce.multi /\ ~Several(bits)
    BY <1>3 DEF Counted
  <2>2. d.history[k] = debounce.history[k] + IF k \in bits THEN 1 ELSE 0
    BY DEF Counted
  <2>3. debounce.history[k] <= debounce.samples /\ debounce.history[k] \in Nat /\ debounce.samples \in Nat
    BY <2>1 DEF CountedWereHeld
  <2>4. CASE k \in bits
    <3>1. k \in seen
      BY <2>1, <2>4 DEF Several
    <3>2. d.history[k] = debounce.history[k] + 1
      BY <2>2, <2>4
    <3>3. d.history[k] = d.samples => k \in held
      BY <1>2, <2>1, <2>3, <3>2 DEF CountedWereHeld
    <3> QED
      BY <1>2, <2>3, <3>1, <3>2, <3>3
  <2>5. CASE k \notin bits
    BY <1>2, <2>2, <2>3, <2>5
  <2> QED
    BY <2>4, <2>5
<1> QED
  BY <1>1, <1>2, <1>3 DEF CountedWereHeld

LEMMA VerdictWasHeld ==
  ASSUME NEW d, NEW keys, d.samples = DebounceSamples,
         d \in [history : [Keys -> Nat], samples : Nat, multi : BOOLEAN],
         CountedWereHeld(d, keys), NEW k \in Keys, Verdict(d) = Down(k)
  PROVE  k \in keys
<1>1. ~d.multi /\ Confirmed(d) # {} /\ Verdict(d) = Down(CHOOSE j \in Confirmed(d) : TRUE)
  BY DEF Verdict, Down, Outcome
<1>2. k \in Confirmed(d)
  BY <1>1 DEF Down
<1>3. d.history[k] >= d.samples /\ d.history[k] \in Nat
  BY <1>2 DEF Confirmed
<1> QED
  BY <1>1, <1>3 DEF CountedWereHeld

LEMMA PadStepKeeps == PadInv /\ PadNext => PadInv'
<1> SUFFICES ASSUME PadInv, PadNext PROVE PadInv'
  OBVIOUS
<1> USE KeypadAssumption DEF PadInv, PadTypes
<1>1. ASSUME NEW k \in Keys, Press(k) \/ Release(k) PROVE PadInv'
  BY <1>1 DEF Press, Release, SeenOrSeveral, CountedWereHeld, ReportedWasHeld
<1>2. CASE ReadAgain
  <2>1. PadTypes' /\ SeenOrSeveral' /\ event' = Pending /\ debounce' = Fresh
    BY <1>2 DEF ReadAgain, SeenOrSeveral
  <2>2. CountedWereHeld(debounce, held)' /\ debounce'.samples < DebounceSamples
    BY <1>2, <2>1 DEF ReadAgain, CountedWereHeld, Fresh
  <2>3. ReportedWasHeld'
    BY <2>1 DEF ReportedWasHeld, Down, Pending, Outcome
  <2> QED
    BY <2>1, <2>2, <2>3
<1>3. ASSUME NEW r \in Rows, ReadRow(r) PROVE PadInv'
  <2> DEFINE bits == bitmap \cup {<<r, c>> : c \in Low(r)}
             seen == touched \cup {k \in closed : k[1] = r}
  <2>1. bits \in SUBSET Keys /\ seen \in SUBSET Keys
    BY DEF Keys, Low
  <2>2. \A k \in bits : k \in seen \/ \E j \in bits : j # k
    <3> SUFFICES ASSUME NEW k \in bits, k \notin seen PROVE \E j \in bits : j # k
      OBVIOUS
    <3>1. CASE k \in bitmap
      BY <3>1 DEF SeenOrSeveral
    <3>2. CASE k \notin bitmap
      <4>1. PICK c \in Low(r) : k = <<r, c>>
        BY <3>2
      <4>2. PICK d \in Low(r) : <<r, d>> \in closed
        BY GhostsHaveCompany
      <4> QED
        BY <4>1, <4>2
    <3> QED
      BY <3>1, <3>2
  <2>3. event = Pending /\ closed' = closed
    BY <1>3 DEF ReadRow
  <2>4. CASE left = {r}
    <3> DEFINE d == Counted(bits)
    <3>1. Push(bits, seen)
      BY <1>3, <2>4 DEF ReadRow
    <3>2. /\ d \in [history : [Keys -> Nat], samples : Nat, multi : BOOLEAN]
          /\ d.samples = debounce.samples + 1
          /\ CountedWereHeld(d, held \cap seen)
      BY <2>1, <2>2, <2>3, PushKeepsHeld
    <3>3. left' = Rows /\ bitmap' = {} /\ touched' = {} /\ held' = held \cap seen
      BY <3>1 DEF Push
    <3>4. CASE d.samples < DebounceSamples
      <4>1. debounce' = d /\ event' = Pending
        BY <3>1, <3>4 DEF Push
      <4>2. ReportedWasHeld'
        BY <4>1 DEF ReportedWasHeld, Down, Pending, Outcome
      <4>3. CountedWereHeld(debounce', held')
        BY <3>2, <3>3, <4>1
      <4> HIDE DEF d
      <4> QED
        BY <2>3, <3>2, <3>3, <3>4, <4>1, <4>2, <4>3 DEF SeenOrSeveral
    <3>5. CASE ~(d.samples < DebounceSamples)
      <4>1. debounce' = Fresh /\ event' = Verdict(d)
        BY <3>1, <3>5 DEF Push, AfterVerdict
      <4>2. d.samples = DebounceSamples
        BY <3>2, <3>5
      <4>3. ReportedWasHeld'
        <5> SUFFICES ASSUME NEW k \in Keys, event' = Down(k) PROVE k \in held'
          BY DEF ReportedWasHeld, Down, Keys
        <5> HIDE DEF d
        <5> QED
          BY <3>2, <3>3, <4>1, <4>2, VerdictWasHeld
      <4>4. event' # Pending
        BY <4>1 DEF Verdict, Down, Outcome, Pending
      <4>5. debounce' \in [history : [Keys -> Nat], samples : Nat, multi : BOOLEAN] /\ debounce'.samples = 0
        BY <4>1 DEF Fresh
      <4> QED
        BY <2>3, <3>3, <4>1, <4>3, <4>4, <4>5 DEF SeenOrSeveral
    <3> QED
      BY <3>4, <3>5
  <2>5. CASE left # {r}
    <3>1. /\ left' = left \ {r} /\ bitmap' = bits /\ touched' = seen
          /\ UNCHANGED <<debounce, event, held>>
      BY <1>3, <2>5 DEF ReadRow
    <3> HIDE DEF bits, seen
    <3> QED
      BY <2>1, <2>2, <2>3, <3>1 DEF SeenOrSeveral, CountedWereHeld, ReportedWasHeld
  <2> QED
    BY <2>4, <2>5
<1> QED
  BY <1>1, <1>2, <1>3 DEF PadNext, PadStep

\* A key is reported only if a finger held it in every scan of its window,
\* whatever the rows, the contacts that others make up and the order of the
\* scan (Event::Down, keypad.rs).
THEOREM NoKeyIsMadeUp == Spec => []ReportedWasHeld
<1>1. Init => PadInv
  BY KeypadAssumption DEF Init, PadInit, PadInv, PadTypes, SeenOrSeveral, CountedWereHeld, Fresh,
     ReportedWasHeld, Down, Pending, Outcome
<1>2. PadInv /\ [Next]_vars => PadInv'
  <2> SUFFICES ASSUME PadInv, [Next]_vars PROVE PadInv'
    OBVIOUS
  <2>1. CASE UNCHANGED padVars
    BY <2>1 DEF padVars, PadInv, PadTypes, SeenOrSeveral, CountedWereHeld, ReportedWasHeld
  <2>2. CASE Prompt
    BY <2>2, PadStepKeeps DEF Prompt
  <2>3. CASE GrantEntry \/ GrantQuiz \/ KeyToEntry \/ KeyToQuiz \/ TakeOff
    BY <2>1, <2>3 DEF GrantEntry, GrantQuiz, KeyToEntry, KeyToQuiz, TakeOff
  <2> QED
    BY <2>1, <2>2, <2>3 DEF Next, vars
<1>3. PadInv => ReportedWasHeld
  BY DEF PadInv
<1> QED
  BY <1>1, <1>2, <1>3, PTL DEF Spec

-------------------------------------------------------------------------------
(* The quiz.                                                                 *)

AnswerIsRight(answer, position) == answer.position = position /\ answer.right = {answer.slot}

\* The questions answered are the first ones of the order, and one option of
\* the question asked is right.
QuizInv ==
  /\ quiz # NoQuiz =>
       /\ quiz.order \in Orders /\ quiz.asked \in 1..QuizPositions
       /\ quiz = [order |-> quiz.order, asked |-> quiz.asked, options |-> quiz.options, wrong |-> quiz.wrong]
       /\ \A i, j \in 1..3 : quiz.options[i] = Truth(quiz) /\ quiz.options[j] = Truth(quiz) => i = j
       /\ answers \in Seq([position : Positions, slot : 1..3, right : SUBSET (1..3)])
       /\ Len(answers) = quiz.asked - 1
       /\ \A i \in 1..Len(answers) : AnswerIsRight(answers[i], quiz.order[i])
  /\ PassIsEarned

LEMMA OneIsRight ==
  ASSUME NEW q, NEW o \in Options(q)
  PROVE  \A i, j \in 1..3 : o[i] = Truth(q) /\ o[j] = Truth(q) => i = j
<1>1. PICK d \in Others(q), s \in Shuffles : o = [i \in 1..3 |-> <<Truth(q), d[1], d[2]>>[s[i]]]
  BY DEF Options
<1>2. d[1] # Truth(q) /\ d[2] # Truth(q)
  BY DEF Others, Own
<1>3. \A i \in 1..3 : s[i] \in 1..3 /\ (o[i] = Truth(q) => s[i] = 1)
  BY <1>1, <1>2 DEF Shuffles
<1> QED
  BY <1>3 DEF Shuffles, Injective

LEMMA AskedOnce ==
  ASSUME NEW order \in Orders
  PROVE  Cardinality({order[i] : i \in 1..QuizPositions}) = QuizPositions
<1> DEFINE T == {order[i] : i \in 1..QuizPositions}
<1>1. QuizPositions \in Nat \ {0}
  BY QuizAssumption
<1>2. order \in [1..QuizPositions -> T] /\ \A i, j \in 1..QuizPositions : order[i] = order[j] => i = j
  BY DEF Orders, Injective
<1>3. \A t \in T : \E i \in 1..QuizPositions : order[i] = t
  OBVIOUS
<1>4. ExistsBijection(1..QuizPositions, T)
  BY <1>2, <1>3 DEF ExistsBijection, Bijection, Injection, Surjection, IsInjective
<1>5. IsFiniteSet(1..QuizPositions) /\ Cardinality(1..QuizPositions) = QuizPositions
  BY <1>1, FS_Interval
<1> QED
  BY <1>4, <1>5, FS_Bijection

LEMMA QuizKeyKeeps == QuizInv /\ QuizKey => QuizInv'
<1> SUFFICES ASSUME QuizInv, QuizKey PROVE QuizInv'
  OBVIOUS
<1> USE QuizAssumption DEF QuizInv
<1>1. CASE LeaveQuiz
  BY <1>1 DEF LeaveQuiz, PassIsEarned
<1>2. ASSUME NEW slot \in 1..3, WrongAnswer(slot) PROVE QuizInv'
  <2> DEFINE q == [quiz EXCEPT !.wrong = TRUE]
  <2>1. PICK o \in Options(q) : quiz' = [q EXCEPT !.options = o]
    BY <1>2 DEF WrongAnswer, Ask
  <2>2. quiz' = [order |-> quiz.order, asked |-> quiz.asked, options |-> o, wrong |-> TRUE]
    BY <1>2, <2>1 DEF WrongAnswer
  <2>3. Truth(quiz') = Truth(q)
    BY <1>2, <2>2 DEF WrongAnswer, Truth
  <2>4. \A i, j \in 1..3 : o[i] = Truth(q) /\ o[j] = Truth(q) => i = j
    BY OneIsRight
  <2> HIDE DEF q
  <2> QED
    BY <1>2, <2>2, <2>3, <2>4 DEF WrongAnswer, PassIsEarned
<1>3. ASSUME NEW slot \in 1..3, RightAnswer(slot) PROVE QuizInv'
  <2> DEFINE picked == [position |-> quiz.order[quiz.asked], slot |-> slot,
                        right |-> {i \in 1..3 : quiz.options[i] = Truth(quiz)}]
  <2>1. quiz # NoQuiz /\ quiz.options[slot] = Truth(quiz) /\ answers' = Append(answers, picked)
    BY <1>3 DEF RightAnswer
  <2>2. picked.right = {slot}
    BY <2>1
  <2>3. quiz.order[quiz.asked] \in Positions
    BY <2>1 DEF Orders
  <2>4. picked \in [position : Positions, slot : 1..3, right : SUBSET (1..3)]
    BY <2>3
  <2>5. AnswerIsRight(picked, quiz.order[quiz.asked])
    BY <2>2 DEF AnswerIsRight
  <2> HIDE DEF picked
  <2>6. /\ answers' \in Seq([position : Positions, slot : 1..3, right : SUBSET (1..3)])
        /\ Len(answers') = quiz.asked
        /\ \A i \in 1..Len(answers') : AnswerIsRight(answers'[i], quiz.order[i])
    <3>1. /\ answers' \in Seq([position : Positions, slot : 1..3, right : SUBSET (1..3)])
          /\ Len(answers') = Len(answers) + 1
          /\ \A i \in 1..Len(answers) : answers'[i] = answers[i]
          /\ answers'[Len(answers) + 1] = picked
      BY <2>1, <2>4
    <3>2. Len(answers) \in Nat /\ Len(answers) = quiz.asked - 1 /\ quiz.asked \in Nat
      BY <2>1
    <3> QED
      BY <2>1, <2>5, <3>1, <3>2
  <2>7. CASE quiz.asked = QuizPositions
    <3>1. quiz' = NoQuiz /\ checked' = answers'
      BY <1>3, <2>7 DEF RightAnswer
    <3>2. DOMAIN checked' = 1..QuizPositions
      BY <2>6, <2>7, <3>1
    <3>3. {checked'[i].position : i \in DOMAIN checked'} = {quiz.order[i] : i \in 1..QuizPositions}
      BY <2>6, <2>7, <3>1, <3>2 DEF AnswerIsRight
    <3>4. Cardinality({quiz.order[i] : i \in 1..QuizPositions}) = QuizPositions
      BY <2>1, AskedOnce
    <3>5. Len(Share) \in {quiz.order[i] : i \in 1..QuizPositions}
      BY <2>1 DEF Orders
    <3>6. \A i \in DOMAIN checked' : checked'[i].right = {checked'[i].slot}
      BY <2>6, <2>7, <3>1, <3>2 DEF AnswerIsRight
    <3> QED
      BY <3>1, <3>3, <3>4, <3>5, <3>6 DEF PassIsEarned
  <2>8. CASE quiz.asked # QuizPositions
    <3> DEFINE q == [quiz EXCEPT !.asked = @ + 1, !.wrong = FALSE]
    <3>1. Ask(q) /\ checked' = checked
      BY <1>3, <2>8 DEF RightAnswer
    <3>2. PICK o \in Options(q) : quiz' = [q EXCEPT !.options = o]
      BY <3>1 DEF Ask
    <3>3. quiz' = [order |-> quiz.order, asked |-> quiz.asked + 1, options |-> o, wrong |-> FALSE]
      BY <2>1, <3>2
    <3>4. Truth(quiz') = Truth(q)
      BY <2>1, <3>3 DEF Truth
    <3>5. \A i, j \in 1..3 : o[i] = Truth(q) /\ o[j] = Truth(q) => i = j
      BY OneIsRight
    <3>6. quiz.asked + 1 \in 1..QuizPositions /\ quiz.asked + 1 - 1 = quiz.asked
      BY <2>1, <2>8
    <3> HIDE DEF q
    <3> QED
      BY <2>1, <2>6, <3>1, <3>3, <3>4, <3>5, <3>6 DEF PassIsEarned
  <2> QED
    BY <2>7, <2>8
<1> QED
  BY <1>1, <1>2, <1>3 DEF QuizKey

LEMMA NewQuizKeeps == QuizInv /\ NewQuiz => QuizInv'
<1> SUFFICES ASSUME QuizInv, NewQuiz PROVE QuizInv'
  OBVIOUS
<1> USE QuizAssumption DEF QuizInv
<1>1. PICK order \in Orders :
        LET q == [order |-> order, asked |-> 1, options |-> NoQuiz, wrong |-> FALSE]
        IN /\ answers' = <<>>
           /\ \E o \in Options(q) : quiz' = [q EXCEPT !.options = o]
           /\ UNCHANGED checked
  BY DEF NewQuiz
<1> DEFINE q == [order |-> order, asked |-> 1, options |-> NoQuiz, wrong |-> FALSE]
<1>2. PICK o \in Options(q) : quiz' = [q EXCEPT !.options = o]
  BY <1>1
<1>3. quiz' = [order |-> order, asked |-> 1, options |-> o, wrong |-> FALSE]
  BY <1>2
<1>4. Truth(quiz') = Truth(q)
  BY <1>3 DEF Truth
<1>5. \A i, j \in 1..3 : o[i] = Truth(q) /\ o[j] = Truth(q) => i = j
  BY OneIsRight
<1>6. 1 \in 1..QuizPositions
  OBVIOUS
<1>7. answers' \in Seq([position : Positions, slot : 1..3, right : SUBSET (1..3)]) /\ Len(answers') = 0
  BY <1>1
<1>8. quiz'.order \in Orders /\ quiz'.asked = 1 /\ quiz'.options = o /\ quiz'.wrong = FALSE
  BY <1>3
<1>9. \A i, j \in 1..3 : quiz'.options[i] = Truth(quiz') /\ quiz'.options[j] = Truth(quiz') => i = j
  BY <1>4, <1>5, <1>8
<1>10. \A i \in 1..Len(answers') : AnswerIsRight(answers'[i], quiz'.order[i])
  BY <1>7
<1>11. PassIsEarned'
  BY <1>1 DEF PassIsEarned
<1>12. quiz' = [order |-> quiz'.order, asked |-> quiz'.asked, options |-> quiz'.options, wrong |-> quiz'.wrong]
  BY <1>3, <1>8
<1> HIDE DEF q
<1> QED
  BY <1>6, <1>7, <1>8, <1>9, <1>10, <1>11, <1>12

\* A backup is reported as checked only after different positions, the last
\* among them, were each answered with the one option that was right
\* (draw_order and draw_options, quiz.rs).
THEOREM PassesAreEarned == Spec => []PassIsEarned
<1>1. Init => QuizInv
  BY DEF Init, QuizInit, QuizInv, PassIsEarned
<1>2. QuizInv /\ [Next]_vars => QuizInv'
  <2> SUFFICES ASSUME QuizInv, [Next]_vars PROVE QuizInv'
    OBVIOUS
  <2>1. CASE UNCHANGED quizVars
    BY <2>1 DEF quizVars, QuizInv, PassIsEarned, Truth
  <2>2. CASE GrantQuiz
    BY <2>2, NewQuizKeeps DEF GrantQuiz
  <2>3. CASE KeyToQuiz
    BY <2>3, QuizKeyKeeps DEF KeyToQuiz
  <2>4. CASE Prompt \/ GrantEntry \/ KeyToEntry \/ TakeOff
    BY <2>1, <2>4 DEF Prompt, GrantEntry, KeyToEntry, TakeOff
  <2> QED
    BY <2>1, <2>2, <2>3, <2>4 DEF Next, vars
<1>3. QuizInv => PassIsEarned
  BY DEF QuizInv
<1> QED
  BY <1>1, <1>2, <1>3, PTL DEF Spec

-------------------------------------------------------------------------------
(* The entry.                                                                *)

Letters == 1..LastLetter
Words == [Slots -> WordList \cup {None}]
Entries == [stage : {"index", "word", "failed"}, index : Nat, words : Words, cursor : Slots,
            prefix : Seq(Letters), letters : SUBSET Letters, page : Nat]

\* The letters on the screen are those that can follow, from a page there is.
Offers(e) ==
  e.stage = "word" =>
    /\ e.letters = NextLetters(e.prefix) /\ e.page < Pages(e.letters)
    /\ WithPrefix(e.prefix) # {}

EntryInv == entry # None => entry \in Entries /\ Offers(entry)

LEMMA WordsAreLetters == \A w \in WordList : w \in Seq(Letters) /\ w # <<>> /\ w # None
BY WordEntryAssumption DEF Letters

LEMMA BeginsItself == ASSUME NEW w \in Seq(Letters) PROVE Begins(w, w)
<1>1. Len(w) \in Nat /\ SubSeq(w, 1, Len(w)) = w
  BY SubSeqFull
<1> QED
  BY <1>1 DEF Begins

LEMMA NextAreLetters == ASSUME NEW prefix \in Seq(Letters) PROVE NextLetters(prefix) \subseteq Letters
<1> SUFFICES ASSUME NEW w \in WithPrefix(prefix) \ {prefix} PROVE w[Len(prefix) + 1] \in Letters
  BY DEF NextLetters
<1>1. w \in Seq(Letters) /\ Len(prefix) <= Len(w) /\ SubSeq(w, 1, Len(prefix)) = prefix
  BY WordsAreLetters DEF WithPrefix, Begins
<1>2. Len(prefix) # Len(w)
  BY <1>1, SubSeqFull
<1>3. Len(prefix) + 1 \in 1..Len(w)
  BY <1>1, <1>2
<1> QED
  BY <1>1, <1>3, ElementOfSeq

\* A word that begins with a prefix and is longer begins with one letter more.
LEMMA LongerPrefix ==
  ASSUME NEW prefix \in Seq(Letters), NEW w \in WithPrefix(prefix) \ {prefix}
  PROVE  w \in WithPrefix(Append(prefix, w[Len(prefix) + 1]))
<1> DEFINE n == Len(prefix)
           l == w[n + 1]
<1>1. w \in WordList /\ w \in Seq(Letters) /\ n <= Len(w) /\ SubSeq(w, 1, n) = prefix /\ n \in Nat
  BY WordsAreLetters DEF WithPrefix, Begins
<1>2. n # Len(w)
  BY <1>1, SubSeqFull
<1>3. n + 1 <= Len(w) /\ n + 1 \in 1..Len(w)
  BY <1>1, <1>2
<1>4. l \in Letters
  BY <1>1, <1>3, ElementOfSeq
<1>5. Len(Append(prefix, l)) = n + 1
  BY <1>4
<1>6. SubSeq(w, 1, n + 1) = Append(prefix, l)
  <2>1. SubSeq(w, 1, n + 1) \in Seq(Letters) /\ Len(SubSeq(w, 1, n + 1)) = n + 1
    BY <1>1, <1>3
  <2>2. Append(prefix, l) \in Seq(Letters)
    BY <1>4
  <2>3. ASSUME NEW i \in 1..(n + 1) PROVE SubSeq(w, 1, n + 1)[i] = Append(prefix, l)[i]
    <3>1. SubSeq(w, 1, n + 1)[i] = w[i]
      BY <1>1, <1>3
    <3>2. CASE i = n + 1
      BY <1>1, <1>4, <3>1, <3>2
    <3>3. CASE i \in 1..n
      <4>1. SubSeq(w, 1, n)[i] = w[i]
        BY <1>1, <1>3, <3>3
      <4>2. Append(prefix, l)[i] = prefix[i]
        BY <1>4, <3>3
      <4> QED
        BY <1>1, <3>1, <4>1, <4>2
    <3> QED
      BY <1>1, <3>2, <3>3
  <2> QED
    BY <1>5, <2>1, <2>2, <2>3, SeqEqual
<1> HIDE DEF l
<1> QED
  BY <1>1, <1>3, <1>5, <1>6 DEF WithPrefix, Begins

LEMMA ShorterPrefix ==
  ASSUME NEW prefix \in Seq(Letters), prefix # <<>>, NEW w \in WithPrefix(prefix)
  PROVE  w \in WithPrefix(SubSeq(prefix, 1, Len(prefix) - 1))
<1> DEFINE n == Len(prefix)
           p == SubSeq(prefix, 1, n - 1)
<1>1. w \in WordList /\ w \in Seq(Letters) /\ n <= Len(w) /\ SubSeq(w, 1, n) = prefix /\ n \in Nat \ {0}
  BY WordsAreLetters DEF WithPrefix, Begins
<1>2. p \in Seq(Letters) /\ Len(p) = n - 1
  BY <1>1
<1>3. SubSeq(w, 1, n - 1) \in Seq(Letters) /\ Len(SubSeq(w, 1, n - 1)) = n - 1
  BY <1>1
<1>4. ASSUME NEW i \in 1..(n - 1) PROVE SubSeq(w, 1, n - 1)[i] = p[i]
  <2>1. SubSeq(w, 1, n - 1)[i] = w[i]
    BY <1>1
  <2>2. p[i] = prefix[i]
    BY <1>1
  <2>3. SubSeq(w, 1, n)[i] = w[i]
    BY <1>1
  <2> QED
    BY <1>1, <2>1, <2>2, <2>3
<1>5. SubSeq(w, 1, n - 1) = p
  BY <1>2, <1>3, <1>4, SeqEqual
<1> HIDE DEF p
<1> QED
  BY <1>1, <1>2, <1>5 DEF WithPrefix, Begins

LEMMA PagesArePositive ==
  ASSUME NEW letters \in SUBSET Letters
  PROVE  Pages(letters) \in Nat /\ 0 < Pages(letters)
<1>1. LettersPerPage \in Nat \ {0} /\ IsFiniteSet(Letters)
  BY WordEntryAssumption, FS_Interval DEF LettersPerPage, Letters
<1>2. IsFiniteSet(letters) /\ Cardinality(letters) \in Nat
  BY <1>1, FS_Subset, FS_CardinalityType
<1>3. letters # {} => Cardinality(letters) # 0
  BY <1>2, FS_EmptySet
<1>4. letters # {} => (Cardinality(letters) - 1) \div LettersPerPage \in Nat
  BY <1>1, <1>2, <1>3
<1> QED
  BY <1>4 DEF Pages

\* Every way an entry gets other letters leaves it offering those that follow.
LEMMA RefreshOffers ==
  ASSUME NEW e \in Entries, e.stage = "word" => WithPrefix(e.prefix) # {}
  PROVE  Refresh(e) \in Entries /\ Offers(Refresh(e))
<1>1. NextLetters(e.prefix) \in SUBSET Letters
  BY NextAreLetters DEF Entries
<1>2. Refresh(e) \in Entries
  BY <1>1 DEF Refresh, Entries
<1>3. /\ Refresh(e).stage = e.stage /\ Refresh(e).prefix = e.prefix
      /\ Refresh(e).letters = NextLetters(e.prefix) /\ Refresh(e).page = 0
  BY DEF Refresh, Entries
<1>4. 0 < Pages(NextLetters(e.prefix))
  BY <1>1, PagesArePositive
<1> QED
  BY <1>2, <1>3, <1>4 DEF Offers

LEMMA GoToOffers ==
  ASSUME NEW e \in Entries, NEW slot \in Slots
  PROVE  GoTo(e, slot) \in Entries /\ Offers(GoTo(e, slot)) /\ GoTo(e, slot).words = e.words
<1> DEFINE prefix == IF e.words[slot] = None THEN <<>> ELSE e.words[slot]
           f == [e EXCEPT !.cursor = slot, !.prefix = prefix]
<1>1. e.words[slot] \in WordList \cup {None}
  BY DEF Entries, Words
<1>2. prefix \in Seq(Letters)
  BY <1>1, WordsAreLetters
<1>3. WithPrefix(prefix) # {}
  <2>1. CASE e.words[slot] = None
    <3>1. PICK w \in WordList : w \in Seq(Letters)
      BY WordEntryAssumption, WordsAreLetters
    <3>2. Begins(<<>>, w)
      BY <3>1 DEF Begins
    <3> QED
      BY <2>1, <3>2 DEF WithPrefix
  <2>2. CASE e.words[slot] # None
    BY <1>1, <1>2, <2>2, BeginsItself DEF WithPrefix
  <2> QED
    BY <2>1, <2>2
<1>4. f \in Entries /\ f.prefix = prefix /\ f.words = e.words
  BY <1>2 DEF Entries
<1>5. Refresh(f).words = f.words
  BY <1>4 DEF Refresh, Entries
<1> HIDE DEF prefix
<1>6. Refresh(f) \in Entries /\ Offers(Refresh(f))
  BY <1>3, <1>4, RefreshOffers
<1> QED
  BY <1>4, <1>5, <1>6 DEF GoTo, prefix

LEMMA AcceptedBegins ==
  ASSUME NEW e \in Entries, Accepted(e) # None
  PROVE  Accepted(e) \in WordList /\ Begins(e.prefix, Accepted(e))
<1>1. CASE \E w \in WordList : WithPrefix(e.prefix) = {w}
  BY <1>1 DEF Accepted, WithPrefix
<1>2. CASE ~ \E w \in WordList : WithPrefix(e.prefix) = {w}
  BY <1>2, BeginsItself DEF Accepted, Entries
<1> QED
  BY <1>1, <1>2

LEMMA FirstOfSlots ==
  ASSUME NEW M \in SUBSET Slots, M # {}
  PROVE  (CHOOSE s \in M : \A t \in M : s <= t) \in Slots
<1> DEFINE before == {ss \in Nat \X Nat : ss[1] < ss[2]}
<1>1. M \subseteq Nat
  BY DEF Slots
<1>2. IsWellFoundedOn(before, Nat)
  BY NatLessThanWellFounded DEF OpToRel
<1> HIDE DEF before
<1>3. PICK s \in M : \A t \in M : ~ (<<t, s>> \in before)
  BY <1>1, <1>2, WFMin
<1>4. ASSUME NEW t \in M PROVE s <= t
  <2>1. t \in Nat /\ s \in Nat /\ <<t, s>> \notin before
    BY <1>1, <1>3
  <2>2. t < s => <<t, s>> \in before
    BY <2>1 DEF before
  <2> QED
    BY <2>1, <2>2
<1> QED
  BY <1>4

\* What a key does to an entry: the letters stay those that follow, and no
\* accepted word but the one at the cursor changes, which another replaces.
KeepsWords(e, f) ==
  \A s \in Slots : e.words[s] # None /\ f.words[s] # e.words[s] =>
    s = e.cursor /\ f.words[s] # None /\ Begins(e.prefix, f.words[s])
GoodKey(e, f) == f # None => f \in Entries /\ Offers(f) /\ KeepsWords(e, f)

LEMMA EntryKeyKeeps == entry # None /\ EntryInv /\ EntryKey => GoodKey(entry, entry')
<1> SUFFICES ASSUME entry # None, EntryInv, EntryKey PROVE GoodKey(entry, entry')
  OBVIOUS
<1>0. entry \in Entries /\ Offers(entry)
  BY DEF EntryInv
<1>a. 1 \in Slots /\ BackupWords \in Slots /\ BackupWords \in Nat
  BY WordEntryAssumption DEF Slots
<1>b. ASSUME NEW f \in Entries, f.words = entry.words PROVE KeepsWords(entry, f)
  BY <1>b DEF KeepsWords
<1>1. ASSUME NEW d \in 0..(Radix - 1), TypeDigit(d) PROVE GoodKey(entry, entry')
  <2>1. entry.index * Radix + d \in Nat
    <3>1. entry.index \in Nat /\ Radix \in Nat /\ d \in Nat
      BY <1>0, WordEntryAssumption DEF Entries
    <3>2. \A m, n \in Nat : m * n \in Nat
      OBVIOUS
    <3>3. entry.index * Radix \in Nat
      BY <3>1, <3>2
    <3> QED
      BY <3>1, <3>3
  <2>2. /\ entry.stage = "index"
        /\ entry' = [entry EXCEPT !.index = entry.index * Radix + d]
    BY <1>1 DEF TypeDigit, At, Becomes
  <2>3. entry' \in Entries /\ entry'.stage = "index" /\ entry'.words = entry.words
    BY <1>0, <2>1, <2>2 DEF Entries
  <2> QED
    BY <1>b, <2>3 DEF GoodKey, Offers
<1>2. CASE EraseDigit
  <2>1. entry.index \div Radix \in Nat
    <3>1. entry.index \in Nat /\ Radix \in Nat \ {0}
      BY <1>0, WordEntryAssumption DEF Entries
    <3>2. \A m \in Nat, n \in Nat \ {0} : m \div n \in Nat
      OBVIOUS
    <3> QED
      BY <3>1, <3>2
  <2>2. entry.stage = "index" /\ entry' = [entry EXCEPT !.index = entry.index \div Radix]
    BY <1>2 DEF EraseDigit, At, Becomes
  <2>3. entry' \in Entries /\ entry'.stage = "index" /\ entry'.words = entry.words
    BY <1>0, <2>1, <2>2 DEF Entries
  <2> QED
    BY <1>b, <2>3 DEF GoodKey, Offers
<1>3. CASE AcceptIndex
  <2> DEFINE e == [entry EXCEPT !.stage = "word"]
  <2>1. entry' = GoTo(e, 1)
    BY <1>3 DEF AcceptIndex, Becomes
  <2>2. e \in Entries /\ e.words = entry.words
    BY <1>0 DEF Entries
  <2> HIDE DEF e
  <2> QED
    BY <1>a, <1>b, <2>1, <2>2, GoToOffers DEF GoodKey
<1>4. CASE LeaveEntry
  BY <1>4 DEF LeaveEntry, Becomes, GoodKey
<1>5. ASSUME NEW key \in 1..LettersPerPage, TypeLetter(key) PROVE GoodKey(entry, entry')
  <2>1. PICK l \in entry.letters : entry' = Refresh([entry EXCEPT !.prefix = Append(@, l)])
    BY <1>5 DEF TypeLetter, Becomes
  <2> DEFINE e == [entry EXCEPT !.prefix = Append(@, l)]
  <2>2. entry.stage = "word" /\ entry.letters = NextLetters(entry.prefix) /\ entry.prefix \in Seq(Letters)
    BY <1>0, <1>5 DEF TypeLetter, At, Offers, Entries
  <2>3. l \in Letters
    BY <1>0 DEF Entries
  <2>4. e \in Entries /\ e.prefix = Append(entry.prefix, l) /\ e.words = entry.words
    <3> DEFINE longer == Append(entry.prefix, l)
    <3>1. longer \in Seq(Letters)
      BY <2>2, <2>3
    <3>2. e = [entry EXCEPT !.prefix = longer]
      BY <1>0 DEF Entries
    <3> HIDE DEF longer, e
    <3> QED
      BY <1>0, <3>1, <3>2 DEF Entries, longer
  <2>5. WithPrefix(Append(entry.prefix, l)) # {}
    <3>1. PICK w \in WithPrefix(entry.prefix) \ {entry.prefix} : l = w[Len(entry.prefix) + 1]
      BY <2>2 DEF NextLetters
    <3> QED
      BY <2>2, <3>1, LongerPrefix
  <2> HIDE DEF e
  <2>6. Refresh(e) \in Entries /\ Offers(Refresh(e))
    BY <2>4, <2>5, RefreshOffers
  <2>7. Refresh(e).words = entry.words
    BY <2>4 DEF Refresh, Entries
  <2> QED
    BY <1>b, <2>1, <2>6, <2>7 DEF GoodKey, e
<1>6. CASE TurnLetters
  <2> DEFINE page == (entry.page + 1) % Pages(entry.letters)
  <2>1. entry.letters \in SUBSET Letters /\ entry.page \in Nat
    BY <1>0 DEF Entries
  <2>2. Pages(entry.letters) \in Nat /\ 0 < Pages(entry.letters)
    BY <2>1, PagesArePositive
  <2>3. page \in Nat /\ page < Pages(entry.letters)
    BY <2>1, <2>2
  <2>4. entry' = [entry EXCEPT !.page = page]
    BY <1>6 DEF TurnLetters, Becomes
  <2> HIDE DEF page
  <2>5. /\ entry' \in Entries /\ entry'.words = entry.words /\ entry'.letters = entry.letters
        /\ entry'.prefix = entry.prefix /\ entry'.stage = entry.stage /\ entry'.page = page
    BY <1>0, <2>3, <2>4 DEF Entries
  <2> QED
    BY <1>0, <1>b, <2>3, <2>5 DEF GoodKey, Offers
<1>7. CASE EraseLetter
  <2> DEFINE e == [entry EXCEPT !.prefix = SubSeq(@, 1, Len(@) - 1)]
  <2>1. /\ entry' = Refresh(e) /\ entry.prefix # <<>>
        /\ WithPrefix(entry.prefix) # {} /\ entry.prefix \in Seq(Letters)
    BY <1>0, <1>7 DEF EraseLetter, Becomes, At, Offers, Entries
  <2>2. SubSeq(entry.prefix, 1, Len(entry.prefix) - 1) \in Seq(Letters)
    BY <2>1
  <2>3. e \in Entries /\ e.prefix = SubSeq(entry.prefix, 1, Len(entry.prefix) - 1) /\ e.words = entry.words
    BY <1>0, <2>2 DEF Entries
  <2>4. WithPrefix(e.prefix) # {}
    BY <2>1, <2>3, ShorterPrefix
  <2> HIDE DEF e
  <2>5. Refresh(e) \in Entries /\ Offers(Refresh(e))
    BY <2>3, <2>4, RefreshOffers
  <2>6. Refresh(e).words = entry.words
    BY <2>3 DEF Refresh, Entries
  <2> QED
    BY <1>b, <2>1, <2>5, <2>6 DEF GoodKey
<1>8. CASE BackOneWord
  <2>1. entry.cursor - 1 \in Slots /\ entry' = GoTo(entry, entry.cursor - 1)
    BY <1>0, <1>8, <1>a DEF BackOneWord, Becomes, Entries, Slots
  <2> QED
    BY <1>0, <1>b, <2>1, GoToOffers DEF GoodKey
<1>9. CASE BackToIndex
  <2>1. entry' = [entry EXCEPT !.stage = "index"]
    BY <1>9 DEF BackToIndex, Becomes
  <2>2. entry' \in Entries /\ entry'.stage = "index" /\ entry'.words = entry.words
    BY <1>0, <2>1 DEF Entries
  <2> QED
    BY <1>b, <2>2 DEF GoodKey, Offers
<1>10. CASE AcceptWord
  <2> DEFINE e == [entry EXCEPT !.words[entry.cursor] = Accepted(entry)]
  <2>1. Accepted(entry) \in WordList /\ Begins(entry.prefix, Accepted(entry)) /\ Accepted(entry) # None
    BY <1>0, <1>10, AcceptedBegins DEF AcceptWord
  <2>2. entry.cursor \in Slots /\ entry.words \in Words
    BY <1>0 DEF Entries
  <2>3. e.words = [entry.words EXCEPT ![entry.cursor] = Accepted(entry)] /\ e.words \in Words
    BY <1>0, <2>1, <2>2 DEF Entries, Words
  <2>4. e \in Entries
    BY <1>0, <2>3 DEF Entries
  <2>5. \A f \in Entries : f.words = e.words => KeepsWords(entry, f)
    BY <2>1, <2>2, <2>3 DEF KeepsWords, Words
  <2>6. IF entry.cursor < BackupWords THEN Becomes(GoTo(e, entry.cursor + 1)) ELSE Submit(e)
    BY <1>10 DEF AcceptWord
  <2> HIDE DEF e
  <2>7. CASE entry.cursor < BackupWords
    <3>1. entry.cursor + 1 \in Slots
      BY <1>a, <2>2, <2>7 DEF Slots
    <3> QED
      BY <2>4, <2>5, <2>6, <2>7, <3>1, GoToOffers DEF GoodKey, Becomes
  <2>8. CASE ~(entry.cursor < BackupWords) /\ Missing(e) # {}
    <3> DEFINE slot == CHOOSE s \in Missing(e) : \A t \in Missing(e) : s <= t
    <3>1. slot \in Slots
      BY <2>8, FirstOfSlots DEF Missing
    <3>2. entry' = GoTo(e, slot)
      BY <2>6, <2>8 DEF Submit, Becomes
    <3> HIDE DEF slot
    <3> QED
      BY <2>4, <2>5, <3>1, <3>2, GoToOffers DEF GoodKey
  <2>9. CASE ~(entry.cursor < BackupWords) /\ Missing(e) = {}
    <3>1. entry' = None \/ entry' = [e EXCEPT !.stage = "failed"]
      BY <2>6, <2>9 DEF Submit, Becomes
    <3>2. [e EXCEPT !.stage = "failed"] \in Entries
      BY <2>4 DEF Entries
    <3>3. [e EXCEPT !.stage = "failed"].stage = "failed" /\ [e EXCEPT !.stage = "failed"].words = e.words
      BY <2>4 DEF Entries
    <3> QED
      BY <2>5, <3>1, <3>2, <3>3 DEF GoodKey, Offers
  <2> QED
    BY <2>7, <2>8, <2>9
<1>11. CASE AfterFailure
  <2> DEFINE e == [entry EXCEPT !.stage = "word"]
  <2>1. entry' = GoTo(e, BackupWords)
    BY <1>11 DEF AfterFailure, Becomes
  <2>2. e \in Entries /\ e.words = entry.words
    BY <1>0 DEF Entries
  <2> HIDE DEF e
  <2> QED
    BY <1>a, <1>b, <2>1, <2>2, GoToOffers DEF GoodKey
<1> QED
  BY <1>1, <1>2, <1>3, <1>4, <1>5, <1>6, <1>7, <1>8, <1>9, <1>10, <1>11 DEF EntryKey

LEMMA EntryNeedsEntry == EntryKey => entry # None
BY DEF EntryKey, TypeDigit, EraseDigit, AcceptIndex, LeaveEntry, TypeLetter, TurnLetters, EraseLetter,
   BackOneWord, BackToIndex, AcceptWord, AfterFailure, At

LEMMA EntryNextKeeps == EntryInv /\ [Next]_vars => EntryInv'
<1> SUFFICES ASSUME EntryInv, [Next]_vars PROVE EntryInv'
  OBVIOUS
<1>1. CASE GrantEntry
  <2> DEFINE e == [stage |-> "index", index |-> 0, words |-> [s \in Slots |-> None],
                   cursor |-> 1, prefix |-> <<>>, letters |-> {}, page |-> 0]
  <2>1. entry' = Refresh(e)
    BY <1>1 DEF GrantEntry, Becomes, NewEntry
  <2>2. e \in Entries /\ e.stage = "index"
    BY WordEntryAssumption DEF Entries, Words, Slots
  <2> HIDE DEF e
  <2> QED
    BY <2>1, <2>2, RefreshOffers DEF EntryInv
<1>2. CASE KeyToEntry
  BY <1>2, EntryNeedsEntry, EntryKeyKeeps DEF KeyToEntry, GoodKey, EntryInv
<1>3. CASE UNCHANGED entry
  BY <1>3 DEF EntryInv, Offers
<1>4. CASE Prompt \/ GrantQuiz \/ KeyToQuiz \/ TakeOff
  BY <1>3, <1>4 DEF Prompt, GrantQuiz, KeyToQuiz, TakeOff, entryVars
<1> QED
  BY <1>1, <1>2, <1>3, <1>4 DEF Next, vars, entryVars

LEMMA DivIsMonotone ==
  ASSUME NEW m \in Nat, NEW n \in Nat, NEW d \in Nat \ {0}, m <= n
  PROVE  m \div d <= n \div d /\ m \div d \in Nat
OBVIOUS

\* A letter is on one of the pages of its letters.
LEMMA LetterIsOnAPage ==
  ASSUME NEW letters \in SUBSET Letters, NEW l \in letters
  PROVE  PageOf(l, letters) \in Nat /\ PageOf(l, letters) < Pages(letters)
<1> DEFINE before == {k \in letters : k < l}
<1>1. LettersPerPage \in Nat \ {0} /\ IsFiniteSet(Letters)
  BY WordEntryAssumption, FS_Interval DEF LettersPerPage, Letters
<1>2. IsFiniteSet(letters) /\ Cardinality(letters) \in Nat
  BY <1>1, FS_Subset, FS_CardinalityType
<1>3. before \in SUBSET letters /\ before # letters
  BY DEF Letters
<1>4. Cardinality(before) \in Nat /\ Cardinality(before) <= Cardinality(letters) - 1
  BY <1>2, <1>3, FS_Subset, FS_CardinalityType
<1>5. Cardinality(letters) - 1 \in Nat
  BY <1>2, <1>4
<1>6. PageOf(l, letters) = Cardinality(before) \div LettersPerPage
  BY DEF PageOf, PlaceOf
<1>7. Pages(letters) = (Cardinality(letters) - 1) \div LettersPerPage + 1
  BY DEF Pages
<1> HIDE DEF before
<1> QED
  BY <1>1, <1>4, <1>5, <1>6, <1>7, DivIsMonotone

LEMMA OfferedIsTypable == EntryInv => EveryWordIsTypable
<1> SUFFICES ASSUME EntryInv, At("word") PROVE EveryWordIsTypable
  BY DEF EveryWordIsTypable
<1> DEFINE prefix == entry.prefix
           letters == entry.letters
<1>1. /\ entry \in Entries /\ WithPrefix(prefix) # {}
      /\ letters = NextLetters(prefix) /\ entry.page < Pages(letters)
  BY DEF EntryInv, At, Offers
<1>2. prefix \in Seq(Letters) /\ letters \in SUBSET Letters /\ entry.page \in Nat
  BY <1>1 DEF Entries
<1>3. ASSUME NEW w \in WithPrefix(prefix), w # Accepted(entry)
      PROVE  LET letter == w[Len(prefix) + 1]
             IN /\ letter \in letters
                /\ \/ PageOf(letter, letters) = entry.page
                   \/ Pages(letters) > 1 /\ PageOf(letter, letters) < Pages(letters)
  <2> DEFINE letter == w[Len(prefix) + 1]
  <2>1. w # prefix
    <3> SUFFICES ASSUME w = prefix PROVE w = Accepted(entry)
      BY <1>3
    <3>1. prefix \in WordList
      BY DEF WithPrefix
    <3>2. CASE \E v \in WordList : WithPrefix(prefix) = {v}
      <4>1. Accepted(entry) = CHOOSE v \in WordList : WithPrefix(prefix) = {v}
        BY <3>2 DEF Accepted
      <4>2. WithPrefix(prefix) = {Accepted(entry)}
        BY <3>2, <4>1
      <4> QED
        BY <4>2
    <3>3. CASE ~ \E v \in WordList : WithPrefix(prefix) = {v}
      BY <3>1, <3>3 DEF Accepted
    <3> QED
      BY <3>2, <3>3
  <2>2. letter \in letters
    BY <1>1, <2>1 DEF NextLetters
  <2>3. PageOf(letter, letters) \in Nat /\ PageOf(letter, letters) < Pages(letters)
    BY <1>2, <2>2, LetterIsOnAPage
  <2>4. Pages(letters) \in Nat /\ 0 < Pages(letters)
    BY <1>2, PagesArePositive
  <2> HIDE DEF letter
  <2> QED
    BY <1>1, <1>2, <2>2, <2>3, <2>4 DEF letter
<1> QED
  BY <1>1, <1>3 DEF EveryWordIsTypable

\* Nothing that was typed is lost: a word that was accepted changes only at
\* the cursor, for another one that begins with what is typed there ("Nothing
\* is discarded, ever", wordentry.rs).
THEOREM NoWordIsLost == Spec => NothingIsDiscarded
<1>1. Init => EntryInv
  BY DEF Init, EntryInit, EntryInv
<1>2. EntryInv /\ [Next]_vars => EntryInv'
  BY EntryNextKeeps
<1>3. EntryInv /\ [Next]_vars =>
        [flow = "entry" /\ flow' = "entry" =>
           \A s \in Slots : entry.words[s] # None /\ entry'.words[s] # entry.words[s] =>
             s = entry.cursor /\ entry'.words[s] # None /\ Begins(entry.prefix, entry'.words[s])]_vars
  <2> SUFFICES ASSUME EntryInv, Next, flow = "entry", flow' = "entry",
                      NEW s \in Slots, entry.words[s] # None, entry'.words[s] # entry.words[s]
               PROVE  s = entry.cursor /\ entry'.words[s] # None /\ Begins(entry.prefix, entry'.words[s])
    BY DEF vars
  <2>1. CASE KeyToEntry
    <3>1. entry # None /\ entry' # None
      BY <2>1, EntryNeedsEntry DEF KeyToEntry
    <3>2. KeepsWords(entry, entry')
      BY <2>1, <3>1, EntryKeyKeeps DEF KeyToEntry, GoodKey
    <3> QED
      BY <3>2 DEF KeepsWords
  <2>2. CASE ~KeyToEntry
    <3>1. entry' = entry
      BY <2>2 DEF Next, Prompt, GrantEntry, GrantQuiz, KeyToQuiz, TakeOff, entryVars
    <3> QED
      BY <3>1
  <2> QED
    BY <2>1, <2>2
<1> QED
  BY <1>1, <1>2, <1>3, PTL DEF Spec, NothingIsDiscarded

\* However the keys were pressed before, every word that begins with the
\* letters on the screen can still be typed (refresh, slot and accept,
\* wordentry.rs).
THEOREM WordsAreTypable == Spec => []EveryWordIsTypable
<1>1. Init => EntryInv
  BY DEF Init, EntryInit, EntryInv
<1>2. EntryInv /\ [Next]_vars => EntryInv'
  BY EntryNextKeeps
<1>3. EntryInv => EveryWordIsTypable
  BY OfferedIsTypable
<1> QED
  BY <1>1, <1>2, <1>3, PTL DEF Spec
=============================================================================
