-------------------------------- MODULE Quiz --------------------------------
(***************************************************************************)
(* The backup quiz: some positions of a share in a drawn order, the last   *)
(* one always among them, each asked until the right one of three words is *)
(* picked (firmware/src/quiz.rs).                                          *)
(***************************************************************************)
EXTENDS Naturals, FiniteSets, Sequences

CONSTANTS Dictionary,     \* all words
          Share,          \* the words of the share, which may repeat
          QuizPositions,  \* how many are asked
          NoQuiz          \* no quiz, or nothing drawn for it

ASSUME QuizAssumption ==
    /\ Share \in Seq(Dictionary)
    /\ QuizPositions \in 1..Len(Share)

VARIABLES quiz,     \* the Quiz, or NoQuiz
          answers,  \* ghost: what was asked for each right answer and what was picked
          checked   \* ghost: the answers of the quiz passed last, or NoQuiz

quizVars == <<quiz, answers, checked>>

Positions == 1..Len(Share)
Injective(f) == \A i, j \in DOMAIN f : f[i] = f[j] => i = j

Orders == {o \in [1..QuizPositions -> Positions] :
             Injective(o) /\ \E i \in 1..QuizPositions : o[i] = Len(Share)}

Truth(q) == Share[q.order[q.asked]]

(* draw_options: the right word, another one of the share and one of the   *)
(* whole list, shuffled.  Both are drawn until they differ as words from   *)
(* what is there.                                                          *)
\* Mutant: another position is taken for another word.
OwnByPosition(q) == {Share[p] : p \in Positions \ {q.order[q.asked]}}
Own(q) == {Share[p] : p \in Positions} \ {Truth(q)}

Shuffles == {s \in [1..3 -> 1..3] : Injective(s)}
Others(q) == {d \in Own(q) \X Dictionary : d[2] \notin {Truth(q), d[1]}}
Options(q) == {[i \in 1..3 |-> <<Truth(q), d[1], d[2]>>[s[i]]] : d \in Others(q), s \in Shuffles}

QuizInit == quiz = NoQuiz /\ answers = <<>> /\ checked = NoQuiz

\* A quiz that begins with its first question drawn, or does not begin.
NewQuiz ==
    \E order \in Orders :
      LET q == [order |-> order, asked |-> 1, options |-> NoQuiz, wrong |-> FALSE]
      IN /\ answers' = <<>>
         /\ \E o \in Options(q) : quiz' = [q EXCEPT !.options = o]
         /\ UNCHANGED checked

Ask(q) == \E o \in Options(q) : quiz' = [q EXCEPT !.options = o]

WrongAnswer(slot) ==
    /\ quiz # NoQuiz /\ quiz.options[slot] # Truth(quiz)
    /\ Ask([quiz EXCEPT !.wrong = TRUE])
    /\ UNCHANGED <<answers, checked>>

RightAnswer(slot) ==
    LET picked == [position |-> quiz.order[quiz.asked], slot |-> slot,
                   right |-> {i \in 1..3 : quiz.options[i] = Truth(quiz)}]
    IN /\ quiz # NoQuiz /\ quiz.options[slot] = Truth(quiz)
       /\ answers' = Append(answers, picked)
       /\ IF quiz.asked = QuizPositions
          THEN quiz' = NoQuiz /\ checked' = answers'
          ELSE Ask([quiz EXCEPT !.asked = @ + 1, !.wrong = FALSE]) /\ UNCHANGED checked

LeaveQuiz == quiz # NoQuiz /\ quiz' = NoQuiz /\ UNCHANGED <<answers, checked>>

QuizKey == LeaveQuiz \/ \E slot \in 1..3 : WrongAnswer(slot) \/ RightAnswer(slot)

-------------------------------------------------------------------------------
(* A backup is reported as checked only after as many different positions  *)
(* as were to be asked, the last word among them, were each answered with  *)
(* the one option that was right.  (quiz.rs, draw_order and draw_options)  *)
PassIsEarned ==
    checked # NoQuiz =>
      LET asked == {checked[i].position : i \in DOMAIN checked}
      IN /\ Cardinality(asked) = QuizPositions /\ Len(Share) \in asked
         /\ \A i \in DOMAIN checked : checked[i].right = {checked[i].slot}
=============================================================================
