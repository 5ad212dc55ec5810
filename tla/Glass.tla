------------------------------- MODULE Glass -------------------------------
(***************************************************************************)
(* What a window of the pad means to the flow on the screen (main.rs,      *)
(* entry_step and check_step): it types into an entry, answers a quiz, or  *)
(* takes the secrets off the glass.  The pad itself is followed contact by *)
(* contact while the prompts of Consent wait for it; an entry and a quiz   *)
(* take its verdicts as they may come.                                     *)
(***************************************************************************)
EXTENDS Keypad, WordEntry, Quiz

VARIABLE flow       \* what is on the glass

vars == <<padVars, entryVars, quizVars, flow>>

Init == /\ PadInit /\ EntryInit /\ QuizInit
        /\ flow \in {"prompt", "idle"}

(* The windows of a prompt.                                                *)
Prompt == flow = "prompt" /\ PadNext /\ UNCHANGED <<entryVars, quizVars, flow>>

(* A consented request begins an entry or a quiz, always a new one.  A     *)
(* quiz whose options cannot be drawn is refused.                          *)
GrantEntry == /\ flow = "idle"
              /\ Becomes(NewEntry)
              /\ flow' = "entry"
              /\ UNCHANGED <<padVars, quizVars>>

GrantQuiz == /\ flow = "idle"
             /\ NewQuiz
             /\ flow' = "quiz"
             /\ UNCHANGED <<padVars, entryVars>>

(* entry_key and quiz_key: the flow goes on for as long as its machine is  *)
(* there; a quiz that was passed says so until the next key.               *)
KeyToEntry == /\ flow = "entry"
              /\ EntryKey
              /\ flow' = IF entry' = None THEN "over" ELSE "entry"
              /\ UNCHANGED <<padVars, quizVars>>

KeyToQuiz == /\ flow = "quiz"
             /\ QuizKey
             /\ flow' = IF quiz' # NoQuiz THEN "quiz" ELSE IF checked' # checked THEN "passed" ELSE "over"
             /\ UNCHANGED <<padVars, entryVars>>

(* Two contacts, or a pad that cannot be read, end the flow; so does any   *)
(* key on the screen of a passed quiz.  The session keeps its entry or     *)
(* quiz, which no key reaches any more.                                    *)
TakeOff == /\ flow \in {"entry", "quiz", "passed"}
           /\ flow' = "over"
           /\ UNCHANGED <<padVars, entryVars, quizVars>>

Next == Prompt \/ GrantEntry \/ GrantQuiz \/ KeyToEntry \/ KeyToQuiz \/ TakeOff

(* The loop reads the pad as long as a prompt waits.                       *)
Fairness == WF_vars(flow = "prompt" /\ PadStep /\ UNCHANGED <<entryVars, quizVars, flow>>)

Spec == Init /\ [][Next]_vars /\ Fairness

(* A word that was accepted is in its place until the user, at that place, *)
(* accepts another: going back to an earlier word, deleting letters, a     *)
(* wrong checksum and the page of the index lose none of the others.       *)
(* (wordentry.rs, "Nothing is discarded, ever")                            *)
NothingIsDiscarded ==
    [][flow = "entry" /\ flow' = "entry" =>
         \A s \in Slots : entry.words[s] # None /\ entry'.words[s] # entry.words[s] =>
           s = entry.cursor /\ entry'.words[s] # None /\ Begins(entry.prefix, entry'.words[s])]_vars
=============================================================================
