----------------------------- MODULE ConsentProofs -----------------------------
(* The properties of Consent for every set of ceremonies, every length of a  *)
(* prompt and every length of a backup.  The invariant adds to them what the *)
(* ghosts are for: a parked prompt was read up to its page, the reveal in    *)
(* progress has shown what the ghost saw, and a ceremony confirmed once is   *)
(* not asked again.                                                          *)
EXTENDS Consent, TLAPS

\* The ghosts and their ranges.
Histories ==
  /\ read \in [Ceremonies -> SUBSET Nat]
  /\ looked \in [Ceremonies -> SUBSET AllPages]
  /\ \A c \in Ceremonies : read[c] \subseteq 0..(PromptPages[c] - 1)

\* The parked prompt was read up to the page it is at.
ParkedIsRead == parked # None => 0..parked.page \subseteq read[parked.of]

\* A ceremony is confirmed once: a parked prompt is not yet, and one that is
\* confirmed was asked.
ConfirmedOnce ==
  /\ parked # None => /\ parked.of \notin agreed
                      /\ asked[parked.of] # "no"
  /\ \A c \in agreed : asked[c] # "no"

\* The reveal in progress has shown what the ghost saw since its consent, and
\* the question comes after all of it.
RevealIsSeen ==
  /\ reveal # None => seenPages = looked[reveal]
  /\ flow # None /\ flow.kind = "question" =>
       /\ flow.of \in agreed
       /\ looked[flow.of] = AllPages

Inv == /\ TypeOK /\ Histories
       /\ OneQuestionAtATime /\ SecretsAreAttended /\ GrantsAreConsented
       /\ ParkedIsRead /\ ConfirmedIsRead
       /\ ConfirmedOnce /\ RevealIsSeen /\ RecordedIsSeen

-------------------------------------------------------------------------------
\* What the assumption says, where it is used: a prompt and a backup have pages.
LEMMA PageCounts ==
  /\ \A c \in Ceremonies : PromptPages[c] \in Nat /\ PromptPages[c] > 0
  /\ BackupPages \in Nat /\ BackupPages > 0
  BY ConsentAssumption

\* A device at rest.
LEMMA InitInv == Init => Inv
  <1> SUFFICES ASSUME Init PROVE Inv
    OBVIOUS
  <1> USE ConsentAssumption DEF Init
  <1>1. TypeOK
    BY DEF TypeOK, Screens, Standby, Screen
  <1>2. Histories
    BY DEF Histories
  <1>3. /\ OneQuestionAtATime /\ SecretsAreAttended /\ GrantsAreConsented
        /\ ParkedIsRead /\ ConfirmedIsRead
        /\ ConfirmedOnce /\ RevealIsSeen /\ RecordedIsSeen
    BY DEF OneQuestionAtATime, SecretsAreAttended, GrantsAreConsented, ParkedIsRead,
           ConfirmedIsRead, ConfirmedOnce, RevealIsSeen, RecordedIsSeen, Secret, Standby, Screen
  <1> QED
    BY <1>1, <1>2, <1>3 DEF Inv

-------------------------------------------------------------------------------
(* Messages of the coordinator.                                              *)
\* A new prompt is at page 0, read up to it and not confirmed yet.
LEMMA RecvRequestInv ==
  ASSUME Inv, NEW c \in Ceremonies, RecvRequest(c)
  PROVE  Inv'
  <1> USE PageCounts DEF RecvRequest, DrawPrompt, grants, ghosts
  <1>1. TypeOK'
    <2>1. Screen("prompt", c, 0) \in Screens /\ Refusal \in Screens
      BY DEF Screen, Screens, Refusal
    <2>2. shown' \in Screens /\ flow' = None
      BY <2>1 DEF TakeGlass
    <2>3. parked' = None \/ /\ parked'.of \in Ceremonies
                            /\ parked'.page \in 0..(PromptPages[parked'.of] - 1)
      BY DEF Inv, TypeOK
    <2> QED
      BY <2>2, <2>3 DEF Inv, TypeOK
  <1>2. (Histories /\ ParkedIsRead)'
    BY DEF Inv, TypeOK, Histories, ParkedIsRead
  <1>3. ConfirmedIsRead'
    BY DEF Inv, TypeOK, Histories, ConfirmedIsRead, ConfirmedOnce
  <1>4. ConfirmedOnce'
    BY DEF Inv, TypeOK, ConfirmedOnce
  <1>5. (OneQuestionAtATime /\ SecretsAreAttended /\ GrantsAreConsented)'
    BY DEF Inv, TypeOK, OneQuestionAtATime, SecretsAreAttended, GrantsAreConsented,
       Secret, Opens, TakeGlass, Refusal, Screen
  <1>6. (RevealIsSeen /\ RecordedIsSeen)'
    BY DEF Inv, TypeOK, Histories, ConfirmedIsRead, ConfirmedOnce, RevealIsSeen,
       RecordedIsSeen, TakeGlass
  <1> QED
    BY <1>1, <1>2, <1>3, <1>4, <1>5, <1>6 DEF Inv

\* A Cancel takes grants away and gives none.
LEMMA RecvCancelInv ==
  ASSUME Inv, NEW c \in Ceremonies, RecvCancel(c)
  PROVE  Inv'
  <1> USE PageCounts DEF RecvCancel, grants, ghosts
  <1>1. TypeOK'
    BY DEF Inv, TypeOK, Screens
  <1>2. (Histories /\ ParkedIsRead /\ ConfirmedIsRead /\ ConfirmedOnce)'
    BY DEF Inv, TypeOK, Histories, ParkedIsRead, ConfirmedIsRead, ConfirmedOnce
  <1>3. (OneQuestionAtATime /\ SecretsAreAttended /\ GrantsAreConsented)'
    BY DEF Inv, TypeOK, OneQuestionAtATime, SecretsAreAttended, GrantsAreConsented,
       Secret, Opens
  <1>4. (RevealIsSeen /\ RecordedIsSeen)'
    BY DEF Inv, TypeOK, Histories, ConfirmedIsRead, ConfirmedOnce, RevealIsSeen,
       RecordedIsSeen
  <1> QED
    BY <1>1, <1>2, <1>3, <1>4 DEF Inv

\* A refusal ends the flow whose screen it covers.
LEMMA RecvRefusedInv ==
  ASSUME Inv, RecvRefused
  PROVE  Inv'
  <1> USE PageCounts DEF RecvRefused, grants, ghosts
  <1>1. TypeOK'
    BY DEF Inv, TypeOK, Screens, TakeGlass, Refusal, Screen
  <1>2. (Histories /\ ParkedIsRead /\ ConfirmedIsRead /\ ConfirmedOnce)'
    BY DEF Inv, TypeOK, Histories, ParkedIsRead, ConfirmedIsRead, ConfirmedOnce, TakeGlass
  <1>3. (OneQuestionAtATime /\ SecretsAreAttended /\ GrantsAreConsented)'
    BY DEF Inv, TypeOK, OneQuestionAtATime, SecretsAreAttended, GrantsAreConsented,
       Secret, Opens, TakeGlass, Refusal, Screen
  <1>4. (RevealIsSeen /\ RecordedIsSeen)'
    BY DEF Inv, TypeOK, Histories, ConfirmedIsRead, ConfirmedOnce, RevealIsSeen,
       RecordedIsSeen, TakeGlass
  <1> QED
    BY <1>1, <1>2, <1>3, <1>4 DEF Inv

\* So does an address.
LEMMA RecvVerifyAddressInv ==
  ASSUME Inv, RecvVerifyAddress
  PROVE  Inv'
  <1> USE PageCounts DEF RecvVerifyAddress, grants, ghosts
  <1>1. TypeOK'
    BY DEF Inv, TypeOK, Screens, TakeGlass, Address, Screen
  <1>2. (Histories /\ ParkedIsRead /\ ConfirmedIsRead /\ ConfirmedOnce)'
    BY DEF Inv, TypeOK, Histories, ParkedIsRead, ConfirmedIsRead, ConfirmedOnce, TakeGlass
  <1>3. (OneQuestionAtATime /\ SecretsAreAttended /\ GrantsAreConsented)'
    BY DEF Inv, TypeOK, OneQuestionAtATime, SecretsAreAttended, GrantsAreConsented,
       Secret, Opens, TakeGlass, Address, Screen
  <1>4. (RevealIsSeen /\ RecordedIsSeen)'
    BY DEF Inv, TypeOK, Histories, ConfirmedIsRead, ConfirmedOnce, RevealIsSeen,
       RecordedIsSeen, TakeGlass
  <1> QED
    BY <1>1, <1>2, <1>3, <1>4 DEF Inv

-------------------------------------------------------------------------------
(* Keys on a prompt.                                                         *)
\* The next page of a prompt extends what was read of it.
LEMMA TurnPageInv ==
  ASSUME Inv, TurnPage
  PROVE  Inv'
  <1> USE PageCounts DEF TurnPage, DrawPrompt, grants, ghosts
  <1>1. PICK c \in Ceremonies, page \in Nat :
         parked.of = c /\ parked.page = page /\ page + 1 \in 0..(PromptPages[c] - 1)
    BY DEF Inv, TypeOK, LastPage
  <1>2. TypeOK'
    <2>1. Screen("prompt", c, page + 1) \in Screens /\ Refusal \in Screens
      BY DEF Screen, Screens, Refusal
    <2>2. shown' \in Screens /\ flow' = None
      BY <1>1, <2>1 DEF TakeGlass
    <2>3. parked' = None \/ /\ parked'.of \in Ceremonies
                            /\ parked'.page \in 0..(PromptPages[parked'.of] - 1)
      BY <1>1
    <2> QED
      BY <2>2, <2>3 DEF Inv, TypeOK
  <1>3. (Histories /\ ParkedIsRead)'
    BY <1>1 DEF Inv, TypeOK, Histories, ParkedIsRead
  <1>4. ConfirmedIsRead'
    BY <1>1 DEF Inv, TypeOK, Histories, ConfirmedIsRead, ConfirmedOnce
  <1>5. ConfirmedOnce'
    BY <1>1 DEF Inv, TypeOK, ConfirmedOnce
  <1>6. (OneQuestionAtATime /\ SecretsAreAttended /\ GrantsAreConsented)'
    BY DEF Inv, TypeOK, OneQuestionAtATime, SecretsAreAttended, GrantsAreConsented,
       Secret, Opens, TakeGlass, Refusal, Screen
  <1>7. (RevealIsSeen /\ RecordedIsSeen)'
    BY DEF Inv, TypeOK, Histories, ConfirmedIsRead, ConfirmedOnce, RevealIsSeen,
       RecordedIsSeen, TakeGlass
  <1> QED
    BY <1>2, <1>3, <1>4, <1>5, <1>6, <1>7 DEF Inv

\* A key that is not offered drops the prompt.
LEMMA DismissInv ==
  ASSUME Inv, Dismiss
  PROVE  Inv'
  <1> USE PageCounts DEF Dismiss, grants, ghosts
  <1>1. TypeOK'
    BY DEF Inv, TypeOK, Screens, TakeGlass, Refusal, Screen
  <1>2. (Histories /\ ParkedIsRead /\ ConfirmedIsRead /\ ConfirmedOnce)'
    BY DEF Inv, TypeOK, Histories, ParkedIsRead, ConfirmedIsRead, ConfirmedOnce
  <1>3. (OneQuestionAtATime /\ SecretsAreAttended /\ GrantsAreConsented)'
    BY DEF Inv, TypeOK, OneQuestionAtATime, SecretsAreAttended, GrantsAreConsented,
       Secret, Opens, TakeGlass, Refusal, Screen
  <1>4. (RevealIsSeen /\ RecordedIsSeen)'
    BY DEF Inv, TypeOK, Histories, ConfirmedIsRead, ConfirmedOnce, RevealIsSeen,
       RecordedIsSeen, TakeGlass
  <1> QED
    BY <1>1, <1>2, <1>3, <1>4 DEF Inv

\* What the digit finds: the prompt was read whole and is confirmed now.
LEMMA ConfirmingReads ==
  ASSUME Inv, NEW kind, Confirming(kind)
  PROVE  /\ parked.of \in Ceremonies /\ Kind[parked.of] = kind
         /\ parked.of \notin agreed /\ asked[parked.of] # "no"
         /\ agreed' = agreed \cup {parked.of} /\ parked' = None
         /\ asked' = asked /\ read' = read
         /\ read[parked.of] = 0..(PromptPages[parked.of] - 1)
  BY PageCounts DEF Inv, TypeOK, Histories, ParkedIsRead, ConfirmedOnce, Confirming,
     LastPage

\* The digit answers a ceremony that opens no flow.
LEMMA ConfirmPlainInv ==
  ASSUME Inv, ConfirmPlain
  PROVE  Inv'
  <1> USE PageCounts DEF ConfirmPlain, grants, ghosts
  <1>1. PICK c \in Ceremonies :
         /\ parked.of = c /\ Kind[c] = "plain" /\ c \notin agreed /\ asked[c] # "no"
         /\ agreed' = agreed \cup {c} /\ parked' = None /\ asked' = asked /\ read' = read
         /\ read[c] = 0..(PromptPages[c] - 1)
    BY ConfirmingReads
  <1>2. TypeOK'
    BY <1>1 DEF Inv, TypeOK, Screens, TakeGlass, Refusal, Screen
  <1>3. (Histories /\ ParkedIsRead /\ ConfirmedOnce)'
    BY <1>1 DEF Inv, TypeOK, Histories, ParkedIsRead, ConfirmedOnce
  <1>4. ConfirmedIsRead'
    BY <1>1 DEF Inv, ConfirmedIsRead
  <1>5. (OneQuestionAtATime /\ SecretsAreAttended /\ GrantsAreConsented)'
    BY <1>1 DEF Inv, TypeOK, OneQuestionAtATime, SecretsAreAttended, GrantsAreConsented,
       Secret, Opens, TakeGlass, Refusal, Screen
  <1>6. (RevealIsSeen /\ RecordedIsSeen)'
    BY <1>1 DEF Inv, TypeOK, Histories, ConfirmedIsRead, ConfirmedOnce, RevealIsSeen,
       RecordedIsSeen, TakeGlass
  <1> QED
    BY <1>2, <1>3, <1>4, <1>5, <1>6 DEF Inv

\* The digit grants a reveal, with nothing of it seen but page 0.
LEMMA ConfirmRevealInv ==
  ASSUME Inv, ConfirmReveal
  PROVE  Inv'
  <1> USE PageCounts DEF ConfirmReveal, grants, ghosts
  <1>1. PICK c \in Ceremonies :
         /\ parked.of = c /\ Kind[c] = "reveal" /\ c \notin agreed /\ asked[c] # "no"
         /\ agreed' = agreed \cup {c} /\ parked' = None /\ asked' = asked /\ read' = read
         /\ read[c] = 0..(PromptPages[c] - 1)
    BY ConfirmingReads
  <1>2. TypeOK'
    <2>1. Screen("pages", c, 0) \in Screens /\ Screen("pages", c, 0).kind = "pages" /\ Refusal \in Screens
      BY DEF Screen, Screens, Refusal, Secret
    <2>2. 0 \in AllPages
      BY DEF AllPages
    <2> QED
      BY <1>1, <2>1, <2>2 DEF Inv, TypeOK, TakeGlass, Enter, SeenAtGrant, Secret
  <1>3. (Histories /\ ParkedIsRead /\ ConfirmedOnce)'
    BY <1>1 DEF Inv, TypeOK, Histories, ParkedIsRead, ConfirmedOnce, AllPages
  <1>4. ConfirmedIsRead'
    BY <1>1 DEF Inv, ConfirmedIsRead
  <1>5. (OneQuestionAtATime /\ SecretsAreAttended /\ GrantsAreConsented)'
    BY <1>1 DEF Inv, TypeOK, OneQuestionAtATime, SecretsAreAttended, GrantsAreConsented,
       Secret, Opens, TakeGlass, Enter, Refusal, Screen
  <1>6. RevealIsSeen'
    <2>1. \/ reveal' = c /\ seenPages' = {0} /\ looked'[c] = {0}
          \/ reveal' = None
          \/ reveal' = reveal /\ seenPages' = seenPages /\ looked' = looked
      BY <1>1 DEF Inv, Histories, SeenAtGrant
    <2>2. flow' = None \/ flow'.kind = "pages"
      BY DEF TakeGlass, Enter, Screen
    <2> QED
      BY <2>1, <2>2 DEF Inv, RevealIsSeen
  <1>7. RecordedIsSeen'
    BY <1>1 DEF Inv, TypeOK, Histories, ConfirmedIsRead, RecordedIsSeen
  <1> QED
    BY <1>2, <1>3, <1>4, <1>5, <1>6, <1>7 DEF Inv

\* The digit grants a quiz and no reveal.
LEMMA ConfirmQuizInv ==
  ASSUME Inv, ConfirmQuiz
  PROVE  Inv'
  <1> USE PageCounts DEF ConfirmQuiz, grants, ghosts
  <1>1. PICK c \in Ceremonies :
         /\ parked.of = c /\ Kind[c] = "quiz" /\ c \notin agreed /\ asked[c] # "no"
         /\ agreed' = agreed \cup {c} /\ parked' = None /\ asked' = asked /\ read' = read
         /\ read[c] = 0..(PromptPages[c] - 1)
    BY ConfirmingReads
  <1>2. TypeOK'
    <2>1. Screen("quiz", c, 0) \in Screens /\ Screen("quiz", c, 0).kind = "quiz" /\ Refusal \in Screens
      BY DEF Screen, Screens, Refusal, Secret
    <2> QED
      BY <1>1, <2>1 DEF Inv, TypeOK, TakeGlass, Enter, GrantQuiz, Secret
  <1>3. (Histories /\ ParkedIsRead /\ ConfirmedOnce)'
    BY <1>1 DEF Inv, TypeOK, Histories, ParkedIsRead, ConfirmedOnce
  <1>4. ConfirmedIsRead'
    BY <1>1 DEF Inv, ConfirmedIsRead
  <1>5. (OneQuestionAtATime /\ SecretsAreAttended /\ GrantsAreConsented)'
    BY <1>1 DEF Inv, TypeOK, OneQuestionAtATime, SecretsAreAttended, GrantsAreConsented,
       Secret, Opens, TakeGlass, Enter, Refusal, Screen, GrantQuiz
  <1>6. (RevealIsSeen /\ RecordedIsSeen)'
    BY <1>1 DEF Inv, TypeOK, Histories, ConfirmedIsRead, ConfirmedOnce, RevealIsSeen,
       RecordedIsSeen, TakeGlass, Enter, Screen, GrantQuiz
  <1> QED
    BY <1>2, <1>3, <1>4, <1>5, <1>6 DEF Inv

\* The digit grants an entry.
LEMMA ConfirmEntryInv ==
  ASSUME Inv, ConfirmEntry
  PROVE  Inv'
  <1> USE PageCounts DEF ConfirmEntry, grants, ghosts
  <1>1. PICK c \in Ceremonies :
         /\ parked.of = c /\ Kind[c] = "entry" /\ c \notin agreed /\ asked[c] # "no"
         /\ agreed' = agreed \cup {c} /\ parked' = None /\ asked' = asked /\ read' = read
         /\ read[c] = 0..(PromptPages[c] - 1)
    BY ConfirmingReads
  <1>2. TypeOK'
    <2>1. Screen("entry", c, 0) \in Screens /\ Screen("entry", c, 0).kind = "entry" /\ Refusal \in Screens
      BY DEF Screen, Screens, Refusal, Secret
    <2> QED
      BY <1>1, <2>1 DEF Inv, TypeOK, TakeGlass, Enter, Secret
  <1>3. (Histories /\ ParkedIsRead /\ ConfirmedOnce)'
    BY <1>1 DEF Inv, TypeOK, Histories, ParkedIsRead, ConfirmedOnce
  <1>4. ConfirmedIsRead'
    BY <1>1 DEF Inv, ConfirmedIsRead
  <1>5. (OneQuestionAtATime /\ SecretsAreAttended /\ GrantsAreConsented)'
    BY <1>1 DEF Inv, TypeOK, OneQuestionAtATime, SecretsAreAttended, GrantsAreConsented,
       Secret, Opens, TakeGlass, Enter, Refusal, Screen
  <1>6. (RevealIsSeen /\ RecordedIsSeen)'
    BY <1>1 DEF Inv, TypeOK, Histories, ConfirmedIsRead, ConfirmedOnce, RevealIsSeen,
       RecordedIsSeen, TakeGlass, Enter, Screen
  <1> QED
    BY <1>2, <1>3, <1>4, <1>5, <1>6 DEF Inv

-------------------------------------------------------------------------------
(* Keys on a flow.                                                           *)
\* A page of the reveal is seen as it is drawn; the question comes after all.
LEMMA RevealKeyInv ==
  ASSUME Inv, RevealKey
  PROVE  Inv'
  <1> USE PageCounts DEF RevealKey, grants, ghosts
  <1>1. PICK p \in Int : ShowBackup(reveal, p, seenPages, looked)
    BY DEF InFlow, Inv, TypeOK, Screens, AllPages
  <1>2. reveal # None => /\ reveal \in Ceremonies /\ reveal \in agreed
                        /\ seenPages = looked[reveal]
    BY DEF Inv, TypeOK, GrantsAreConsented, RevealIsSeen
  <1>3. \/ /\ reveal # None /\ p \in AllPages /\ reveal' = reveal
            /\ shown' = Screen("pages", reveal, p) /\ flow' = shown'
            /\ seenPages' = seenPages \cup {p} /\ looked' = [looked EXCEPT ![reveal] = @ \cup {p}]
            /\ recordPending' = recordPending
         \/ /\ reveal # None /\ reveal' = None /\ recordPending' = (seenPages = AllPages)
            /\ \/ /\ shown' = Screen("question", reveal, 0) /\ flow' = shown'
                  /\ seenPages = AllPages
               \/ shown' = Standby /\ flow' = None
            /\ seenPages' = seenPages /\ looked' = looked
         \/ /\ shown' = Refusal /\ flow' = None /\ reveal' = None
            /\ seenPages' = seenPages /\ looked' = looked /\ recordPending' = recordPending
    BY <1>1 DEF ShowBackup, Enter, Idle, TakeGlass, WholeSeen
  <1>4. TypeOK'
    <2>1. /\ shown' \in Screens
          /\ flow' = None \/ /\ flow' = shown'
                             /\ flow'.kind \in {"pages", "question"}
      BY <1>2, <1>3 DEF Screen, Screens, Refusal, Standby, Secret, AllPages
    <2>2. reveal' \in Ceremonies \cup {None} /\ recordPending' \in BOOLEAN /\ seenPages' \subseteq AllPages
      BY <1>2, <1>3 DEF Inv, TypeOK
    <2> QED
      BY <2>1, <2>2 DEF Inv, TypeOK, Secret
  <1>5. Histories'
    BY <1>2, <1>3 DEF Inv, Histories
  <1>6. (ParkedIsRead /\ ConfirmedIsRead /\ ConfirmedOnce)'
    BY DEF Inv, ParkedIsRead, ConfirmedIsRead, ConfirmedOnce
  <1>7. (OneQuestionAtATime /\ SecretsAreAttended /\ GrantsAreConsented)'
    BY <1>2, <1>3 DEF Inv, TypeOK, OneQuestionAtATime, SecretsAreAttended,
       GrantsAreConsented, Secret, Opens, InFlow, Refusal, Standby, Screen
  <1>8. RevealIsSeen'
    <2>1. reveal' # None => seenPages' = looked'[reveal']
      BY <1>2, <1>3 DEF Inv, Histories
    <2>2. flow' # None /\ flow'.kind = "question" =>
            reveal # None /\ flow'.of = reveal /\ looked' = looked /\ seenPages = AllPages
      BY <1>3 DEF Screen
    <2> QED
      BY <1>2, <2>1, <2>2 DEF Inv, RevealIsSeen
  <1>9. RecordedIsSeen'
    <2>1. \A c \in Ceremonies : looked[c] = AllPages => looked'[c] = AllPages
      BY <1>2, <1>3 DEF Inv, Histories
    <2> QED
      BY <2>1 DEF Inv, TypeOK, RecordedIsSeen
  <1> QED
    BY <1>4, <1>5, <1>6, <1>7, <1>8, <1>9 DEF Inv

\* The answer follows the question, so the backup was seen whole.
LEMMA AnswerRecordedInv ==
  ASSUME Inv, AnswerRecorded
  PROVE  Inv'
  <1> USE PageCounts DEF AnswerRecorded, grants, ghosts
  <1>1. flow # None /\ flow.kind = "question" /\ flow.of \in Ceremonies
    BY DEF InFlow, Inv, TypeOK, RevealIsSeen
  <1>2. TypeOK'
    <2>1. Standby \in Screens
      BY DEF Standby, Screens, Screen
    <2>2. sent' \subseteq [type : {"answer", "recorded", "entered", "checked"}, of : Ceremonies]
      BY <1>1 DEF Inv, TypeOK
    <2> QED
      BY <2>1, <2>2 DEF Inv, TypeOK, Idle
  <1>3. (Histories /\ ParkedIsRead /\ ConfirmedIsRead /\ ConfirmedOnce)'
    BY <1>1 DEF Inv, TypeOK, Histories, ParkedIsRead, ConfirmedIsRead, ConfirmedOnce,
       RevealIsSeen
  <1>4. (OneQuestionAtATime /\ SecretsAreAttended /\ GrantsAreConsented)'
    BY DEF Inv, TypeOK, OneQuestionAtATime, SecretsAreAttended, GrantsAreConsented,
       Secret, Opens, Idle, Standby, Screen
  <1>5. (RevealIsSeen /\ RecordedIsSeen)'
    BY <1>1 DEF Inv, TypeOK, Histories, ConfirmedIsRead, ConfirmedOnce, RevealIsSeen,
       RecordedIsSeen, Idle
  <1> QED
    BY <1>2, <1>3, <1>4, <1>5 DEF Inv

\* The question left unanswered sends nothing.
LEMMA LeaveUnrecordedInv ==
  ASSUME Inv, LeaveUnrecorded
  PROVE  Inv'
  <1> USE PageCounts DEF LeaveUnrecorded, grants, ghosts
  <1>1. TypeOK'
    BY DEF Inv, TypeOK, Screens, Screen, Secret, InFlow, Idle, Standby
  <1>2. (Histories /\ ParkedIsRead /\ ConfirmedIsRead /\ ConfirmedOnce)'
    BY DEF Inv, TypeOK, Histories, ParkedIsRead, ConfirmedIsRead, ConfirmedOnce,
       GrantsAreConsented
  <1>3. (OneQuestionAtATime /\ SecretsAreAttended /\ GrantsAreConsented)'
    BY DEF Inv, TypeOK, OneQuestionAtATime, SecretsAreAttended, GrantsAreConsented,
       Secret, Opens, Screen, InFlow, Idle, Standby
  <1>4. (RevealIsSeen /\ RecordedIsSeen)'
    BY DEF Inv, TypeOK, Histories, ConfirmedIsRead, ConfirmedOnce, RevealIsSeen,
       RecordedIsSeen, GrantsAreConsented, Screen, InFlow, Idle, Standby
  <1> QED
    BY <1>1, <1>2, <1>3, <1>4 DEF Inv

\* An entry ends with its answer, or without.
LEMMA EntryKeyInv ==
  ASSUME Inv, EntryKey
  PROVE  Inv'
  <1> USE PageCounts DEF EntryKey, grants, ghosts
  <1>1. TypeOK'
    BY DEF Inv, TypeOK, Screens, Screen, Secret, InFlow, Idle, Standby, TakeGlass, Refusal
  <1>2. (Histories /\ ParkedIsRead /\ ConfirmedIsRead /\ ConfirmedOnce)'
    BY DEF Inv, TypeOK, Histories, ParkedIsRead, ConfirmedIsRead, ConfirmedOnce,
       GrantsAreConsented
  <1>3. (OneQuestionAtATime /\ SecretsAreAttended /\ GrantsAreConsented)'
    BY DEF Inv, TypeOK, OneQuestionAtATime, SecretsAreAttended, GrantsAreConsented,
       Secret, Opens, Screen, InFlow, Idle, Standby, TakeGlass, Refusal
  <1>4. (RevealIsSeen /\ RecordedIsSeen)'
    BY DEF Inv, TypeOK, Histories, ConfirmedIsRead, ConfirmedOnce, RevealIsSeen,
       RecordedIsSeen, GrantsAreConsented, Screen, InFlow, Idle, Standby, TakeGlass, Refusal
  <1> QED
    BY <1>1, <1>2, <1>3, <1>4 DEF Inv

\* A quiz ends with its answer, or without.
LEMMA QuizKeyInv ==
  ASSUME Inv, QuizKey
  PROVE  Inv'
  <1> USE PageCounts DEF QuizKey, grants, ghosts
  <1>1. TypeOK'
    BY DEF Inv, TypeOK, Screens, Screen, Secret, InFlow, Idle, Standby, TakeGlass,
       Refusal, Enter
  <1>2. (Histories /\ ParkedIsRead /\ ConfirmedIsRead /\ ConfirmedOnce)'
    BY DEF Inv, TypeOK, Histories, ParkedIsRead, ConfirmedIsRead, ConfirmedOnce,
       GrantsAreConsented
  <1>3. (OneQuestionAtATime /\ SecretsAreAttended /\ GrantsAreConsented)'
    BY DEF Inv, TypeOK, OneQuestionAtATime, SecretsAreAttended, GrantsAreConsented,
       Secret, Opens, Screen, InFlow, Idle, Standby, TakeGlass, Refusal, Enter
  <1>4. (RevealIsSeen /\ RecordedIsSeen)'
    BY DEF Inv, TypeOK, Histories, ConfirmedIsRead, ConfirmedOnce, RevealIsSeen,
       RecordedIsSeen, GrantsAreConsented, Screen, InFlow, Idle, Standby, TakeGlass, Refusal, Enter
  <1> QED
    BY <1>1, <1>2, <1>3, <1>4 DEF Inv

\* A flow whose grant went leaves the screen.
LEMMA EndGoneInv ==
  ASSUME Inv, EndGone
  PROVE  Inv'
  <1> USE PageCounts DEF EndGone, grants, ghosts
  <1>1. TypeOK'
    BY DEF Inv, TypeOK, Screens, Screen, Secret, Idle, Standby
  <1>2. (Histories /\ ParkedIsRead /\ ConfirmedIsRead /\ ConfirmedOnce)'
    BY DEF Inv, TypeOK, Histories, ParkedIsRead, ConfirmedIsRead, ConfirmedOnce,
       GrantsAreConsented
  <1>3. (OneQuestionAtATime /\ SecretsAreAttended /\ GrantsAreConsented)'
    BY DEF Inv, TypeOK, OneQuestionAtATime, SecretsAreAttended, GrantsAreConsented,
       Secret, Opens, Screen, Idle, Standby
  <1>4. (RevealIsSeen /\ RecordedIsSeen)'
    BY DEF Inv, TypeOK, Histories, ConfirmedIsRead, ConfirmedOnce, RevealIsSeen,
       RecordedIsSeen, GrantsAreConsented, Screen, Idle, Standby
  <1> QED
    BY <1>1, <1>2, <1>3, <1>4 DEF Inv

\* A flow left by its user leaves the screen.
LEMMA EndFlowInv ==
  ASSUME Inv, EndFlow
  PROVE  Inv'
  <1> USE PageCounts DEF EndFlow, grants, ghosts
  <1>1. TypeOK'
    BY DEF Inv, TypeOK, Screens, Screen, Secret, Idle, Standby
  <1>2. (Histories /\ ParkedIsRead /\ ConfirmedIsRead /\ ConfirmedOnce)'
    BY DEF Inv, TypeOK, Histories, ParkedIsRead, ConfirmedIsRead, ConfirmedOnce,
       GrantsAreConsented
  <1>3. (OneQuestionAtATime /\ SecretsAreAttended /\ GrantsAreConsented)'
    BY DEF Inv, TypeOK, OneQuestionAtATime, SecretsAreAttended, GrantsAreConsented,
       Secret, Opens, Screen, Idle, Standby
  <1>4. (RevealIsSeen /\ RecordedIsSeen)'
    BY DEF Inv, TypeOK, Histories, ConfirmedIsRead, ConfirmedOnce, RevealIsSeen,
       RecordedIsSeen, GrantsAreConsented, Screen, Idle, Standby
  <1> QED
    BY <1>1, <1>2, <1>3, <1>4 DEF Inv

-------------------------------------------------------------------------------
\* No step of the device or of the coordinator leaves the invariant.
LEMMA NextInv == Inv /\ [Next]_vars => Inv'
  <1> SUFFICES ASSUME Inv, [Next]_vars PROVE Inv'
    OBVIOUS
  <1>1. ASSUME NEW c \in Ceremonies, RecvRequest(c) \/ RecvCancel(c) PROVE Inv'
    BY <1>1, RecvRequestInv, RecvCancelInv
  <1>2. CASE RecvRefused \/ RecvVerifyAddress
    BY <1>2, RecvRefusedInv, RecvVerifyAddressInv
  <1>3. CASE TurnPage \/ Dismiss
    BY <1>3, TurnPageInv, DismissInv
  <1>4. CASE ConfirmPlain \/ ConfirmReveal \/ ConfirmQuiz \/ ConfirmEntry
    BY <1>4, ConfirmPlainInv, ConfirmRevealInv, ConfirmQuizInv, ConfirmEntryInv
  <1>5. CASE RevealKey \/ AnswerRecorded \/ LeaveUnrecorded
    BY <1>5, RevealKeyInv, AnswerRecordedInv, LeaveUnrecordedInv
  <1>6. CASE EntryKey \/ QuizKey \/ EndGone \/ EndFlow
    BY <1>6, EntryKeyInv, QuizKeyInv, EndGoneInv, EndFlowInv
  <1>7. CASE UNCHANGED vars
    BY <1>7 DEF vars, grants, ghosts, Inv, TypeOK, Histories, OneQuestionAtATime,
                SecretsAreAttended, GrantsAreConsented, ParkedIsRead, ConfirmedIsRead,
                ConfirmedOnce, RevealIsSeen, RecordedIsSeen
  <1> QED
    BY <1>1, <1>2, <1>3, <1>4, <1>5, <1>6, <1>7 DEF Next

\* The strengthened invariant holds in every behaviour.
LEMMA Invariance == Spec => []Inv
  BY InitInv, NextInv, PTL DEF Spec

(* Every reachable state of the screen and of the grants is well typed, for
   any ceremonies and any number of pages. *)
THEOREM TypeCorrect == Spec => []TypeOK
  BY Invariance, PTL DEF Inv

(* The device never waits for the digit of a prompt and for the keys of a
   flow at once. *)
THEOREM OneQuestion == Spec => []OneQuestionAtATime
  BY Invariance, PTL DEF Inv

(* Words of a share are on the screen only while their flow gets the keys:
   every way take_glass, idle and the flows take the screen ends the flow. *)
THEOREM SecretsStayAttended == Spec => []SecretsAreAttended
  BY Invariance, PTL DEF Inv

(* No grant of confirm_at, and no word on the screen, is for a ceremony whose
   own prompt was not confirmed with its digit. *)
THEOREM GrantsNeedConsent == Spec => []GrantsAreConsented
  BY Invariance, PTL DEF Inv

(* The digit is taken only for a prompt whose every page was on the screen. *)
THEOREM DigitsFollowPages == Spec => []ConfirmedIsRead
  BY Invariance, PTL DEF Inv

(* BackupRecorded is sent only for a backup whose every page was on the
   screen since its consent. *)
THEOREM RecordedBackupsWereSeen == Spec => []RecordedIsSeen
  BY Invariance, PTL DEF Inv

===============================================================================
