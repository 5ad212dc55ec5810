-------------------------------- MODULE Consent --------------------------------
(* What is on the device's one screen, what a key pressed on it means, and   *)
(* the grants a confirmed prompt gives: the event loop of main.rs over the   *)
(* consent half of Session.  The coordinator asks for ceremonies; each shows *)
(* a prompt of one or more pages and prints the confirm digit on the last.   *)
EXTENDS Integers, FiniteSets

CONSTANTS Ceremonies,
          Kind,         \* "reveal", "entry", "quiz" or "plain" (keygen, signing,
                        \* consolidation: confirming it sends an answer)
          PromptPages,  \* pages of each ceremony's prompt
          BackupPages,  \* pages of a backup
          None

ASSUME ConsentAssumption ==
  /\ Kind \in [Ceremonies -> {"reveal", "entry", "quiz", "plain"}]
  /\ PromptPages \in [Ceremonies -> Nat \ {0}]
  /\ BackupPages \in Nat \ {0}

VARIABLES asked,      \* state of each ceremony at the coordinator
          parked,     \* the prompt waiting for a key, with its page, or None
          flow,       \* the flow a key goes to (`glass`), as the screen it drew
          shown,      \* the frame on the panel
          reveal, entry, check,  \* the ceremony of each grant, or None
          recordPending,
          seenPages,  \* pages drawn under the current reveal grant
          sent,       \* ghost: the answers that left the device
          read,       \* ghost: prompt pages that were on the panel
          looked,     \* ghost: backup pages on the panel since the consent
          agreed      \* ghost: ceremonies confirmed with the digit

grants == <<reveal, entry, check, recordPending, seenPages>>
ghosts == <<sent, read, looked, agreed>>
vars == <<asked, parked, flow, shown, grants, ghosts>>

Screen(kind, c, page) == [kind |-> kind, of |-> c, page |-> page]
Standby == Screen("standby", None, 0)
Refusal == Screen("refusal", None, 0)
Address == Screen("address", None, 0)

Init == /\ asked = [c \in Ceremonies |-> "no"]
        /\ parked = None /\ flow = None
        /\ shown = Standby
        /\ reveal = None /\ entry = None /\ check = None
        /\ recordPending = FALSE /\ seenPages = {}
        /\ sent = {} /\ agreed = {}
        /\ read = [c \in Ceremonies |-> {}]
        /\ looked = [c \in Ceremonies |-> {}]

-------------------------------------------------------------------------------
(* Screens.                                                                  *)

\* Mutant: the flow answers on when its screen is gone.
FlowKept(screen) == shown' = screen /\ UNCHANGED flow

\* take_glass: the frame, and the end of the flow that was on the panel.
TakeGlass(screen) == shown' = screen /\ flow' = None

\* draw_prompt: the page, which waits for a key from now on, or a refusal.
DrawPrompt(c, page, otherwise) ==
  \/ /\ TakeGlass(Screen("prompt", c, page))
     /\ parked' = [of |-> c, page |-> page]
     /\ read' = [read EXCEPT ![c] = @ \cup {page}]
  \/ /\ TakeGlass(Refusal)
     /\ parked' = otherwise
     /\ UNCHANGED read

\* A flow's screen; the flow is what the screen says.
Enter(screen) == shown' = screen /\ flow' = screen

\* Mutant: every page of a prompt prints the digit.
EveryPage(p) == TRUE
LastPage(p) == p.page = PromptPages[p.of] - 1

-------------------------------------------------------------------------------
(* Messages of the coordinator.                                              *)

\* A request whose prompt is drawn, or cannot be: what was parked before stays
\* unless a new prompt takes its place.
RecvRequest(c) ==
  /\ asked[c] = "no"
  /\ asked' = [asked EXCEPT ![c] = "yes"]
  /\ DrawPrompt(c, 0, parked)
  /\ UNCHANGED <<grants, sent, looked, agreed>>

\* Cancel: the grants go.  The screen and the parked prompt do not.
RecvCancel(c) ==
  /\ asked[c] = "yes"
  /\ asked' = [asked EXCEPT ![c] = "cancelled"]
  /\ reveal' = None /\ entry' = None /\ check' = None
  /\ recordPending' = FALSE
  /\ UNCHANGED <<parked, flow, shown, seenPages, ghosts>>

\* A message that is refused, and an address to verify: they take the screen.
RecvRefused ==
  /\ TakeGlass(Refusal)
  /\ UNCHANGED <<asked, parked, grants, ghosts>>

RecvVerifyAddress ==
  /\ TakeGlass(Address)
  /\ UNCHANGED <<asked, parked, grants, ghosts>>

-------------------------------------------------------------------------------
(* A key on a parked prompt.                                                 *)

\* The next page of a prompt that has one.
TurnPage ==
  /\ parked # None /\ ~LastPage(parked)
  /\ DrawPrompt(parked.of, parked.page + 1, None)
  /\ UNCHANGED <<asked, grants, sent, looked, agreed>>

\* Any key that is not offered.
Dismiss ==
  /\ parked # None
  /\ parked' = None
  /\ TakeGlass(Refusal)
  /\ UNCHANGED <<asked, grants, ghosts>>

Confirming(kind) ==
  /\ parked # None /\ LastPage(parked) /\ Kind[parked.of] = kind
  /\ parked' = None
  /\ agreed' = agreed \cup {parked.of}
  /\ UNCHANGED <<asked, read>>

\* keygen_ack, sign_ack, finish_consolidation: answered, or refused because
\* the share could not be stored.  The prompt is left on the panel.
ConfirmPlain ==
  /\ Confirming("plain")
  /\ \/ /\ sent' = sent \cup {[type |-> "answer", of |-> parked.of]}
        /\ UNCHANGED <<flow, shown>>
     \/ /\ TakeGlass(Refusal)
        /\ UNCHANGED sent
  /\ UNCHANGED <<grants, looked>>

-------------------------------------------------------------------------------
(* The flows a grant opens.  A key reaches a flow when no prompt is parked.  *)

Idle == shown' = Standby /\ flow' = None

AllPages == 0..(BackupPages - 1)

\* all_pages: every page of this reveal was composed into a frame.
WholeSeen(seen) == seen = AllPages

(* show_backup and show_backup_page: page p of c's backup under a grant that *)
(* has shown `seen`; one past the last page ends the reveal.  A fault ends   *)
(* it too.                                                                   *)
ShowBackup(c, p, seen, was) ==
  \/ /\ c # None /\ p \in AllPages
     /\ Enter(Screen("pages", c, p))
     /\ reveal' = c
     /\ seenPages' = seen \cup {p}
     /\ looked' = [was EXCEPT ![c] = @ \cup {p}]
     /\ UNCHANGED recordPending
  \/ /\ c # None /\ p \notin AllPages
     /\ reveal' = None
     /\ recordPending' = WholeSeen(seen)
     /\ IF WholeSeen(seen) THEN Enter(Screen("question", c, 0)) ELSE Idle
     /\ seenPages' = seen /\ looked' = was
  \/ /\ TakeGlass(Refusal)
     /\ reveal' = None
     /\ seenPages' = seen /\ looked' = was
     /\ UNCHANGED recordPending

\* Mutant: the pages seen in an earlier reveal count.
SeenBefore == seenPages
SeenAtGrant == {}

\* DisplayBackup: the grant, and page 0 at once; or a backup that cannot be
\* drawn in full, which is not granted.
ConfirmReveal ==
  LET c == parked.of
  IN /\ Confirming("reveal")
     /\ \/ /\ recordPending' = FALSE
           /\ \/ /\ Enter(Screen("pages", c, 0))
                 /\ reveal' = c
                 /\ seenPages' = SeenAtGrant \cup {0}
                 /\ looked' = [looked EXCEPT ![c] = {0}]
              \/ /\ TakeGlass(Refusal)
                 /\ reveal' = None
                 /\ seenPages' = SeenAtGrant
                 /\ looked' = [looked EXCEPT ![c] = {}]
        \/ TakeGlass(Refusal) /\ UNCHANGED <<reveal, recordPending, seenPages, looked>>
     /\ UNCHANGED <<entry, check, sent>>

\* Mutant: agreeing to a quiz grants a reveal as well.
QuizReveals(c) == check' = c /\ reveal' = c

\* The quiz grant is a grant of its own.  A grant whose screen cannot be drawn,
\* of a quiz or an entry, stays without a flow.
GrantQuiz(c) == check' = c /\ UNCHANGED reveal

ConfirmQuiz ==
  LET c == parked.of
  IN /\ Confirming("quiz")
     /\ \/ GrantQuiz(c) /\ (Enter(Screen("quiz", c, 0)) \/ TakeGlass(Refusal))
        \/ TakeGlass(Refusal) /\ UNCHANGED <<check, reveal>>
     /\ UNCHANGED <<entry, recordPending, seenPages, sent, looked>>

ConfirmEntry ==
  LET c == parked.of
  IN /\ Confirming("entry")
     /\ entry' = c
     /\ Enter(Screen("entry", c, 0)) \/ TakeGlass(Refusal)
     /\ UNCHANGED <<reveal, check, recordPending, seenPages, sent, looked>>

InFlow(kind) == parked = None /\ flow # None /\ flow.kind = kind

\* Next, back, or any other key, which asks for the page past the last.
RevealKey ==
  /\ InFlow("pages")
  /\ \E p \in {flow.page + 1, BackupPages} \cup {q \in AllPages : q = flow.page - 1}
               \cup (IF flow.page = 0 THEN {0} ELSE {}) :
       ShowBackup(reveal, p, seenPages, looked)
  /\ UNCHANGED <<asked, parked, entry, check, sent, read, agreed>>

\* "Wrote down all the words?": the digit acks, once and if it is pending.
AnswerRecorded ==
  /\ InFlow("question")
  /\ recordPending' = FALSE
  /\ sent' = IF recordPending THEN sent \cup {[type |-> "recorded", of |-> flow.of]} ELSE sent
  /\ Idle
  /\ UNCHANGED <<asked, parked, reveal, entry, check, seenPages, read, looked, agreed>>

\* Any other key leaves the question unanswered.
LeaveUnrecorded ==
  /\ InFlow("question")
  /\ Idle
  /\ UNCHANGED <<asked, parked, grants, ghosts>>

\* entry_key: a key that moves the machine redraws the same flow, or cannot; the
\* last word sends the entered backup, or its persist fails; cancel backs out.
EntryKey ==
  /\ InFlow("entry") /\ entry # None
  /\ \/ Idle /\ entry' = None /\ UNCHANGED sent
     \/ Idle /\ entry' = None /\ sent' = sent \cup {[type |-> "entered", of |-> entry]}
     \/ TakeGlass(Refusal) /\ entry' \in {None, entry} /\ UNCHANGED sent
  /\ UNCHANGED <<asked, parked, reveal, check, recordPending, seenPages, read, looked, agreed>>

\* quiz_key: the last right answer sends the ack and says so, if either can be
\* framed; cancel gives up.
QuizKey ==
  /\ InFlow("quiz") /\ check # None
  /\ \/ Idle /\ check' = None /\ UNCHANGED sent
     \/ /\ Enter(Screen("passed", None, 0)) \/ TakeGlass(Refusal)
        /\ check' = None
        /\ sent' = sent \cup {[type |-> "checked", of |-> check]}
     \/ TakeGlass(Refusal) /\ check' \in {None, check} /\ UNCHANGED sent
  /\ UNCHANGED <<asked, parked, reveal, entry, recordPending, seenPages, read, looked, agreed>>

\* Mutant: the loop waits for a key before it looks at the grant.
NeverGone == FALSE

\* The grant went under an entry or a quiz: the loop finds out without a key.
GrantGone ==
  \/ InFlow("entry") /\ entry = None
  \/ InFlow("quiz") /\ check = None

EndGone ==
  /\ GrantGone
  /\ Idle
  /\ UNCHANGED <<asked, parked, grants, ghosts>>

\* A pad that cannot be read, or a key on the screen of a passed quiz.
EndFlow ==
  /\ \E kind \in {"entry", "quiz", "passed"} : InFlow(kind)
  /\ Idle
  /\ UNCHANGED <<asked, parked, grants, ghosts>>

-------------------------------------------------------------------------------
Next ==
  \/ \E c \in Ceremonies : RecvRequest(c) \/ RecvCancel(c)
  \/ RecvRefused \/ RecvVerifyAddress
  \/ TurnPage \/ Dismiss
  \/ ConfirmPlain \/ ConfirmReveal \/ ConfirmQuiz \/ ConfirmEntry
  \/ RevealKey \/ AnswerRecorded \/ LeaveUnrecorded \/ EntryKey \/ QuizKey
  \/ EndGone \/ EndFlow

Spec == Init /\ [][Next]_vars

\* The loop goes round whether or not a key is pressed.
FairSpec == Spec /\ WF_vars(EndGone)

-------------------------------------------------------------------------------
Secret == {"pages", "entry", "quiz"}
Opens(kind) == CASE kind = "pages" -> "reveal" [] kind = "question" -> "reveal" [] OTHER -> kind

Screens == [kind : {"standby", "refusal", "address", "prompt", "question", "passed"} \cup Secret,
            of : Ceremonies \cup {None}, page : Nat]

(* Every variable has its type; what is parked is a page of a prompt, and    *)
(* what a key goes to is a flow.                                             *)
TypeOK ==
  /\ asked \in [Ceremonies -> {"no", "yes", "cancelled"}]
  /\ parked = None \/ /\ parked.of \in Ceremonies
                      /\ parked.page \in 0..(PromptPages[parked.of] - 1)
  /\ shown \in Screens
  /\ flow = None \/ /\ flow \in Screens
                    /\ flow.kind \in Secret \cup {"question", "passed"}
  /\ {reveal, entry, check} \subseteq Ceremonies \cup {None}
  /\ recordPending \in BOOLEAN
  /\ seenPages \subseteq AllPages
  /\ sent \subseteq [type : {"answer", "recorded", "entered", "checked"}, of : Ceremonies]
  /\ agreed \subseteq Ceremonies

(* There is one question on the device at a time: a prompt waits for its     *)
(* digit or a flow for its keys, never both.                                 *)
OneQuestionAtATime == parked = None \/ flow = None

(* The flow that gets the keys is the one on the screen, and words of a      *)
(* backup are on the screen only while their flow gets the keys: whatever    *)
(* takes the screen takes the flow, and no way out of a flow leaves a word.  *)
SecretsAreAttended ==
  /\ flow # None => shown = flow
  /\ shown.kind \in Secret => flow = shown

(* Every grant, and every word on the screen, is for a ceremony whose own    *)
(* kind of prompt the user confirmed: a quiz never buys a reveal.            *)
GrantsAreConsented ==
  LET granted(c, kind) == c = None \/ (c \in agreed /\ Kind[c] = kind)
  IN /\ granted(reveal, "reveal") /\ granted(entry, "entry") /\ granted(check, "quiz")
     /\ shown.kind \in Secret => granted(shown.of, Opens(shown.kind))

(* The digit confirms a prompt only after each of its pages was on the       *)
(* screen, and nothing is answered without it.                               *)
ConfirmedIsRead ==
  /\ \A c \in agreed : read[c] = 0..(PromptPages[c] - 1)
  /\ \A a \in sent : a.of \in agreed

(* A backup is reported as written down only if every one of its pages was   *)
(* on the screen since this consent, whatever was paged, aborted, cancelled  *)
(* or asked before.                                                          *)
RecordedIsSeen ==
  \A a \in sent : a.type = "recorded" => looked[a.of] = AllPages

(* A cancelled entry or quiz leaves the screen without a key being pressed.  *)
CancelEndsTyping ==
  (shown.kind = "entry" /\ entry = None) \/ (shown.kind = "quiz" /\ check = None)
    ~> shown.kind \notin {"entry", "quiz"} \/ entry # None \/ check # None

(* lib.rs says of Cancel that a cancelled ceremony acks nothing at all.      *)
CancelledAcksNothing ==
  [][\A a \in sent' \ sent : asked[a.of] # "cancelled"]_vars
===============================================================================
