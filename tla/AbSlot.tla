-------------------------------- MODULE AbSlot --------------------------------
(* AbSlot of frostsnap_embedded::ab_write, one flash operation at a time.    *)
(*                                                                           *)
(* try_write erases and programs the older copy, then the other one.  Each   *)
(* copy takes three flash operations: erase, the first doubleword (which     *)
(* carries the index), the rest of the body.  Any operation may be refused,  *)
(* in which case the copy holds what it held before or after that operation, *)
(* and power may be cut between operations.                                  *)
EXTENDS AbFormat

CONSTANT Values

ASSUME ValuesAssumption == None \notin Values

VARIABLES slots,     \* the two copies on flash
          pc,        \* the flash operation try_write performs next, or "idle"
          job,       \* the write in progress
          outcome,   \* what the last completed or cut call reported
          before,    \* ghost: slots when the write in progress was called
          live,      \* ghost: value of the last write reported as committed
          tried      \* ghost: values of later writes not reported as such

writeVars == <<slots, pc, job, outcome, before, live, tried>>

Steps == {"erase", "index", "body"}
Outcomes == {"none", "committed", "single_copy", "not_committed", "crash"}

NoJob == [copy |-> 0, index |-> 0, value |-> None, second |-> FALSE]

\* Two slots, both erased, nothing in progress.
WriteInit == /\ slots = Blank
        /\ pc = "idle"
        /\ job = NoJob
        /\ outcome = "none"
        /\ before = slots
        /\ live = None
        /\ tried = {}

\* try_write up to the first flash operation.
Begin(v) ==
  /\ pc = "idle"
  /\ before' = slots
  /\ IF Exhausted(slots)
     THEN /\ outcome' = "not_committed"
          /\ UNCHANGED <<slots, pc, job, live, tried>>
     ELSE /\ pc' = "erase"
          /\ job' = [copy |-> FirstCopy(slots), index |-> NextIndex(slots),
                     value |-> v, second |-> FALSE]
          /\ tried' = tried \cup {v}
          /\ UNCHANGED <<slots, outcome, live>>

\* The content of the copy being written after the current operation succeeds.
Done == CASE pc = "erase" -> Erased
          [] pc = "index" -> Partial(job.index)
          [] pc = "body"  -> Whole(job.index, job.value)

Finish(result) ==
  /\ pc' = "idle"
  /\ outcome' = result
  /\ job' = NoJob
  /\ IF result \in {"committed", "single_copy"}
     THEN live' = job.value /\ tried' = {}
     ELSE UNCHANGED <<live, tried>>

\* erase_all, then the first doubleword, succeed.
Advance ==
  /\ pc \in {"erase", "index"}
  /\ slots' = [slots EXCEPT ![job.copy] = Done]
  /\ pc' = IF pc = "erase" THEN "index" ELSE "body"
  /\ UNCHANGED <<job, outcome, before, live, tried>>

\* Mutant: one complete copy is reported as both.
OneCopyIsEnough ==
  /\ pc = "body" /\ ~job.second
  /\ slots' = [slots EXCEPT ![job.copy] = Done]
  /\ Finish("committed")
  /\ UNCHANGED before

\* The first copy is complete: start on the other one.
FirstCopyWritten ==
  /\ pc = "body" /\ ~job.second
  /\ slots' = [slots EXCEPT ![job.copy] = Done]
  /\ pc' = "erase"
  /\ job' = [job EXCEPT !.copy = 1 - @, !.second = TRUE]
  /\ UNCHANGED <<outcome, before, live, tried>>

\* Both copies are complete.
SecondCopyWritten ==
  /\ pc = "body" /\ job.second
  /\ slots' = [slots EXCEPT ![job.copy] = Done]
  /\ Finish("committed")
  /\ UNCHANGED before

\* The flash refuses an operation: Slot::try_write returns early.
StepRefused ==
  /\ pc # "idle"
  /\ \E s \in {slots[job.copy], Done} : slots' = [slots EXCEPT ![job.copy] = s]
  /\ Finish(IF job.second THEN "single_copy" ELSE "not_committed")
  /\ UNCHANGED before

\* Power is cut between two flash operations; the caller learns nothing.
PowerCut ==
  /\ pc # "idle"
  /\ Finish("crash")
  /\ UNCHANGED <<slots, before>>

Step == Advance \/ FirstCopyWritten \/ SecondCopyWritten \/ StepRefused

WriteNext == (\E v \in Values : Begin(v)) \/ Step \/ PowerCut

WriteSpec == WriteInit /\ [][WriteNext]_writeVars

-------------------------------------------------------------------------------
WriteTypeOK ==
  /\ slots \in [Copies -> SlotOver(Values)]
  /\ before \in [Copies -> SlotOver(Values)]
  /\ pc \in Steps \cup {"idle"}
  /\ job \in [copy : Copies, index : 0..(EmptyIndex - 1),
              value : Values \cup {None}, second : BOOLEAN]
  /\ outcome \in Outcomes
  /\ live \in Values \cup {None}
  /\ tried \in SUBSET Values

(* Two complete copies with one index are copies of one write, whatever was  *)
(* refused or cut before: current_slot_and_index may pick either of a tie.   *)
TiedCopiesAgree ==
  (/\ slots[0].index = slots[1].index
   /\ slots[0].body # None /\ slots[1].body # None)
     => slots[0].body = slots[1].body

(* A write reported Committed is what the next read returns, until another   *)
(* write is called.                                                          *)
CommittedIsRead ==
  (pc = "idle" /\ outcome = "committed" /\ tried = {}) => AbRead(slots) = live

(* At every instant, a power cut included, a read yields the last committed  *)
(* value, the value of a later write, or nothing: never an older value.      *)
NeverStale == AbRead(slots) \in {live, None} \cup tried

(* The index that read and write select by never falls back, so no index is  *)
(* handed out twice (nonce state is ordered by it).                          *)
IndexNeverFallsBack == [][CurrentIndex(slots') >= CurrentIndex(slots)]_writeVars

(* AbWriteOutcome::NotCommitted documents "the previous value is still       *)
(* current and readable".                                                    *)
NotCommittedKeepsPrevious ==
  (pc = "idle" /\ outcome = "not_committed") => AbRead(slots) = AbRead(before)

(* The caller's view: a write is one step with one of the results that       *)
(* WriteResults lists.                                                       *)
Register == INSTANCE AbRegister
              WITH slots <- IF pc = "idle" THEN slots ELSE before

WritesAreAtomicToTheCaller == Register!Spec
===============================================================================
