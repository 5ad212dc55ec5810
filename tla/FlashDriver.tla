---------------------------- MODULE FlashDriver ----------------------------
(***************************************************************************)
(* The driver of the internal flash (hal/src/flash.rs) over the controller *)
(* it programs: an operation runs in the array on its own and is only      *)
(* waited for, for a bounded time; an error it ends in stays latched in SR *)
(* until it is cleared.  Everything a call does to CR, SR and the array is *)
(* one step here per register it depends on.                               *)
(***************************************************************************)
EXTENDS Integers, Sequences

CONSTANTS Pages,       \* the pages of FLASH_FS that are used
          Words,       \* doublewords of a record
          MaxFaults    \* bound: operations that fail, hang or find CR locked

ASSUME FlashAssumption == Words \in Nat \ {0, 1} /\ MaxFaults \in Nat

VARIABLES cells,       \* what each doubleword holds
          op,          \* the operation the array works on
          latched,     \* an error bit of SR is set
          cr,          \* "locked", "open", or "armed" with PG or PER
          call,        \* the driver call under way: its phase and the operations it has left
          result,      \* of the last call: "none", "ok" or "refused"
          faults

flashVars == <<cells, op, latched, cr, call, result, faults>>

Erased == <<"erased", 0>>
Torn == <<"torn", 0>>        \* any bits that mean nothing to a reader
NoOp == [page |-> "none", word |-> 0, value |-> Erased]
Resting == [phase |-> "rest", todo |-> <<>>]

\* An erase covers the page; a program is one doubleword.
EraseOp(p) == [page |-> p, word |-> 0, value |-> Erased]
ProgramOps(p, first, values) ==
    [i \in 1..Len(values) |-> [page |-> p, word |-> first + i - 1, value |-> values[i]]]

FlashInit == /\ \E v \in {Erased, Torn} : cells = [p \in Pages |-> [w \in 1..Words |-> v]]
             /\ op = NoOp /\ latched = FALSE /\ cr = "locked"
             /\ call = Resting /\ result = "none" /\ faults = 0

-----------------------------------------------------------------------------
(* The array.                                                              *)

After(o, v) == [cells EXCEPT ![o.page] = [w \in 1..Words |->
                   IF o.word \in {0, w} THEN v ELSE @[w]]]

\* Programming what is not erased is PROGERR and leaves it as it was.
Complete == /\ op # NoOp /\ op' = NoOp
            /\ IF op.word > 0 /\ cells[op.page][op.word] # Erased
               THEN latched' = TRUE /\ UNCHANGED cells
               ELSE cells' = After(op, op.value) /\ UNCHANGED latched
            /\ UNCHANGED <<cr, call, result, faults>>

Fault == faults < MaxFaults /\ faults' = faults + 1

FailOp == /\ op # NoOp /\ Fault
          /\ op' = NoOp /\ latched' = TRUE
          /\ cells' \in {cells, After(op, Torn)}
          /\ UNCHANGED <<cr, call, result>>

\* A reset or a power cut ends the operation anywhere in it.
CutCells == IF op = NoOp THEN {cells} ELSE {cells, After(op, Torn), After(op, op.value)}

CutShort == /\ op' = NoOp /\ latched' = FALSE /\ cr' = "locked"
            /\ call' = Resting /\ result' = "none"

-----------------------------------------------------------------------------
(* The driver: NorFlash::erase and NorFlash::write.                        *)

Refused == /\ call' = Resting /\ result' = "refused" /\ cr' = "locked"

\* unlock: CR may stay locked.
Begin(ops) ==
    /\ call = Resting
    /\ \/ /\ call' = [phase |-> "prologue", todo |-> ops]
          /\ cr' = "open" /\ result' = "none" /\ UNCHANGED faults
       \/ Fault /\ Refused
    /\ UNCHANGED <<cells, op, latched>>

\* Mutant: the wait comes first, so a latched error is never cleared.
PrologueWaits == /\ call.phase = "prologue"
                 /\ call' = [call EXCEPT !.phase = "settle"]
                 /\ UNCHANGED <<cells, op, latched, cr, result, faults>>

(* sr_prologue: what is latched is cleared first, then the array is waited *)
(* for, by sr_wait_done with its bound.                                    *)
Prologue == /\ call.phase = "prologue"
            /\ latched' = FALSE
            /\ call' = [call EXCEPT !.phase = "settle"]
            /\ UNCHANGED <<cells, op, cr, result, faults>>

ArrayIdle == op = NoOp

Settle == /\ call.phase = "settle" /\ ArrayIdle
          /\ IF latched THEN Refused
             ELSE call' = [call EXCEPT !.phase = "start"] /\ UNCHANGED <<result, cr>>
          /\ UNCHANGED <<cells, op, latched, faults>>

Start == /\ call.phase = "start"
         /\ op' = Head(call.todo) /\ cr' = "armed"
         /\ call' = [call EXCEPT !.phase = "wait"]
         /\ UNCHANGED <<cells, latched, result, faults>>

\* PG or PER is cleared before the result of the wait is looked at.
WaitDone == /\ call.phase = "wait" /\ op = NoOp
            /\ \/ latched /\ Refused
               \/ /\ ~latched /\ Len(call.todo) = 1
                  /\ call' = Resting /\ result' = "ok" /\ cr' = "locked"
               \/ /\ ~latched /\ Len(call.todo) > 1
                  /\ call' = [phase |-> "prologue", todo |-> Tail(call.todo)]
                  /\ cr' = "open" /\ UNCHANGED result
            /\ UNCHANGED <<cells, op, latched, faults>>

\* FLASH_SPIN_LIMIT: the call is refused, the array works on.
SpinOut == /\ call.phase \in {"settle", "wait"} /\ op # NoOp /\ Fault /\ Refused
           /\ UNCHANGED <<cells, op, latched>>

DriverStep == Prologue \/ Settle \/ Start \/ WaitDone
FlashStep == Complete \/ FailOp \/ DriverStep \/ SpinOut
=============================================================================
