------------------------------- MODULE Keypad -------------------------------
(***************************************************************************)
(* The pad: a matrix of contacts without diodes, whose rows are driven one *)
(* at a time in an order shuffled for every scan, and the window of scans  *)
(* that decides what was pressed (hal/src/keypad.rs).  A key is its row    *)
(* and column; fingers move between any two readings.                      *)
(***************************************************************************)
EXTENDS Naturals, FiniteSets

CONSTANTS Rows, Cols,
          DebounceSamples   \* scans in a window

ASSUME KeypadAssumption == DebounceSamples \in Nat \ {0, 1}

VARIABLES closed,    \* the contacts that fingers hold closed
          left,      \* rows this scan has not read
          bitmap,    \* keys this scan has seen
          debounce,  \* the window: history, samples, multi
          event,     \* what the last window decided, until it is answered
          touched,   \* ghost: keys closed when their row was read in this scan
          held       \* ghost: keys closed in every scan of this window

padVars == <<closed, left, bitmap, debounce, event, touched, held>>

Keys == Rows \X Cols
Fresh == [history |-> [k \in Keys |-> 0], samples |-> 0, multi |-> FALSE]

Down(k) == [type |-> "down", key |-> k]
Outcome(type) == [type |-> type, key |-> <<>>]
Pending == Outcome("pending")

PadInit ==
    /\ closed = {} /\ left = Rows /\ bitmap = {} /\ touched = {} /\ held = Keys
    /\ debounce = Fresh
    /\ event = Pending

Press(k) == /\ k \in Keys \ closed
            /\ closed' = closed \cup {k}
            /\ UNCHANGED <<left, bitmap, debounce, event, touched, held>>

Release(k) == /\ k \in closed
              /\ closed' = closed \ {k}
              /\ UNCHANGED <<left, bitmap, debounce, event, touched, held>>

(* Driving row r pulls low each column that closed contacts join to it, by *)
(* way of other rows as well.                                              *)
Low(r) == {c \in Cols : \A R \in SUBSET Rows, C \in SUBSET Cols :
                          /\ r \in R
                          /\ \A k \in closed : k[1] \in R <=> k[2] \in C
                          => c \in C}

\* More than one contact in one scan may include one that nobody touches.
Several(keys) == \E j, k \in keys : j # k

Counted(bits) ==
    [history |-> [k \in Keys |-> debounce.history[k] + IF k \in bits THEN 1 ELSE 0],
     samples |-> debounce.samples + 1,
     multi   |-> debounce.multi \/ Several(bits)]

\* Mutant: a key seen in any scan of the window counts.
ConfirmedOnce(d) == {k \in Keys : d.history[k] >= 1}
Confirmed(d) == {k \in Keys : d.history[k] >= DebounceSamples}

Verdict(d) ==
    IF d.multi \/ Several(Confirmed(d)) THEN Outcome("multi")
    ELSE IF Confirmed(d) # {} THEN Down(CHOOSE k \in Confirmed(d) : TRUE)
    ELSE Outcome(IF \E k \in Keys : d.history[k] > 0 THEN "unsettled" ELSE "up")

\* Mutant: two contacts are remembered after their verdict.
MultiKept(d) == [Fresh EXCEPT !.multi = d.multi]
AfterVerdict(d) == Fresh

(* scan_once ends with `bits`: the window takes them and may be full.      *)
Push(bits, seen) ==
    LET next == Counted(bits)
    IN /\ IF next.samples < DebounceSamples
          THEN debounce' = next /\ event' = Pending
          ELSE debounce' = AfterVerdict(next) /\ event' = Verdict(next)
       /\ left' = Rows /\ bitmap' = {} /\ touched' = {}
       /\ held' = held \cap seen

(* One row of a scan.                                                      *)
ReadRow(r) ==
    LET bits == bitmap \cup {<<r, c>> : c \in Low(r)}
        seen == touched \cup {k \in closed : k[1] = r}
    IN /\ event = Pending /\ r \in left
       /\ IF left = {r}
          THEN Push(bits, seen)
          ELSE /\ left' = left \ {r} /\ bitmap' = bits /\ touched' = seen
               /\ UNCHANGED <<debounce, event, held>>
       /\ UNCHANGED closed

(* The event loop takes the verdict and, as long as something waits for a  *)
(* key, reads the pad again: whatever is still held is pressed once more.  *)
ReadAgain ==
    /\ event # Pending
    /\ event' = Pending
    /\ held' = Keys
    /\ UNCHANGED <<closed, left, bitmap, debounce, touched>>

PadStep == (\E r \in Rows : ReadRow(r)) \/ ReadAgain
PadNext == PadStep \/ \E k \in Keys : Press(k) \/ Release(k)

-------------------------------------------------------------------------------
(* A key is reported only if a finger held it in every scan of the window: *)
(* no bounce, no roll from key to key and no contact that others make up   *)
(* is taken for it, in whatever order the rows are read.  (keypad.rs,      *)
(* Event::Down and Event::MultiKey)                                        *)
ReportedWasHeld == \A k \in Keys : event = Down(k) => k \in held

(* A key that is held alone is reported, and for as long as it is held it  *)
(* is reported again: nothing in the code waits for its release.  (Keypad  *)
(* ::read_key; the test debounce_counters_saturate_rather_than_wrap)       *)
HeldIsReported == \A k \in Keys : <>[](closed = {k}) => []<>(event = Down(k))
=============================================================================
