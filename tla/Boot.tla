-------------------------------- MODULE Boot --------------------------------
(***************************************************************************)
(* The device from reset to reset (firmware/src/main.rs, hal/src/panic.rs, *)
(* hal/src/rng.rs): bring-up in a fixed order, each step of which may      *)
(* panic; the identity; the loop, which writes its stores; and the panic   *)
(* handler, which counts in backup registers that survive a reset, and     *)
(* tries DFU once the count says that resetting does not help.             *)
(***************************************************************************)
EXTENDS Identity

CONSTANTS Threshold,   \* PANIC_RESET_THRESHOLD
          CounterMax,  \* COUNTER_MAX, where a counter stays
          MaxResets    \* bound: panics and power cuts

ASSUME BootAssumption ==
    /\ "store" \in Pages
    /\ Threshold \in Nat \ {0} /\ CounterMax \in Nat /\ Threshold <= CounterMax
    /\ MaxResets \in Nat

VARIABLES stage,       \* where boot stands, or "panic"
          alive,       \* the backup domain can be read and written
          panics,      \* Counter::Panic
          rngFaults,   \* Counter::RngFault
          health,      \* the panics BootHealth::read saw in this boot
          cleared,     \* this boot has cleared Counter::Panic
          handler,     \* the step of the panic handler
          depth,       \* PANIC_DEPTH
          loaded,      \* the depth the handler read
          streak,      \* panics counted since a boot handled a packet
          resets

bootVars == <<stage, alive, panics, rngFaults, health, cleared, handler, depth, loaded,
              streak, resets>>
vars == <<flashVars, identityVars, bootVars>>

\* next_count and decode_counter: saturating, and a word without its tag is 0.
Bumped(n) == IF n < CounterMax THEN n + 1 ELSE n

\* A failed bump counts as past every threshold.
Count == IF alive THEN panics ELSE CounterMax
PastThreshold(n) == n >= Threshold
InResetLoop == alive /\ PastThreshold(health)

Init == /\ FlashInit /\ IdentityInit
        /\ stage = "entry" /\ alive \in BOOLEAN
        /\ panics = 0 /\ rngFaults = 0 /\ health = 0 /\ cleared = FALSE
        /\ handler = "none" /\ depth = 0 /\ loaded = 0
        /\ streak = 0 /\ resets = 0

-----------------------------------------------------------------------------
(* Bring-up.                                                               *)

\* Mutant: the counter is cleared where it is read.
ClearedAtEntry == /\ stage = "entry" /\ stage' = "usb"
                  /\ health' = panics /\ panics' = 0
                  /\ UNCHANGED <<flashVars, identityVars, alive, rngFaults, cleared, handler,
                                 depth, loaded, streak, resets>>

ReadHealth == /\ stage = "entry" /\ stage' = "usb"
              /\ health' = IF alive THEN panics ELSE 0
              /\ UNCHANGED <<flashVars, identityVars, alive, panics, rngFaults, cleared, handler,
                             depth, loaded, streak, resets>>

\* The upgrade key leaves for the listener, above everything that may fail.
Follows == [usb |-> {"key"}, key |-> {"listener", "entropy"}, flash |-> {"identity"},
            session |-> {"loop"}]

BringUp == /\ stage \in DOMAIN Follows /\ stage' \in Follows[stage]
           /\ load' = IF stage' = "identity" THEN "read" ELSE load
           /\ UNCHANGED <<flashVars, secret, drawn, announced, rots, alive, panics, rngFaults,
                          health, cleared, handler, depth, loaded, streak, resets>>

\* RngFault is cleared once entropy is proven, and bumped before the panic.
Entropy == /\ stage = "entropy"
           /\ \/ /\ stage' = "flash" /\ rngFaults' = IF alive THEN 0 ELSE rngFaults
                 /\ UNCHANGED <<handler, resets>>
              \/ /\ resets < MaxResets /\ resets' = resets + 1
                 /\ rngFaults' = IF alive THEN Bumped(rngFaults) ELSE rngFaults
                 /\ stage' = "panic" /\ handler' = "load"
           /\ UNCHANGED <<flashVars, identityVars, alive, panics, health, cleared, depth,
                          loaded, streak>>

Identify == /\ stage = "identity" /\ IdentityStep
            /\ UNCHANGED bootVars

Identified == /\ stage = "identity" /\ load \in {"known", "damaged", "fault"}
              /\ stage' = IF load = "known" THEN "session" ELSE "hold"
              /\ UNCHANGED <<flashVars, identityVars, alive, panics, rngFaults, health, cleared,
                             handler, depth, loaded, streak, resets>>

-----------------------------------------------------------------------------
(* The loop.                                                               *)

\* The first packet proves the loop healthy, but not past the threshold.
Packet == /\ stage = "loop"
          /\ streak' = 0
          /\ IF ~cleared /\ ~InResetLoop
             THEN cleared' = TRUE /\ panics' = IF alive THEN 0 ELSE panics
             ELSE UNCHANGED <<cleared, panics>>
          /\ UNCHANGED <<flashVars, identityVars, stage, alive, rngFaults, health, handler, depth,
                         loaded, resets>>

\* A store erases its page and programs it again.
Store == /\ stage = "loop"
         /\ Begin(IF \A w \in 1..Words : cells["store"][w] = Erased
                  THEN ProgramOps("store", 1, [w \in 1..Words |-> Torn])
                  ELSE <<EraseOp("store")>>)
         /\ UNCHANGED <<identityVars, bootVars>>

Flash == FlashStep /\ UNCHANGED <<identityVars, bootVars>>

-----------------------------------------------------------------------------
(* The panic handler.                                                      *)

Panic == /\ stage \in {"usb", "flash", "session", "loop"}
         /\ resets < MaxResets /\ resets' = resets + 1
         /\ stage' = "panic" /\ handler' = "load"
         /\ UNCHANGED <<flashVars, identityVars, alive, panics, rngFaults, health, cleared, depth,
                        loaded, streak>>

\* cpsid masks neither NMI nor HardFault: the handler may be entered again.
PanicAgain == /\ stage = "panic" /\ handler \in {"store", "bump", "act"}
              /\ resets < MaxResets /\ resets' = resets + 1
              /\ handler' = "load"
              /\ UNCHANGED <<flashVars, identityVars, stage, alive, panics, rngFaults, health,
                             cleared, depth, loaded, streak>>

LoadDepth == /\ handler = "load" /\ handler' = "store" /\ loaded' = depth
             /\ UNCHANGED <<flashVars, identityVars, stage, alive, panics, rngFaults, health,
                            cleared, depth, streak, resets>>

StoreDepth == /\ handler = "store" /\ handler' = "bump" /\ depth' = loaded + 1
              /\ UNCHANGED <<flashVars, identityVars, stage, alive, panics, rngFaults, health,
                             cleared, loaded, streak, resets>>

\* Only a first entry touches the registers.
BumpPanics == /\ handler = "bump" /\ handler' = "act"
              /\ IF loaded = 0
                 THEN /\ panics' = IF alive THEN Bumped(panics) ELSE panics
                      /\ streak' = Bumped(streak)
                 ELSE UNCHANGED <<panics, streak>>
              /\ UNCHANGED <<flashVars, identityVars, stage, alive, rngFaults, health, cleared,
                             depth, loaded, resets>>

TriesDfu == loaded = 0 /\ PastThreshold(Count)

Off == /\ load' = "off" /\ secret' = NoSecret
       /\ health' = 0 /\ cleared' = FALSE /\ handler' = "none" /\ depth' = 0 /\ loaded' = 0
       /\ UNCHANGED <<drawn, announced, faults, alive>>

\* try_enter_dfu returns on a locked device; system_reset follows.
Act == /\ handler = "act"
       /\ stage' \in {"entry"} \cup IF TriesDfu THEN {"dfu"} ELSE {}
       /\ cells' \in CutCells /\ CutShort /\ Off
       /\ UNCHANGED <<panics, rngFaults, streak, rots, resets>>

\* Without power the backup registers may lose their tags too.
PowerCut == /\ resets < MaxResets /\ resets' = resets + 1
            /\ stage' = "entry"
            /\ cells' \in UNION {IF rots < MaxRots THEN Decayed(c) ELSE {c} : c \in CutCells}
            /\ rots' = IF cells' \in CutCells THEN rots ELSE rots + 1
            /\ CutShort /\ Off
            /\ \/ panics' = 0 /\ rngFaults' = 0 /\ streak' = 0
               \/ UNCHANGED <<panics, rngFaults, streak>>

Handle == LoadDepth \/ StoreDepth \/ BumpPanics \/ Act
Boot == ReadHealth \/ BringUp \/ Entropy \/ Identify \/ Identified

Next == Boot \/ Packet \/ Store \/ Flash \/ Panic \/ PanicAgain \/ Handle \/ PowerCut

\* The processor runs, the array finishes what it started, the loop stores.
Array == Complete /\ UNCHANGED <<identityVars, bootVars>>
Driver == DriverStep /\ UNCHANGED <<identityVars, bootVars>>

Spec == /\ Init /\ [][Next]_vars
        /\ WF_vars(Boot) /\ WF_vars(Handle) /\ WF_vars(Store) /\ WF_vars(Array) /\ WF_vars(Driver)

-----------------------------------------------------------------------------
(* No operation is started while the array still works on one, not even    *)
(* after a wait that was given up; and CR is armed by a call only.         *)
(* (sr_prologue before every operation, flash.rs)                          *)
OperationsAreAlone == [][op' # op => (op = NoOp \/ op' = NoOp)]_vars

(* A device that panics the threshold's number of times without handling   *)
(* a packet in between tries DFU, unless power was lost or its handler was *)
(* entered again.  (boot_sequencing and panic_action, panic.rs)            *)
PanicsAccumulate == handler = "act" /\ loaded = 0 /\ streak >= Threshold => TriesDfu

(* One failed operation does not wedge the driver: as long as the loop     *)
(* runs, some store goes through again.  (the clear in sr_prologue)        *)
NotWedged == []<>(stage # "loop" \/ result = "ok")
=============================================================================
