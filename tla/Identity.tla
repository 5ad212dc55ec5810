------------------------------ MODULE Identity ------------------------------
(***************************************************************************)
(* The device's key (hal/src/identity.rs): a record that is written once,  *)
(* its body first and its commit word last, and is read back before the    *)
(* key is used.  Anything but a vacant or a valid record is a hold.        *)
(***************************************************************************)
EXTENDS FlashDriver, FiniteSets

CONSTANTS Secrets,     \* what the entropy source draws, never the same twice
          MaxRots      \* bound: doublewords that lose their contents

ASSUME IdentityAssumption == "identity" \in Pages /\ MaxRots \in Nat

VARIABLES load,        \* where load_or_create stands
          secret,      \* what it generated, or read
          drawn,       \* the secrets drawn so far
          announced,   \* the secrets it ever returned
          rots

identityVars == <<load, secret, drawn, announced, rots>>

NoSecret == "none"
Commit == <<"commit", 0>>
TornOurs == <<"ours", 0>>    \* a commit word of which the domain half survives

Body(s) == [i \in 1..Words - 1 |-> <<s, i>>]
Record == cells["identity"]

IdentityInit == /\ load = "off" /\ secret = NoSecret
                /\ drawn = {} /\ announced = {} /\ rots = 0

\* The body is intact when its tag fits: it is some secret's, all of it.
IntactBodies == {s \in Secrets : \A i \in 1..Words - 1 : Record[i] = Body(s)[i]}

\* Mutant: a body with no commit word was never finished.
ClassifyLoose ==
    CASE Record[Words] = Commit /\ IntactBodies # {} -> "valid"
      [] Record[Words] = Commit /\ IntactBodies = {} -> "damaged"
      [] Record[Words] # Commit -> "vacant"

Classify ==
    CASE Record[Words] = Commit /\ IntactBodies # {} -> "valid"
      [] Record[Words] # Commit /\ Record[Words] # TornOurs /\ IntactBodies = {} -> "vacant"
      [] OTHER -> "damaged"

Read == /\ load = "read"
        /\ CASE Classify = "valid" -> /\ secret' \in IntactBodies /\ load' = "known"
                                      /\ announced' = announced \cup {secret'} /\ UNCHANGED drawn
             [] Classify = "damaged" -> load' = "damaged" /\ UNCHANGED <<secret, announced, drawn>>
             [] Classify = "vacant" -> /\ secret' \in Secrets \ drawn /\ load' = "erase"
                                       /\ drawn' = drawn \cup {secret'} /\ UNCHANGED announced
        /\ UNCHANGED <<flashVars, rots>>

\* GENERATE_ATTEMPTS draws, none of them a scalar.
NoScalar == /\ load = "read" /\ Classify = "vacant" /\ Fault
            /\ load' = "fault"
            /\ UNCHANGED <<cells, op, latched, cr, call, result, secret, drawn, announced, rots>>

\* Mutant: the commit word goes out before the body it commits.
CommitFirst == [erase |-> <<EraseOp("identity")>>,
                body |-> ProgramOps("identity", Words, <<Commit>>),
                commit |-> ProgramOps("identity", 1, Body(secret))]

Writes == [erase |-> <<EraseOp("identity")>>,
           body |-> ProgramOps("identity", 1, Body(secret)),
           commit |-> ProgramOps("identity", Words, <<Commit>>)]

Then == [erase |-> "body", body |-> "commit", commit |-> "verify"]

Write == /\ load \in DOMAIN Writes /\ result = "none"
         /\ Begin(Writes[load])
         /\ UNCHANGED identityVars

Wrote == /\ load \in DOMAIN Writes /\ result # "none"
         /\ load' = IF result = "ok" THEN Then[load] ELSE "fault"
         /\ result' = "none"
         /\ UNCHANGED <<cells, op, latched, cr, call, faults, secret, drawn, announced, rots>>

\* What is returned came off the flash.
Verify == /\ load = "verify"
          /\ IF Classify = "valid" /\ secret \in IntactBodies
             THEN load' = "known" /\ announced' = announced \cup {secret}
             ELSE load' = "fault" /\ UNCHANGED announced
          /\ UNCHANGED <<flashVars, secret, drawn, rots>>

\* A doubleword of the record decays while the device is off.
Decayed(c) == {c} \cup {[c EXCEPT !["identity"][w] = v] : w \in 1..Words, v \in {Torn, TornOurs}}

IdentityStep == Read \/ NoScalar \/ Write \/ Wrote \/ Verify

-----------------------------------------------------------------------------
(* A device that ever had an identity never takes another: not after a cut *)
(* or refused write, a late one, or the decay of a doubleword of the       *)
(* record.  (load_or_create and classify, identity.rs)                     *)
IdentityIsStable == Cardinality(announced) <= 1

(* A write that was cut inside the body leaves a record that the next boot *)
(* may write again: without decay, a record is only ever found damaged     *)
(* when its whole body is there.  (body first, commit word last)           *)
TornBodyIsVacant == load = "damaged" /\ rots = 0 => IntactBodies # {}
=============================================================================
