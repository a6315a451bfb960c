---------------------------- MODULE SlotOutcome ----------------------------
(***************************************************************************)
(* What a node promises of its slots: a slot ends once, in a result or in  *)
(* a failure.  A result comes after the slot's plan is fixed and its       *)
(* shares are made, or with a plan that is empty; and only an ended slot   *)
(* gives way to a later one, which starts afresh.                          *)
(***************************************************************************)
EXTENDS Integers

CONSTANTS
    Slot,       \* slot numbers
    FirstSlot   \* the slot the node begins with

VARIABLES
    slot,       \* the active slot
    phase,      \* "prepared", "running", "completed" or "failed"
    started,    \* the node has tried to start the slot
    planned     \* "no", "planned", or "shared" once its shares are made

vars == <<slot, phase, started, planned>>

Ended == phase \in {"completed", "failed"}

Init ==
    /\ slot = FirstSlot
    /\ phase = "prepared"
    /\ started = FALSE
    /\ planned = "no"

\* Once.  The slot may have failed or, run by the others, ended before.
Start ==
    /\ ~started
    /\ started' = TRUE
    /\ phase' = IF Ended THEN phase ELSE "running"
    /\ UNCHANGED <<slot, planned>>

Fail ==
    /\ ~Ended
    /\ phase' = "failed"
    /\ UNCHANGED <<slot, started, planned>>

\* The plan is fixed once, and not in a slot that has ended ...
Plan ==
    /\ ~Ended
    /\ planned = "no"
    /\ planned' = "planned"
    /\ UNCHANGED <<slot, phase, started>>

\* ... and a slot with nothing to decrypt ends with it.
FinishEmpty ==
    /\ ~Ended
    /\ planned = "no"
    /\ planned' = "planned"
    /\ phase' = "completed"
    /\ UNCHANGED <<slot, started>>

\* The slot may have failed in the meantime.
Share ==
    /\ phase # "completed"
    /\ planned = "planned"
    /\ planned' = "shared"
    /\ UNCHANGED <<slot, phase, started>>

Complete ==
    /\ ~Ended
    /\ planned = "shared"
    /\ phase' = "completed"
    /\ UNCHANGED <<slot, started, planned>>

Replace(s) ==
    /\ Ended
    /\ s > slot
    /\ slot' = s
    /\ phase' = "prepared"
    /\ started' = FALSE
    /\ planned' = "no"

Next ==
    \/ Start
    \/ Fail
    \/ Plan
    \/ FinishEmpty
    \/ Share
    \/ Complete
    \/ \E s \in Slot : Replace(s)

Spec == Init /\ [][Next]_vars
=============================================================================
