----------------------------- MODULE Probation -----------------------------
(***************************************************************************)
(* What the A/B slots promise, without flash, phases or resets: a staged   *)
(* candidate is charged for a try before it runs, has MaxTries of them,    *)
(* becomes stable only after it ran, and is dropped only when all of its   *)
(* tries have been charged.                                                *)
(***************************************************************************)
EXTENDS Naturals

CONSTANTS Slots, MaxTries, NoSlot

VARIABLES stable, candidate, tries, runs

pvars == <<stable, candidate, tries, runs>>

Init ==
    /\ stable \in Slots
    /\ candidate = NoSlot
    /\ tries = 0
    /\ runs = 0

Stage(s) ==
    /\ candidate = NoSlot
    /\ s # stable
    /\ candidate' = s
    /\ tries' = 0
    /\ runs' = 0
    /\ UNCHANGED stable

Charge ==
    /\ candidate # NoSlot
    /\ tries < MaxTries
    /\ tries' = tries + 1
    /\ UNCHANGED <<stable, candidate, runs>>

Run ==
    /\ candidate # NoSlot
    /\ runs < tries
    /\ runs' = runs + 1
    /\ UNCHANGED <<stable, candidate, tries>>

Confirm ==
    /\ candidate # NoSlot
    /\ runs > 0
    /\ stable' = candidate
    /\ candidate' = NoSlot
    /\ tries' = 0
    /\ UNCHANGED runs

Revert ==
    /\ candidate # NoSlot
    /\ tries = MaxTries
    /\ candidate' = NoSlot
    /\ tries' = 0
    /\ UNCHANGED <<stable, runs>>

Next == (\E s \in Slots : Stage(s)) \/ Charge \/ Run \/ Confirm \/ Revert

Spec == Init /\ [][Next]_pvars
=============================================================================
