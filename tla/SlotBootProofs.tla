--------------------------- MODULE SlotBootProofs ---------------------------
(***************************************************************************)
(* Safety of the boot path for every MaxAttempts, every set of images,     *)
(* every partition table and every combination of faults, and the          *)
(* refinement of Probation when no otadata access fails.                   *)
(***************************************************************************)
EXTENDS SlotBoot, TLAPS

USE OtaAssumption, NoneAssumption, SlotBootAssumption

-----------------------------------------------------------------------------
(* The otadata operators on well-formed records.                           *)

\* What select_slot decides in each of its three cases: a Pending decision
\* charges exactly one attempt, a Rollback clears the candidate, and only
\* Stable leaves otadata alone.
LEMMA SelectSlotType ==
    ASSUME NEW d \in OtaData
    PROVE  LET a == select_slot(d)
           IN  /\ a.slot \in Slot
               /\ a.kind \in {"Stable", "Pending", "Rollback"}
               /\ a.kind = "Stable" =>
                     d.pending = None /\ a.new_state = None /\ a.slot = d.stable
               /\ a.kind = "Pending" =>
                     /\ d.pending # None
                     /\ a.slot = d.pending
                     /\ a.new_state \in OtaData
                     /\ a.new_state.stable = d.stable
                     /\ a.new_state.pending = d.pending
                     /\ a.new_state.boot_attempts = d.boot_attempts + 1
               /\ a.kind = "Rollback" =>
                     /\ d.pending # None
                     /\ d.boot_attempts = MaxAttempts
                     /\ a.slot = d.stable
                     /\ a.new_state \in OtaData
                     /\ a.new_state.stable = d.stable
                     /\ a.new_state.pending = None
                     /\ a.new_state.boot_attempts = 0
  <1>1. CASE d.pending = None
    BY <1>1 DEF select_slot, OtaData
  <1>2. CASE d.pending # None /\ d.boot_attempts < MaxAttempts
    BY <1>2 DEF select_slot, OtaData
  <1>3. CASE d.pending # None /\ ~(d.boot_attempts < MaxAttempts)
    BY <1>3 DEF select_slot, OtaData
  <1>4. QED
    BY <1>1, <1>2, <1>3

\* OtaData::fresh() is a well-formed record with nothing on probation.
LEMMA FreshType ==
    fresh \in OtaData /\ fresh.pending = None /\ fresh.stable = "A" /\ fresh.boot_attempts = 0
  BY DEF fresh, OtaData, Slot

\* Staging puts the other slot on probation with no attempts charged.
LEMMA StageType ==
    ASSUME NEW d \in OtaData, d.pending = None
    PROVE  /\ stage(d) \in OtaData
           /\ stage(d).stable = d.stable
           /\ stage(d).pending = Other(d.stable)
           /\ stage(d).boot_attempts = 0
  BY DEF stage, OtaData, Slot, Other

\* Confirming makes the slot on probation the stable one.
LEMMA MarkSucceededType ==
    ASSUME NEW d \in OtaData, d.pending # None
    PROVE  /\ mark_succeeded(d) \in OtaData
           /\ mark_succeeded(d).stable = d.pending
           /\ mark_succeeded(d).pending = None
           /\ mark_succeeded(d).boot_attempts = 0
  BY DEF mark_succeeded, OtaData, Slot

\* What the app takes for the otadata is always a well-formed record.
LEMMA CurrentType == TypeOK => Current \in OtaData
  BY FreshType DEF TypeOK, Current

-----------------------------------------------------------------------------
(* The invariant is inductive.                                             *)

\* Every device state the factory ships satisfies the invariant.
LEMMA InitIInv == Init => IInv
  <1> SUFFICES ASSUME Init PROVE IInv
    OBVIOUS
  <1>1. otadata \in OtaData \cup {None} /\ (otadata # None => otadata.pending = None)
    BY DEF Init, OtaData
  <1>2. image \in [Label -> Image]
    BY DEF Init
  <1>3. TypeOK
    <2>1. psram_up \in BOOLEAN /\ lost \in BOOLEAN
      BY Zenon DEF Init
    <2>2. runs \in Nat /\ missed \in 0..MaxMissed /\ unconfirmed \in SUBSET Slot
      BY DEF Init
    <2>3. /\ phase \in BootPhase
          /\ wdt \in {"rom", "timg1", "off"}
          /\ outcome \in Outcome
      BY DEF Init, BootPhase, Outcome
    <2>4. chosen_slot = None /\ persist = None /\ part = None /\ header = None
      BY DEF Init
    <2>5. QED
      BY <1>1, <1>2, <2>1, <2>2, <2>3, <2>4 DEF TypeOK
  <1>4. QED
    BY <1>1, <1>3 DEF Init, IInv, WdtInv, PickInv, CountInv, StableInv, VerifyInv,
       CountedBeforeRun, PickedPhase

\* A failed store leaves otadata as it was, or torn, and moves on to the lookup.
LEMMA StoreFailsStep == IInv /\ StoreFails => IInv'
  <1> SUFFICES ASSUME IInv, StoreFails PROVE IInv'
    OBVIOUS
  <1> USE DEF IInv, StoreFails, flash, locals
  <1>1. TypeOK'
    <2>1. missed' \in 0..MaxMissed
      BY DEF TypeOK
    <2>2. lost' \in BOOLEAN
      BY ZenonT(20) DEF TypeOK
    <2>3. QED
      BY <2>1, <2>2 DEF TypeOK, BootPhase, PickedPhase
  <1>2. WdtInv' /\ PickInv' /\ VerifyInv'
    <2>1. chosen_slot # None
      <3>1. CASE phase = "store"
        BY <3>1, SelectSlotType DEF TypeOK, PickInv
      <3>2. CASE phase = "program"
        BY <3>2 DEF PickInv
      <3>3. QED
        BY <3>1, <3>2
    <2>2. phase' = "lookup" /\ chosen_slot' = chosen_slot /\ wdt' = "off"
      BY DEF WdtInv
    <2>3. QED
      BY <2>1, <2>2 DEF WdtInv, PickInv, VerifyInv, PickedPhase
  <1>3. CountInv'
    <2>1. CASE phase = "store"
      BY <2>1, SelectSlotType DEF TypeOK, PickInv, CountInv, CountedBeforeRun, OtaData, PickedPhase
    <2>2. CASE phase = "program"
      BY <2>2 DEF TypeOK, PickInv, CountInv, CountedBeforeRun
    <2>3. QED
      BY <2>1, <2>2
  <1>4. StableInv'
    BY SelectSlotType DEF TypeOK, PickInv, StableInv, Logical, OutcomeOf, PickedPhase
  <1>5. QED
    BY <1>1, <1>2, <1>3, <1>4

\* Every step of main, of the app, of a watchdog or of the power supply
\* preserves the invariant.
LEMMA NextIInv == IInv /\ [Next]_vars => IInv'
  <1> SUFFICES ASSUME IInv, [Next]_vars PROVE IInv'
    OBVIOUS
  <1> USE DEF IInv, TypeOK, WdtInv, PickInv, CountInv, StableInv, VerifyInv,
              CountedBeforeRun, Logical, flash, chip, locals, history,
              BootPhase, PickedPhase
  <1>1. CASE BringUp
    BY <1>1 DEF BringUp
  <1>2. CASE InitPsram
    <2>1. psram_up' \in BOOLEAN
      BY <1>2 DEF InitPsram
    <2>2. QED
      BY <1>2, <2>1 DEF InitPsram
  <1>3. CASE LoadOtadata
    BY <1>3, FreshType, SelectSlotType DEF LoadOtadata, ApplyPolicy, OutcomeOf, Outcome
  <1>4. CASE LoadOtadataFails
    BY <1>4, FreshType, SelectSlotType
       DEF LoadOtadataFails, ApplyPolicy, OutcomeOf, Outcome, OtaData
  <1>5. CASE StoreErase
    BY <1>5, SelectSlotType DEF StoreErase, OutcomeOf, OtaData
  <1>6. CASE StoreProgram
    BY <1>6 DEF StoreProgram, OtaData
  <1>7. CASE StoreFails
    BY <1>7, StoreFailsStep
  <1>8. CASE Lookup
    BY <1>8 DEF Lookup, HeaderOk, label, Label
  <1>9. CASE LookupFails
    BY <1>9 DEF LookupFails, Stop
  <1>10. CASE FallBackToFactory
    BY <1>10 DEF FallBackToFactory, Label, Outcome
  <1>11. CASE NoBootableApp
    BY <1>11 DEF NoBootableApp, Stop
  <1>12. CASE ReadHeader
    BY <1>12 DEF ReadHeader, label, Label
  <1>13. CASE ReadHeaderFails
    BY <1>13 DEF ReadHeaderFails, Stop
  <1>14. CASE Verify
    BY <1>14 DEF Verify, Stop
  <1>15. CASE VerifyFails
    BY <1>15 DEF VerifyFails, Stop
  <1>16. CASE LoadSegments
    BY <1>16 DEF LoadSegments, Loadable, Stop
  <1>17. CASE LoadSegmentsFails
    BY <1>17 DEF LoadSegmentsFails, Stop
  <1>18. CASE LoadSegmentsTraps
    BY <1>18 DEF LoadSegmentsTraps, Stop
  <1>19. CASE HandOff
    BY <1>19 DEF HandOff, OnProbation, Loadable, label, OtaData, Slot
  <1>20. CASE Panic
    BY <1>20 DEF Panic, Stop
  <1>21. CASE Spin
    BY <1>21 DEF Spin, vars, Loadable, label, OutcomeOf
  <1>22. CASE AppWriteSlot
    BY <1>22, CurrentType
       DEF AppWriteSlot, AppRuns, Current, Loadable, Other, Slot, label, Label, OtaData
  <1>23. CASE AppStage
    BY <1>23, CurrentType, StageType
       DEF AppStage, AppRuns, Current, Loadable, Other, Slot, OtaData
  <1>24. CASE AppMarkSucceeded
    <2>1. /\ phase = "app" /\ otadata \in OtaData /\ otadata.pending # None
          /\ part = label(otadata.pending)
          /\ otadata' = mark_succeeded(otadata)
          /\ unconfirmed' = unconfirmed \ {otadata.pending}
          /\ UNCHANGED <<image, phase, wdt, psram_up, chosen_slot, outcome, persist, part,
                        header, runs, missed, lost>>
      BY <1>24 DEF AppMarkSucceeded, AppRuns, OnProbation
    <2>2. /\ otadata' \in OtaData /\ otadata' # None
          /\ otadata'.stable = otadata.pending /\ otadata'.pending = None
      BY <2>1, MarkSucceededType
    <2>3. TypeOK' /\ WdtInv' /\ PickInv'
      BY <2>1, <2>2 DEF label
    <2>4. VerifyInv'
      BY <2>1 DEF Loadable
    <2>5. CountInv'
      BY <2>1, <2>2
    <2>6. StableInv'
      <3>1. chosen_slot = otadata.pending
        BY <2>1 DEF label, Slot, OtaData
      <3>2. QED
        BY <2>1, <2>2, <3>1
    <2>7. QED
      BY <2>3, <2>4, <2>5, <2>6
  <1>25. CASE AppDisableWdt
    BY <1>25 DEF AppDisableWdt, AppRuns, Loadable
  <1>26. CASE AppReset
    BY <1>26 DEF AppReset, ResetChip, Outcome
  <1>27. CASE AppStoreTorn
    BY <1>27 DEF AppStoreTorn, AppRuns, ResetChip, Outcome
  <1>28. CASE PowerLoss
    BY <1>28 DEF PowerLoss, ResetChip, Outcome
  <1>29. CASE WdtFire
    BY <1>29 DEF WdtFire, ResetChip, Outcome
  <1>30. CASE UNCHANGED vars
    <2>1. TypeOK' /\ WdtInv' /\ VerifyInv'
      BY <1>30 DEF vars, Loadable
    <2>2. PickInv'
      BY <1>30 DEF vars
    <2>3. CountInv' /\ StableInv'
      BY <1>30 DEF vars
    <2>4. QED
      BY <2>1, <2>2, <2>3
  <1>31. QED
    BY <1>1, <1>2, <1>3, <1>4, <1>5, <1>6, <1>7, <1>8, <1>9, <1>10, <1>11, <1>12,
       <1>13, <1>14, <1>15, <1>16, <1>17, <1>18, <1>19, <1>20, <1>21, <1>22, <1>23,
       <1>24, <1>25, <1>26, <1>27, <1>28, <1>29, <1>30
       DEF Next, BootStep, AppStep

\* The inductive invariant holds throughout every behaviour.
THEOREM Invariance == Spec => []IInv
  BY InitIInv, NextIInv, PTL DEF Spec

\* Every variable of the boot path keeps its type; boot_attempts in particular
\* never leaves 0..MAX_BOOT_ATTEMPTS, so the u8 never wraps.
THEOREM TypeCorrect == Spec => []TypeOK
  <1>1. IInv => TypeOK
    BY DEF IInv
  <1>2. QED
    BY <1>1, Invariance, PTL

\* The slot on probation is never entered more often than it was charged for.
THEOREM ChargedBeforeRun == Spec => []CountedBeforeRun
  <1>1. IInv => CountedBeforeRun
    BY DEF IInv, CountInv
  <1>2. QED
    BY <1>1, Invariance, PTL

\* Unless otadata was torn, the stable slot and the target of a rollback hold
\* an image its own app confirmed, or one flashed at the factory.
THEOREM StableIsConfirmed == Spec => []ConfirmedUnlessOnProbation
  <1>1. IInv => ConfirmedUnlessOnProbation
    BY DEF IInv, StableInv, ConfirmedUnlessOnProbation
  <1>2. QED
    BY <1>1, Invariance, PTL

\* What runs has passed the header, digest and load checks of this boot.
THEOREM RunsOnlyVerified == Spec => []VerifiedWhenRunning
  <1>1. IInv => VerifiedWhenRunning
    BY DEF IInv, VerifyInv, VerifiedWhenRunning
  <1>2. QED
    BY <1>1, Invariance, PTL

-----------------------------------------------------------------------------
(* How a trial proceeds and ends, under every fault.                       *)

\* The hidden state maps to a well-formed record.
LEMMA LogicalType == IInv => Logical \in OtaData
  BY FreshType DEF IInv, TypeOK, PickInv, Logical

\* A step that leaves otadata alone and is not in the middle of a store changes
\* neither the stable slot nor the trial.
LEMMA LogicalStays ==
    ASSUME IInv, UNCHANGED otadata, otadata # None \/ (phase # "program" /\ phase' # "program")
    PROVE  Logical' = Logical
  BY DEF Logical, fresh

\* The store that pick asks for charges the trial or rolls it back, and nothing
\* has changed since the decision was taken.
LEMMA StoreIsDue == IInv /\ StoreErase => TrialEvent
  <1> SUFFICES ASSUME IInv, StoreErase PROVE TrialEvent
    OBVIOUS
  <1>1. /\ phase = "store" /\ phase' = "program" /\ otadata' = None /\ persist' = persist
        /\ otadata \in OtaData /\ otadata # None /\ otadata.pending # None
        /\ persist = select_slot(otadata).new_state
    BY DEF StoreErase, locals, IInv, TypeOK, PickInv
  <1>2. Logical = otadata /\ Logical' = select_slot(otadata).new_state
    BY <1>1 DEF Logical
  <1>3. CASE otadata.boot_attempts < MaxAttempts
    BY <1>1, <1>2, <1>3 DEF TrialEvent, select_slot
  <1>4. CASE ~(otadata.boot_attempts < MaxAttempts)
    <2>1. otadata.boot_attempts = MaxAttempts
      BY <1>1, <1>4 DEF OtaData
    <2>2. QED
      BY <1>1, <1>2, <1>4, <2>1 DEF TrialEvent, select_slot
  <1>5. QED
    BY <1>3, <1>4

\* Every other step leaves stable slot and trial alone, confirms the trial from
\* its own slot, stages an update, or is a store that was torn.
LEMMA TrialStep == IInv /\ [Next]_vars => (Logical' # Logical => TrialEvent)
  <1> SUFFICES ASSUME IInv, [Next]_vars, Logical' # Logical PROVE TrialEvent
    OBVIOUS
  <1> USE DEF flash, chip, locals, history
  <1>1. CASE BringUp \/ InitPsram
    BY <1>1, LogicalStays DEF BringUp, InitPsram
  <1>2. CASE LoadOtadata \/ LoadOtadataFails
    <2>1. phase = "pick" /\ phase' \in {"lookup", "store"} /\ UNCHANGED otadata
      BY <1>2 DEF LoadOtadata, LoadOtadataFails, ApplyPolicy
    <2>2. QED
      BY <2>1, LogicalStays
  <1>3. CASE StoreErase
    BY <1>3, StoreIsDue
  <1>4. CASE StoreProgram
    <2>1. Logical = persist /\ Logical' = persist
      BY <1>4 DEF StoreProgram, Logical, IInv, PickInv
    <2>2. QED
      BY <2>1
  <1>5. CASE StoreFails
    <2>1. CASE phase = "store"
      BY <1>5, <2>1, LogicalStays DEF StoreFails
    <2>2. CASE phase = "program"
      <3>1. otadata' = None /\ phase' = "lookup" /\ lost'
        BY <1>5, <2>2, Zenon DEF StoreFails, IInv, PickInv
      <3>2. Logical' = fresh
        BY <3>1 DEF Logical
      <3>3. QED
        BY <3>1, <3>2 DEF TrialEvent
    <2>3. QED
      BY <1>5, <2>1, <2>2 DEF StoreFails
  <1>6. CASE Lookup \/ LookupFails \/ FallBackToFactory \/ NoBootableApp
    BY <1>6, LogicalStays DEF Lookup, LookupFails, FallBackToFactory, NoBootableApp, Stop
  <1>7. CASE ReadHeader \/ ReadHeaderFails \/ Verify \/ VerifyFails
    BY <1>7, LogicalStays DEF ReadHeader, ReadHeaderFails, Verify, VerifyFails, Stop
  <1>8. CASE LoadSegments \/ LoadSegmentsFails \/ LoadSegmentsTraps \/ HandOff
    BY <1>8, LogicalStays DEF LoadSegments, LoadSegmentsFails, LoadSegmentsTraps, HandOff, Stop
  <1>9. CASE Panic
    BY <1>9, LogicalStays DEF Panic, Stop
  <1>10. CASE Spin \/ UNCHANGED vars
    BY <1>10 DEF Spin, vars, Logical, fresh
  <1>11. CASE AppWriteSlot \/ AppDisableWdt
    BY <1>11, LogicalStays DEF AppWriteSlot, AppDisableWdt, AppRuns
  <1>12. CASE AppStage
    <2>1. phase = "app" /\ Logical = Current /\ Current.pending = None
      BY <1>12 DEF AppStage, AppRuns, Logical, Current
    <2>2. otadata' = stage(Current) /\ otadata' # None
      BY <1>12, CurrentType, StageType DEF AppStage, IInv
    <2>3. Logical' = [stable |-> Current.stable, pending |-> Other(Current.stable),
                      boot_attempts |-> 0]
      BY <2>2 DEF Logical, stage
    <2>4. QED
      BY <2>1, <2>3 DEF TrialEvent
  <1>13. CASE AppMarkSucceeded
    <2>1. /\ phase = "app" /\ otadata \in OtaData /\ otadata # None /\ otadata.pending # None
          /\ part = label(otadata.pending) /\ otadata' = mark_succeeded(otadata)
      BY <1>13 DEF AppMarkSucceeded, AppRuns, OnProbation, IInv, TypeOK
    <2>2. otadata' # None
      BY <2>1, MarkSucceededType
    <2>3. Logical = otadata /\ Logical' = mark_succeeded(otadata)
      BY <2>1, <2>2 DEF Logical
    <2>4. QED
      BY <2>1, <2>3 DEF TrialEvent, mark_succeeded
  <1>14. CASE AppReset
    BY <1>14, LogicalStays DEF AppReset, ResetChip
  <1>15. CASE AppStoreTorn
    <2>1. otadata' = None /\ phase' = "rom" /\ lost'
      BY <1>15, Zenon DEF AppStoreTorn, ResetChip
    <2>2. Logical' = fresh
      BY <2>1 DEF Logical
    <2>3. QED
      BY <2>1, <2>2 DEF TrialEvent
  <1>16. CASE PowerLoss
    <2>1. CASE phase = "program"
      <3>1. otadata' = None /\ phase' = "rom" /\ lost'
        BY <1>16, <2>1, Zenon DEF PowerLoss, ResetChip, IInv, PickInv
      <3>2. Logical' = fresh
        BY <3>1 DEF Logical
      <3>3. QED
        BY <3>1, <3>2 DEF TrialEvent
    <2>2. CASE phase # "program"
      BY <1>16, <2>2, LogicalStays DEF PowerLoss, ResetChip
    <2>3. QED
      BY <2>1, <2>2
  <1>17. CASE WdtFire
    <2>1. phase # "program" /\ phase' = "rom" /\ UNCHANGED otadata
      BY <1>17 DEF WdtFire, ResetChip, IInv, WdtInv
    <2>2. QED
      BY <2>1, LogicalStays
  <1>18. QED
    BY <1>1, <1>2, <1>3, <1>4, <1>5, <1>6, <1>7, <1>8, <1>9, <1>10, <1>11, <1>12, <1>13,
       <1>14, <1>15, <1>16, <1>17 DEF Next, BootStep, AppStep

\* Whatever fails and wherever the device is reset, a trial ends by the
\* confirmation of the app that runs from its slot or when its attempts are used
\* up, or it is lost in a torn store (TrialsEndDuly).
THEOREM TrialsEnd == Spec => TrialsEndDuly
  <1>1. IInv /\ [Next]_vars => [Logical' # Logical => TrialEvent]_vars
    BY TrialStep
  <1>2. QED
    BY <1>1, Invariance, PTL DEF Spec, TrialsEndDuly

-----------------------------------------------------------------------------
(* SlotBoot implements Probation while otadata can be read and written.    *)

\* The strengthening for the refinement is inductive relative to IInv.
LEMMA NextProbationInv ==
    ASSUME OtadataWorks, IInv, IInv', ProbationInv, [Next]_vars
    PROVE  ProbationInv'
  <1> USE DEF IInv, TypeOK, WdtInv, PickInv, CountInv, ProbationInv, OnProbation, Logical,
              flash, chip, locals, history, BootPhase, PickedPhase
  <1>1. CASE LoadOtadata
    <2>1. /\ missed' = missed /\ otadata' = otadata
          /\ phase' \in {"lookup", "store"}
      BY <1>1 DEF LoadOtadata, ApplyPolicy
    <2>2. CASE phase' = "store"
      BY <2>1, <2>2
    <2>3. CASE phase' = "lookup"
      <3>1. CASE otadata = None
        BY <1>1, <2>1, <2>3, <3>1, FreshType, SelectSlotType DEF LoadOtadata, ApplyPolicy
      <3>2. CASE otadata # None
        BY <1>1, <2>1, <2>3, <3>2, SelectSlotType DEF LoadOtadata, ApplyPolicy
      <3>3. QED
        BY <3>1, <3>2
    <2>4. QED
      BY <2>1, <2>2, <2>3
  <1>2. CASE LoadOtadataFails
    BY <1>2 DEF LoadOtadataFails, Fault, OtadataWorks
  <1>3. CASE StoreErase
    BY <1>3, SelectSlotType DEF StoreErase
  <1>4. CASE StoreProgram
    BY <1>4 DEF StoreProgram
  <1>5. CASE StoreFails
    BY <1>5 DEF StoreFails, Fault, OtadataWorks
  <1>6. CASE Lookup \/ LookupFails \/ FallBackToFactory
    BY <1>6 DEF Lookup, LookupFails, FallBackToFactory, Stop
  <1>7. CASE BringUp \/ InitPsram \/ NoBootableApp
    BY <1>7 DEF BringUp, InitPsram, NoBootableApp, Stop
  <1>8. CASE ReadHeader \/ ReadHeaderFails \/ Verify \/ VerifyFails
    BY <1>8 DEF ReadHeader, ReadHeaderFails, Verify, VerifyFails, Stop
  <1>9. CASE LoadSegments \/ LoadSegmentsFails \/ LoadSegmentsTraps \/ Panic
    BY <1>9 DEF LoadSegments, LoadSegmentsFails, LoadSegmentsTraps, Panic, Stop
  <1>10. CASE HandOff
    BY <1>10 DEF HandOff
  <1>11. CASE Spin \/ UNCHANGED vars
    BY <1>11 DEF Spin, vars
  <1>12. CASE AppWriteSlot
    BY <1>12 DEF AppWriteSlot, AppRuns
  <1>13. CASE AppStage
    BY <1>13, CurrentType, StageType
       DEF AppStage, AppRuns, Current, Other, Slot, label, OtaData
  <1>14. CASE AppMarkSucceeded
    BY <1>14, MarkSucceededType DEF AppMarkSucceeded, AppRuns, label, Slot, OtaData
  <1>15. CASE AppDisableWdt
    BY <1>15 DEF AppDisableWdt, AppRuns
  <1>16. CASE AppReset \/ PowerLoss \/ WdtFire
    BY <1>16 DEF AppReset, PowerLoss, WdtFire, ResetChip
  <1>17. CASE AppStoreTorn
    BY <1>17 DEF AppStoreTorn, Fault, OtadataWorks
  <1>18. QED
    BY <1>1, <1>2, <1>3, <1>4, <1>5, <1>6, <1>7, <1>8, <1>9, <1>10, <1>11, <1>12, <1>13,
       <1>14, <1>15, <1>16, <1>17 DEF Next, BootStep, AppStep

\* Every step is a step of the protocol or invisible to it.
LEMMA StepSimulation ==
    ASSUME OtadataWorks, IInv, IInv', ProbationInv, [Next]_vars
    PROVE  [P!Next]_(P!pvars)
  <1> USE DEF IInv, TypeOK, PickInv, ProbationInv, Logical, flash, chip, locals, history,
              P!pvars
  <1>1. CASE LoadOtadata
    BY <1>1 DEF LoadOtadata, ApplyPolicy
  <1>2. CASE LoadOtadataFails
    BY <1>2 DEF LoadOtadataFails, Fault, OtadataWorks
  <1>3. CASE StoreErase
    <2>1. /\ Logical = otadata /\ otadata \in OtaData /\ otadata.pending # None
          /\ Logical' = persist /\ persist = select_slot(otadata).new_state
          /\ runs' = runs
      BY <1>3 DEF StoreErase
    <2>2. CASE select_slot(otadata).kind = "Pending"
      BY <2>1, <2>2, SelectSlotType DEF P!Next, P!Charge, OtaData
    <2>3. CASE select_slot(otadata).kind = "Rollback"
      BY <2>1, <2>3, SelectSlotType DEF P!Next, P!Revert
    <2>4. QED
      BY <2>1, <2>2, <2>3, SelectSlotType
  <1>4. CASE StoreProgram
    BY <1>4 DEF StoreProgram
  <1>5. CASE StoreFails
    BY <1>5 DEF StoreFails, Fault, OtadataWorks
  <1>6. CASE Lookup \/ LookupFails \/ FallBackToFactory
    BY <1>6 DEF Lookup, LookupFails, FallBackToFactory, Stop
  <1>7. CASE BringUp \/ InitPsram \/ NoBootableApp
    BY <1>7 DEF BringUp, InitPsram, NoBootableApp, Stop
  <1>8. CASE ReadHeader \/ ReadHeaderFails \/ Verify \/ VerifyFails
    BY <1>8 DEF ReadHeader, ReadHeaderFails, Verify, VerifyFails, Stop
  <1>9. CASE LoadSegments \/ LoadSegmentsFails \/ LoadSegmentsTraps \/ Panic
    BY <1>9 DEF LoadSegments, LoadSegmentsFails, LoadSegmentsTraps, Panic, Stop
  <1>10. CASE HandOff
    <2>1. CASE OnProbation(part)
      <3>1. otadata # None /\ Logical = otadata /\ Logical' = otadata /\ runs' = runs + 1
        BY <1>10, <2>1 DEF HandOff, OnProbation
      <3>2. chosen_slot = otadata.pending /\ otadata.pending # None
        BY <1>10, <2>1 DEF HandOff, OnProbation, label, Slot, OtaData
      <3>3. runs < otadata.boot_attempts
        BY <1>10, <3>1, <3>2 DEF HandOff, CountInv, PickedPhase, OtaData
      <3>4. QED
        BY <3>1, <3>2, <3>3 DEF P!Next, P!Run
    <2>2. CASE ~OnProbation(part)
      BY <1>10, <2>2 DEF HandOff
    <2>3. QED
      BY <2>1, <2>2
  <1>11. CASE Spin \/ UNCHANGED vars
    BY <1>11 DEF Spin, vars
  <1>12. CASE AppWriteSlot
    BY <1>12 DEF AppWriteSlot
  <1>13. CASE AppStage
    <2>1. /\ Logical = Current /\ Logical \in OtaData /\ Logical.pending = None
          /\ Logical' = stage(Logical) /\ runs' = 0
      BY <1>13, CurrentType, StageType DEF AppStage, AppRuns, Current
    <2>2. P!Stage(Other(Logical.stable))
      BY <2>1, StageType DEF P!Stage, Other, OtaData, Slot
    <2>3. QED
      BY <2>1, <2>2 DEF P!Next, Other, Slot
  <1>14. CASE AppMarkSucceeded
    <2>1. /\ Logical = otadata /\ otadata \in OtaData /\ otadata.pending # None
          /\ Logical' = mark_succeeded(otadata) /\ runs' = runs /\ runs > 0
      BY <1>14, MarkSucceededType DEF AppMarkSucceeded, AppRuns, OnProbation
    <2>2. QED
      BY <2>1, MarkSucceededType DEF P!Next, P!Confirm
  <1>15. CASE AppDisableWdt
    BY <1>15 DEF AppDisableWdt
  <1>16. CASE AppReset \/ PowerLoss \/ WdtFire
    BY <1>16 DEF AppReset, PowerLoss, WdtFire, ResetChip, Fault, OtadataWorks, WdtInv
  <1>17. CASE AppStoreTorn
    BY <1>17 DEF AppStoreTorn, Fault, OtadataWorks
  <1>18. QED
    BY <1>1, <1>2, <1>3, <1>4, <1>5, <1>6, <1>7, <1>8, <1>9, <1>10, <1>11, <1>12, <1>13,
       <1>14, <1>15, <1>16, <1>17 DEF Next, BootStep, AppStep

\* While otadata can be read and written, the boot path implements the
\* probation protocol, whatever else fails and wherever it is reset.
THEOREM BootImplementsProbation ==
    ASSUME OtadataWorks
    PROVE  Spec => ImplementsProbation
  <1>1. Init => P!Init
    <2> SUFFICES ASSUME Init PROVE P!Init
      OBVIOUS
    <2>1. runs = 0 /\ phase # "program"
      BY DEF Init
    <2>2. CASE otadata = None
      BY <2>1, <2>2, FreshType DEF P!Init, Logical, Slot
    <2>3. CASE otadata # None
      <3>1. PICK s \in Slot :
              otadata = [stable |-> s, pending |-> None, boot_attempts |-> 0]
        BY <2>3 DEF Init
      <3>2. Logical = otadata
        BY <2>3 DEF Logical
      <3>3. QED
        BY <2>1, <3>1, <3>2 DEF P!Init
    <2>4. QED
      BY <2>2, <2>3
  <1>2. Init => ProbationInv
    BY DEF Init, ProbationInv, PickedPhase
  <1>3. IInv /\ IInv' /\ ProbationInv /\ [Next]_vars => ProbationInv'
    BY OtadataWorks, NextProbationInv
  <1>4. IInv /\ IInv' /\ ProbationInv /\ [Next]_vars => [P!Next]_(P!pvars)
    BY OtadataWorks, StepSimulation
  <1>5. QED
    BY <1>1, <1>2, <1>3, <1>4, Invariance, PTL DEF Spec, ImplementsProbation, P!Spec
=============================================================================
