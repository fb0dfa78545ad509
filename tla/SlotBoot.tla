------------------------------ MODULE SlotBoot ------------------------------
(***************************************************************************)
(* The boot path of the mini-bootloader across resets: main() of           *)
(* src/main.rs with slot_select::pick inlined, the app it hands over to    *)
(* (external), the TIMG1 watchdog and power loss.  One action is one step  *)
(* of main after which a reset can find flash or the watchdog in a         *)
(* different state.  The crash-dump, boot-history and bootstat steps of    *)
(* main touch other sectors and none of this state.                        *)
(***************************************************************************)
EXTENDS Ota

CONSTANTS
    Table,      \* labels the partition table resolves (see PartitionWalk)
    Images,     \* the images a flash partition may hold
    Faults,     \* the faults the environment may inject
    MaxMissed   \* bound: charges to the candidate that may fail to reach flash

Label == {"ota_0", "ota_1", "factory"}

(***************************************************************************)
(* What the boot path can tell apart in a partition: the header magic,     *)
(* the appended digest, whether the segment list is loadable and needs     *)
(* PSRAM (AppImage models those two in detail), and whether the app, once  *)
(* running, feeds the watchdog and confirms itself or hangs.               *)
(***************************************************************************)
Image == [magic : BOOLEAN, hash : {"none", "match", "mismatch"},
          segs : {"sram", "psram", "bad"}, app : {"healthy", "hangs"}]

FaultKind == {"power",    \* power loss or external reset at any point
              "torn",     \* a store cut between erase and program
              "store",    \* store_to_flash reports an error
              "otaread",  \* reading otadata reports an error
              "imgread",  \* reading the partition table or an image does
              "psram",    \* psram::init fails
              "panic"}    \* the bootloader panics

ASSUME SlotBootAssumption ==
    /\ Table \subseteq Label
    /\ Images # {}
    /\ Images \subseteq Image
    /\ Faults \subseteq FaultKind
    /\ MaxMissed \in Nat
    /\ None \notin Label
    /\ None \notin Image

VARIABLES
    otadata,        \* flash: the otadata sector, None when it does not decode
    image,          \* flash: the image behind each label
    phase,          \* the step of main() to run next, or who is running
    wdt,            \* the watchdog that is counting: "rom", "timg1" or "off"
    psram_up,       \* psram::init succeeded in this boot
    chosen_slot,    \* local of pick
    outcome,        \* local of pick, the SelectionOutcome
    persist,        \* local of pick, the otadata still to be stored
    part,           \* main's `chosen`: the label of the partition to boot
    header,         \* main's `header`: the image read from part
    \* History variables: what the properties talk about, read by no guard
    \* except the MaxMissed bound.
    runs,           \* jumps into the slot on probation since it was staged
    missed,         \* charges since then that did not reach flash
    unconfirmed,    \* slots written and not confirmed by their own app since
    lost            \* an otadata store was torn at some time

flash == <<otadata, image>>
chip == <<phase, wdt, psram_up>>
locals == <<chosen_slot, outcome, persist, part, header>>
history == <<runs, missed, unconfirmed, lost>>
vars == <<flash, chip, locals, history>>

Outcome == {"none", "OtaStable", "OtaPending", "OtaRollback",
            "FactoryFallback", "OtaFresh"}

PickedPhase == {"lookup", "factory", "header", "verify", "load", "handoff"}

BootPhase == {"rom", "psram", "pick", "store", "program"} \cup PickedPhase

\* Flash, chip and locals of main keep their types; in particular the u8
\* boot_attempts of every otadata pick stores stays within MAX_BOOT_ATTEMPTS.
TypeOK ==
    /\ otadata \in OtaData \cup {None}
    /\ image \in [Label -> Image]
    /\ phase \in BootPhase \cup {"app", "heartbeat", "halted"}
    /\ wdt \in {"rom", "timg1", "off"}
    /\ psram_up \in BOOLEAN
    /\ chosen_slot \in Slot \cup {None}
    /\ outcome \in Outcome
    /\ persist \in OtaData \cup {None}
    /\ part \in Label \cup {None}
    /\ header \in Image \cup {None}
    /\ runs \in Nat
    /\ missed \in 0..MaxMissed
    /\ unconfirmed \in SUBSET Slot
    /\ lost \in BOOLEAN

Fault(f) == f \in Faults

(***************************************************************************)
(* A device leaves the factory blank in otadata or provisioned with a      *)
(* stable slot; whatever is in the slots was flashed over serial.          *)
(***************************************************************************)
Init ==
    /\ otadata \in {None} \cup
                   {[stable |-> s, pending |-> None, boot_attempts |-> 0] : s \in Slot}
    /\ image \in [Label -> Images]
    /\ phase = "rom"
    /\ wdt = "rom"
    /\ psram_up = FALSE
    /\ chosen_slot = None
    /\ outcome = "none"
    /\ persist = None
    /\ part = None
    /\ header = None
    /\ runs = 0
    /\ missed = 0
    /\ unconfirmed = {}
    /\ lost = FALSE

-----------------------------------------------------------------------------
(***************************************************************************)
(* Resets.  Flash survives, everything in RAM is gone, and the ROM starts  *)
(* its own watchdog before it loads us.                                    *)
(***************************************************************************)
ResetChip ==
    /\ phase' = "rom"
    /\ wdt' = "rom"
    /\ psram_up' = FALSE
    /\ chosen_slot' = None
    /\ outcome' = "none"
    /\ persist' = None
    /\ part' = None
    /\ header' = None

\* A cut between erase and program leaves a sector that does not decode.
PowerLoss ==
    /\ Fault("power")
    /\ phase = "program" => Fault("torn")
    /\ ResetChip
    /\ lost' = (lost \/ phase = "program")
    /\ UNCHANGED <<flash, runs, missed, unconfirmed>>

\* An armed watchdog nobody feeds; a healthy app may also be starved of time.
WdtFire ==
    /\ wdt # "off"
    /\ phase # "rom"
    /\ ResetChip
    /\ UNCHANGED <<flash, history>>

-----------------------------------------------------------------------------
(***************************************************************************)
(* main(), up to the slot selection.                                       *)
(***************************************************************************)
BringUp ==
    /\ phase = "rom"
    /\ wdt' = "off"
    /\ phase' = "psram"
    /\ UNCHANGED <<psram_up, flash, locals, history>>

\* PSRAM failure is reported and ignored.
InitPsram ==
    /\ phase = "psram"
    /\ \/ psram_up' = TRUE
       \/ Fault("psram") /\ psram_up' = FALSE
    /\ phase' = "pick"
    /\ UNCHANGED <<wdt, flash, locals, history>>

(***************************************************************************)
(* pick, steps 1 and 2: decode otadata, run the policy, and go on to the   *)
(* store if the policy returned a new state.                               *)
(***************************************************************************)
OutcomeOf(kind, decoded_ok) ==
    CASE kind = "Stable"   -> IF decoded_ok THEN "OtaStable" ELSE "OtaFresh"
      [] kind = "Pending"  -> "OtaPending"
      [] kind = "Rollback" -> "OtaRollback"

ApplyPolicyNoStore(state, decoded_ok) ==    \* mutant: new_state is dropped
    LET action == select_slot(state)
    IN  /\ chosen_slot' = action.slot
        /\ outcome' = OutcomeOf(action.kind, decoded_ok)
        /\ persist' = None
        /\ phase' = "lookup"
        /\ UNCHANGED <<wdt, psram_up, flash, part, header, runs, unconfirmed, lost>>

ApplyPolicyFromTo(state, decoded_ok) ==     \* mutant: Rollback boots `from`
    LET action == select_slot(state)
    IN  /\ chosen_slot' = IF action.kind = "Rollback" THEN state.pending ELSE action.slot
        /\ outcome' = OutcomeOf(action.kind, decoded_ok)
        /\ persist' = action.new_state
        /\ phase' = IF action.new_state = None THEN "lookup" ELSE "store"
        /\ UNCHANGED <<wdt, psram_up, flash, part, header, runs, unconfirmed, lost>>

ApplyPolicyOneMore(state, decoded_ok) ==    \* mutant: passes MAX_BOOT_ATTEMPTS + 1
    LET action == IF state.pending # None /\ state.boot_attempts = MaxAttempts
                  THEN [kind |-> "Pending", slot |-> state.pending,
                        new_state |-> [state EXCEPT !.boot_attempts = @ + 1]]
                  ELSE select_slot(state)
    IN  /\ chosen_slot' = action.slot
        /\ outcome' = OutcomeOf(action.kind, decoded_ok)
        /\ persist' = action.new_state
        /\ phase' = IF action.new_state = None THEN "lookup" ELSE "store"
        /\ UNCHANGED <<wdt, psram_up, flash, part, header, runs, unconfirmed, lost>>

ApplyPolicy(state, decoded_ok) ==
    LET action == select_slot(state)
    IN  /\ chosen_slot' = action.slot
        /\ outcome' = OutcomeOf(action.kind, decoded_ok)
        /\ persist' = action.new_state
        /\ phase' = IF action.new_state = None THEN "lookup" ELSE "store"
        /\ UNCHANGED <<wdt, psram_up, flash, part, header, runs, unconfirmed, lost>>

LoadOtadata ==
    /\ phase = "pick"
    /\ IF otadata = None THEN ApplyPolicy(fresh, FALSE) ELSE ApplyPolicy(otadata, TRUE)
    /\ UNCHANGED missed

LoadOtadataRepairs ==       \* mutant: what does not read is rewritten
    /\ phase = "pick"
    /\ Fault("otaread")
    /\ missed < MaxMissed
    /\ missed' = missed + 1
    /\ chosen_slot' = fresh.stable
    /\ outcome' = "OtaFresh"
    /\ persist' = fresh
    /\ phase' = IF otadata = None THEN "lookup" ELSE "store"
    /\ UNCHANGED <<wdt, psram_up, flash, part, header, runs, unconfirmed, lost>>

\* A read error is treated like a blank sector: this boot is not charged.
LoadOtadataFails ==
    /\ phase = "pick"
    /\ Fault("otaread")
    /\ otadata # None
    /\ missed < MaxMissed
    /\ ApplyPolicy(fresh, FALSE)
    /\ missed' = missed + 1

(***************************************************************************)
(* pick, the store.  store_to_flash rewrites one flash sector: erase, then *)
(* program.  Without "torn" in Faults the pair is taken to be atomic.      *)
(***************************************************************************)
StoreErase ==
    /\ phase = "store"
    /\ otadata' = None
    /\ phase' = "program"
    /\ UNCHANGED <<image, wdt, psram_up, locals, history>>

StoreProgram ==
    /\ phase = "program"
    /\ otadata' = persist
    /\ phase' = "lookup"
    /\ UNCHANGED <<image, wdt, psram_up, locals, history>>

\* store_to_flash returned an error: log it and boot the chosen slot anyway.
StoreFails ==
    /\ \/ /\ phase = "store"
          /\ Fault("store")
          /\ missed < MaxMissed
          /\ missed' = missed + 1
          /\ UNCHANGED lost
       \/ /\ phase = "program"
          /\ Fault("store") /\ Fault("torn")
          /\ lost' = TRUE
          /\ UNCHANGED missed
    /\ phase' = "lookup"
    /\ UNCHANGED <<flash, wdt, psram_up, locals, runs, unconfirmed>>

-----------------------------------------------------------------------------
(***************************************************************************)
(* pick, steps 3 to 5: resolve the label, check the header magic, fall     *)
(* back to factory.  A read error counts as a bad header.                  *)
(***************************************************************************)
HeaderOk(l) == l \in Table /\ image[l].magic

Stop(where) ==
    /\ phase' = where
    /\ UNCHANGED <<wdt, psram_up, flash, locals, history>>

Lookup ==
    /\ phase = "lookup"
    /\ HeaderOk(label(chosen_slot))
    /\ part' = label(chosen_slot)
    /\ phase' = "header"
    /\ UNCHANGED <<wdt, psram_up, flash, chosen_slot, outcome, persist, header, history>>

LookupFails ==
    /\ phase = "lookup"
    /\ ~HeaderOk(label(chosen_slot)) \/ Fault("imgread")
    /\ Stop("factory")

FallBackToFactory ==
    /\ phase = "factory"
    /\ HeaderOk("factory")
    /\ part' = "factory"
    /\ outcome' = "FactoryFallback"
    /\ phase' = "header"
    /\ UNCHANGED <<wdt, psram_up, flash, chosen_slot, persist, header, history>>

NoBootableApp ==
    /\ phase = "factory"
    /\ ~HeaderOk("factory") \/ Fault("imgread")
    /\ Stop("heartbeat")

(***************************************************************************)
(* main(), phases 4 and 5: read the header again, verify, load, hand off.  *)
(***************************************************************************)
ReadHeader ==
    /\ phase = "header"
    /\ image[part].magic
    /\ header' = image[part]
    /\ phase' = "verify"
    /\ UNCHANGED <<wdt, psram_up, flash, chosen_slot, outcome, persist, part, history>>

ReadHeaderFails ==
    /\ phase = "header"
    /\ ~image[part].magic \/ Fault("imgread")
    /\ Stop("heartbeat")

VerifyNothing ==    \* mutant: a mismatch is logged and the boot goes on
    /\ phase = "verify"
    /\ Stop("load")

Verify ==
    /\ phase = "verify"
    /\ header.hash # "mismatch"
    /\ Stop("load")

VerifyFails ==
    /\ phase = "verify"
    /\ header.hash # "none"
    /\ header.hash = "mismatch" \/ Fault("imgread")
    /\ Stop("heartbeat")

Loadable(h) == h.segs = "sram" \/ (h.segs = "psram" /\ psram_up)

LoadSegments ==
    /\ phase = "load"
    /\ Loadable(header)
    /\ Stop("handoff")

LoadSegmentsFails ==
    /\ phase = "load"
    /\ header.segs = "bad" \/ Fault("imgread")
    /\ Stop("heartbeat")

\* Copying into the PSRAM window without PSRAM traps; nothing resets the chip.
LoadSegmentsTraps ==
    /\ phase = "load"
    /\ header.segs = "psram" /\ ~psram_up
    /\ Stop("halted")

OnProbation(l) == otadata # None /\ otadata.pending # None /\ l = label(otadata.pending)

HandOffUnarmed ==   \* mutant: enable_timg1_reset is not called
    /\ phase = "handoff"
    /\ phase' = "app"
    /\ runs' = IF OnProbation(part) THEN runs + 1 ELSE runs
    /\ UNCHANGED <<wdt, psram_up, flash, locals, missed, unconfirmed, lost>>

HandOff ==
    /\ phase = "handoff"
    /\ wdt' = "timg1"
    /\ phase' = "app"
    /\ runs' = IF OnProbation(part) THEN runs + 1 ELSE runs
    /\ UNCHANGED <<psram_up, flash, locals, missed, unconfirmed, lost>>

\* The panic handler records a dump (another sector) and never returns.
Panic ==
    /\ Fault("panic")
    /\ phase \in BootPhase \ {"rom", "program"}
    /\ Stop("halted")

\* heartbeat() and the panic handler's halt loop.
Spin ==
    /\ phase \in {"heartbeat", "halted"}
    /\ UNCHANGED vars

-----------------------------------------------------------------------------
(***************************************************************************)
(* The app (external), as far as the bootloader's comments rely on it.     *)
(***************************************************************************)
Current == IF otadata = None THEN fresh ELSE otadata

AppRuns == phase = "app" /\ header.app = "healthy"

\* OTA writes into the inactive slot; whatever it manages to write.
AppWriteSlot ==
    /\ AppRuns
    /\ Current.pending = None
    /\ \E img \in Images :
          image' = [image EXCEPT ![label(Other(Current.stable))] = img]
    /\ unconfirmed' = unconfirmed \cup {Other(Current.stable)}
    /\ UNCHANGED <<otadata, chip, locals, runs, missed, lost>>

AppStage ==
    /\ AppRuns
    /\ Current.pending = None
    /\ otadata' = stage(Current)
    /\ runs' = 0
    /\ missed' = 0
    /\ UNCHANGED <<image, chip, locals, unconfirmed, lost>>

AppMarkSucceeded ==
    /\ AppRuns
    /\ OnProbation(part)
    /\ otadata' = mark_succeeded(otadata)
    /\ unconfirmed' = unconfirmed \ {otadata.pending}
    /\ UNCHANGED <<image, chip, locals, runs, missed, lost>>

AppDisableWdt ==
    /\ AppRuns
    /\ wdt = "timg1"
    /\ wdt' = "off"
    /\ UNCHANGED <<phase, psram_up, flash, locals, history>>

\* The app restarts the chip, or crashes in a way that does.
AppReset ==
    /\ phase = "app"
    /\ ResetChip
    /\ UNCHANGED <<flash, history>>

\* A power cut in the middle of one of the app's own otadata stores.
AppStoreTorn ==
    /\ AppRuns
    /\ Fault("power") /\ Fault("torn")
    /\ otadata' = None
    /\ lost' = TRUE
    /\ ResetChip
    /\ UNCHANGED <<image, runs, missed, unconfirmed>>

-----------------------------------------------------------------------------
BootStep ==
    \/ BringUp \/ InitPsram
    \/ LoadOtadata \/ LoadOtadataFails
    \/ StoreErase \/ StoreProgram \/ StoreFails
    \/ Lookup \/ LookupFails \/ FallBackToFactory \/ NoBootableApp
    \/ ReadHeader \/ ReadHeaderFails
    \/ Verify \/ VerifyFails
    \/ LoadSegments \/ LoadSegmentsFails \/ LoadSegmentsTraps
    \/ HandOff

AppStep ==
    AppWriteSlot \/ AppStage \/ AppMarkSucceeded \/ AppDisableWdt \/ AppReset \/ AppStoreTorn

Next == BootStep \/ Panic \/ Spin \/ AppStep \/ PowerLoss \/ WdtFire

Spec == Init /\ [][Next]_vars

(***************************************************************************)
(* Fairness.  The hart runs main() to its end, so some boot step is taken  *)
(* whenever one is enabled.  TIMG1 counts on its own, so a hung app is     *)
(* reset.  A healthy app on probation gets to mark_succeeded.  Nothing is  *)
(* assumed of resets, of power, or of an app that is not on probation.     *)
(***************************************************************************)
HangReset == phase = "app" /\ header.app = "hangs" /\ WdtFire

FairSpec == Spec /\ WF_vars(BootStep) /\ WF_vars(HangReset) /\ WF_vars(AppMarkSucceeded)

-----------------------------------------------------------------------------
(***************************************************************************)
(* Properties.                                                             *)
(***************************************************************************)

\* slot_select.rs increments the boot-attempt counter before control jumps
\* to the app: at any time, over any number of resets, the slot on probation
\* has been entered at most as often as otadata in flash says it has been
\* tried, plus the charges that are known not to have reached flash.
CountedBeforeRun ==
    (otadata # None /\ otadata.pending # None) => runs <= otadata.boot_attempts + missed

\* `stable` is the slot that last ran mark_succeeded: unless an otadata store
\* was torn, an image that its own app never confirmed is started only as
\* OtaPending (or blindly, as OtaFresh), never as the stable slot and never
\* as the target of a rollback.
ConfirmedUnlessOnProbation ==
    (phase = "app" /\ outcome \in {"OtaStable", "OtaRollback"} /\ ~lost)
        => chosen_slot \notin unconfirmed

\* main refuses to jump on a bad header, a digest mismatch or a load error:
\* whatever is running passed all three in this boot, although the partition
\* was looked up, read and re-read in separate steps, and had PSRAM if its
\* segments live there.
VerifiedWhenRunning ==
    phase = "app" => /\ header.magic
                     /\ header.hash # "mismatch"
                     /\ Loadable(header)

\* After MAX_BOOT_ATTEMPTS failed boots the bootloader rolls back: a boot of
\* the slot on probation is followed by its confirmation or by a rollback.
TrialResolves ==
    (phase = "lookup" /\ outcome = "OtaPending")
        ~> (outcome = "OtaRollback" \/ (otadata # None /\ otadata.pending = None))

-----------------------------------------------------------------------------
(***************************************************************************)
(* What A/B boot promises, with the sector rewrite hidden: during the      *)
(* erase/program window the new state already counts.                      *)
(***************************************************************************)
Logical == IF otadata # None THEN otadata
           ELSE IF phase = "program" THEN persist ELSE fresh

P == INSTANCE Probation WITH
        Slots <- Slot, MaxTries <- MaxAttempts, NoSlot <- None,
        stable <- Logical.stable, candidate <- Logical.pending,
        tries <- Logical.boot_attempts, runs <- runs

\* Boots, resets, updates and rollbacks follow the probation protocol: charge
\* before run, confirm only what ran, revert only after MAX_BOOT_ATTEMPTS.
ImplementsProbation == P!Spec

\* What may become of stable slot and trial in one step: the trial is charged,
\* rolled back or confirmed, an update is staged, or a torn store loses both.
TrialEvent ==
    LET d == Logical
        trial == d.pending # None
    IN  \/ /\ trial /\ d.boot_attempts < MaxAttempts
           /\ Logical' = [d EXCEPT !.boot_attempts = @ + 1]
        \/ /\ trial /\ d.boot_attempts = MaxAttempts
           /\ Logical' = [stable |-> d.stable, pending |-> None, boot_attempts |-> 0]
        \/ /\ trial /\ phase = "app" /\ part = label(d.pending)
           /\ Logical' = [stable |-> d.pending, pending |-> None, boot_attempts |-> 0]
        \/ /\ ~trial /\ phase = "app"
           /\ Logical' = [stable |-> d.stable, pending |-> Other(d.stable), boot_attempts |-> 0]
        \/ lost' /\ Logical' = fresh

\* Under every fault, read errors, failing and torn stores included, a trial
\* ends in one of two ways: the app that runs from the slot confirms it, or all
\* of its MAX_BOOT_ATTEMPTS have been charged.  Until then `stable` stays and
\* the charges grow one at a time; only a torn store loses them.
TrialsEndDuly == [][Logical' # Logical => TrialEvent]_vars

-----------------------------------------------------------------------------
(***************************************************************************)
(* The inductive invariant behind the safety properties (SlotBootProofs    *)
(* proves it): what each step of main() knows about the earlier ones.      *)
(***************************************************************************)
\* From BringUp to HandOff, and in heartbeat, no watchdog is counting.
WdtInv == phase \notin {"rom", "app"} => wdt = "off"

\* The locals of pick and main agree with the otadata they came from.
PickInv ==
    /\ phase = "store" =>
          /\ otadata # None
          /\ otadata.pending # None
          /\ chosen_slot = select_slot(otadata).slot
          /\ persist = select_slot(otadata).new_state
          /\ outcome = OutcomeOf(select_slot(otadata).kind, TRUE)
    /\ phase = "program" => otadata = None /\ persist # None
    /\ phase \in PickedPhase \cup {"program", "app"} => chosen_slot # None
    /\ phase \in {"header", "verify", "load", "handoff", "app"} =>
          part \in {label(chosen_slot), "factory"}

\* Every entry of the slot on probation has been paid for, and a boot that is
\* about to enter it has paid for one entry more.
CountInv ==
    /\ CountedBeforeRun
    /\ (otadata # None /\ phase \in PickedPhase /\ chosen_slot = otadata.pending) =>
          runs < otadata.boot_attempts + missed
    /\ (phase = "program" /\ persist.pending # None) =>
          runs < persist.boot_attempts + missed

\* The stable slot is confirmed, also while the sector is being rewritten.
StableInv ==
    ~lost =>
        /\ Logical.stable \notin unconfirmed
        /\ (phase \in PickedPhase \cup {"program", "app"}
             /\ outcome \in {"OtaStable", "OtaRollback"}) =>
              chosen_slot = Logical.stable

\* What has been checked of the header so far.
VerifyInv ==
    /\ phase \in {"verify", "load", "handoff", "app"} => header # None /\ header.magic
    /\ phase \in {"load", "handoff", "app"} => header.hash # "mismatch"
    /\ phase \in {"handoff", "app"} => Loadable(header)

IInv == TypeOK /\ WdtInv /\ PickInv /\ CountInv /\ StableInv /\ VerifyInv

\* What the refinement needs besides: as long as every otadata access works,
\* the slot being booted is the stable one or the one on probation, and the
\* latter has run when its app is running.
OtadataWorks == Faults \cap {"torn", "store", "otaread"} = {}

ProbationInv ==
    /\ missed = 0
    /\ phase \in PickedPhase \cup {"program", "app"} =>
          chosen_slot \in {Logical.stable, Logical.pending}
    /\ (phase = "app" /\ OnProbation(part)) => runs > 0
=============================================================================
