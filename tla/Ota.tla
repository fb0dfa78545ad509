-------------------------------- MODULE Ota --------------------------------
(***************************************************************************)
(* The otadata record and the slot policy of the p4_ota crate.  The crate  *)
(* is not part of this repository: it is modelled from how                 *)
(* src/slot_select.rs uses it (its imports, the three BootAction variants  *)
(* it matches on, and the comments that say what they mean).               *)
(***************************************************************************)
EXTENDS Naturals

CONSTANTS
    MaxAttempts,    \* MAX_BOOT_ATTEMPTS, the u8 re-exported from p4_ota
    None            \* Rust's None, and the value of a sector that does not decode

Slot == {"A", "B"}

Other(s) == IF s = "A" THEN "B" ELSE "A"

\* Slot::label: the partition label that holds the slot's image.
label(s) == IF s = "A" THEN "ota_0" ELSE "ota_1"

(***************************************************************************)
(* A decoded otadata sector: the last confirmed slot, the slot on          *)
(* probation if there is one, and the boots charged to it so far.          *)
(***************************************************************************)
OtaData ==
    {d \in [stable : Slot, pending : Slot \cup {None},
            boot_attempts : 0..MaxAttempts] : d.pending # d.stable}

ASSUME OtaAssumption ==
    /\ MaxAttempts \in Nat \ {0}
    /\ None \notin Slot

\* The record has a field None does not have, so None is never an otadata.
ASSUME NoneAssumption == None \notin OtaData

\* OtaData::fresh(): slot A, nothing on probation.
fresh == [stable |-> "A", pending |-> None, boot_attempts |-> 0]

(***************************************************************************)
(* p4_ota::select_slot.  The result carries the slot to boot and the       *)
(* state to persist, None when the decision changes nothing.               *)
(***************************************************************************)
select_slot(d) ==
    IF d.pending = None
    THEN [kind |-> "Stable", slot |-> d.stable, new_state |-> None]
    ELSE IF d.boot_attempts < MaxAttempts
    THEN [kind |-> "Pending", slot |-> d.pending,
          new_state |-> [d EXCEPT !.boot_attempts = @ + 1]]
    ELSE [kind |-> "Rollback", slot |-> d.stable,
          new_state |-> [stable |-> d.stable, pending |-> None, boot_attempts |-> 0]]

\* The app's half of the protocol: stage an update, confirm the running slot.
stage(d) == [stable |-> d.stable, pending |-> Other(d.stable), boot_attempts |-> 0]

mark_succeeded(d) == [stable |-> d.pending, pending |-> None, boot_attempts |-> 0]
=============================================================================
