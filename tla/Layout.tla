------------------------------- MODULE Layout -------------------------------
(***************************************************************************)
(* Who writes where in flash.  The bootloader rewrites four sectors at     *)
(* offsets compiled into it, the partition table says where the app images *)
(* are, and neither is compared with the other; nor is the size of an      *)
(* image compared with that of its partition.  Unit: sectors of 4 KB.      *)
(***************************************************************************)
EXTENDS Integers

CONSTANTS
    Table,      \* the partition table: label -> [kind, offset, size]
    Sizes,      \* the sizes an image may have
    MaxUpdates  \* bound: images written by the app

\* The offsets compiled into the bootloader.
OTADATA_PARTITION_OFFSET == 15
CRASHDUMP_PARTITION_OFFSET_stale == 224 \* mutant: the table has moved on
CRASHDUMP_PARTITION_OFFSET == 16
BOOTLOG_PARTITION_OFFSET == 18
BOOTSTAT_PARTITION_OFFSET_stale == 33   \* mutant: it has moved on here
BOOTSTAT_PARTITION_OFFSET == 19

\* The same by the data they are for.
FixedSector ==
    [otadata   |-> OTADATA_PARTITION_OFFSET,
     crashdump |-> CRASHDUMP_PARTITION_OFFSET,
     bootlog   |-> BOOTLOG_PARTITION_OFFSET,
     bootstat  |-> BOOTSTAT_PARTITION_OFFSET]

Kinds == {"data", "app", "factory"}

ASSUME LayoutAssumption ==
    /\ Table \in [DOMAIN Table -> [kind : Kinds, offset : Nat, size : Nat \ {0}]]
    /\ "none" \notin DOMAIN Table
    /\ Sizes \subseteq Nat \ {0}
    /\ MaxUpdates \in Nat

\* The canonical table, example-partitions.csv.
CanonicalTable == [
    nvs       |-> [kind |-> "data", offset |-> 9,   size |-> 4],
    phy_init  |-> [kind |-> "data", offset |-> 14,  size |-> 1],
    otadata   |-> [kind |-> "data", offset |-> 15,  size |-> 1],
    crashdump |-> [kind |-> "data", offset |-> 16,  size |-> 2],
    bootlog   |-> [kind |-> "data", offset |-> 18,  size |-> 1],
    bootstat  |-> [kind |-> "data", offset |-> 19,  size |-> 1],
    ota_0     |-> [kind |-> "app",  offset |-> 32,  size |-> 192],
    ota_1     |-> [kind |-> "app",  offset |-> 224, size |-> 192]]

\* Slot::label.  A slot is looked up by its label alone, whatever its type;
\* the fallback by type and subtype, whatever its label.
Slots == {"ota_0", "ota_1"}

Factories == {l \in DOMAIN Table : Table[l].kind = "factory"}

Bootable == (Slots \cap DOMAIN Table) \cup Factories

VARIABLES
    size,       \* size of the image in each bootable partition, 0 if it
                \* has no header
    hashed,     \* the partitions whose image has an appended hash
    inside,     \* the partitions within which an image was written over
    beyond,     \* the same for the part of an image after the partition's end
    phase,      \* the step of main to run next
    chosen,     \* the label main boots, "none" before the lookup
    updates,    \* images written by the app so far
    oversized,  \* history: an image larger than its partition was written
    newest,     \* history: the partition of the newest update, or "none"
    written     \* history: what the bootloader wrote, and where

images == <<size, hashed, inside, beyond>>

vars == <<size, hashed, inside, beyond, phase, chosen, updates, oversized, newest, written>>

\* Images have the sizes expected of them, and main boots from a partition with
\* the label of a slot or from a factory app.
TypeOK ==
    /\ size \in [Bootable -> Sizes \cup {0}]
    /\ hashed \in SUBSET Bootable
    /\ inside \in SUBSET Bootable
    /\ beyond \in SUBSET Bootable
    /\ phase \in {"bootlog", "bootstat", "pick", "lookup", "verify", "load", "jump",
                  "app", "heartbeat", "halted"}
    /\ chosen \in Bootable \cup {"none"}
    /\ updates \in 0..MaxUpdates
    /\ oversized \in BOOLEAN
    /\ newest \in Bootable \cup {"none"}
    /\ written \in SUBSET [what : DOMAIN FixedSector, sector : Nat]

\* Freshly flashed over serial: every image is whole and within its partition.
Init ==
    /\ size \in {f \in [Bootable -> Sizes \cup {0}] : \A l \in Bootable : f[l] <= Table[l].size}
    /\ hashed \in SUBSET Bootable
    /\ inside = {}
    /\ beyond = {}
    /\ phase = "bootlog"
    /\ chosen = "none"
    /\ updates = 0
    /\ oversized = FALSE
    /\ newest = "none"
    /\ written = {}

-----------------------------------------------------------------------------
End(l) == Table[l].offset + Table[l].size

ImageEnd(l) == Table[l].offset + size[l]

\* A write to sectors lo..hi - 1 meets the sectors from..to - 1.
Meets(lo, hi, from, to) == lo < hi /\ from < to /\ lo < to /\ from < hi

\* The partitions whose image loses something to a write to lo..hi - 1, before
\* the end of the partition and after it.
HitInside(lo, hi) ==
    {l \in Bootable : Meets(lo, hi, Table[l].offset, ImageEnd(l)) /\ lo < End(l)}

HitBeyond(lo, hi) == {l \in Bootable : Meets(lo, hi, End(l), ImageEnd(l))}

\* A record_and_print, store_to_flash or record_panic: one sector rewritten.
BootWrites(what) ==
    LET s == FixedSector[what] IN
    /\ written' = written \cup {[what |-> what, sector |-> s]}
    /\ inside' = inside \cup HitInside(s, s + 1)
    /\ beyond' = beyond \cup HitBeyond(s, s + 1)
    /\ size' = [l \in Bootable |-> IF Table[l].offset = s THEN 0 ELSE size[l]]

\* A failed erase is logged, and main goes on.
Store(what) == BootWrites(what) \/ UNCHANGED <<size, inside, beyond, written>>

WriteHistory ==
    /\ phase = "bootlog"
    /\ Store("bootlog")
    /\ phase' = "bootstat"
    /\ UNCHANGED <<hashed, chosen, updates, oversized, newest>>

WriteBootstat ==
    /\ phase = "bootstat"
    /\ Store("bootstat")
    /\ phase' = "pick"
    /\ UNCHANGED <<hashed, chosen, updates, oversized, newest>>

\* pick stores the otadata it has charged or rolled back, if it has (SlotBoot),
WriteOtadata ==
    /\ phase = "pick"
    /\ Store("otadata")
    /\ phase' = "lookup"
    /\ UNCHANGED <<hashed, chosen, updates, oversized, newest>>

\* and only then looks for a partition with an image header.
Header(l) == l \in DOMAIN Table /\ size[l] > 0

LookupAnyType ==    \* mutant: falls back to whatever the table has
    /\ phase = "lookup"
    /\ \E slot \in Slots :
          \/ Header(slot) /\ chosen' = slot
          \/ ~Header(slot) /\ chosen' \in DOMAIN Table
    /\ phase' = "verify"
    /\ UNCHANGED <<images, updates, oversized, newest, written>>

\* find_by_label, or else find_factory_app.
Lookup ==
    /\ phase = "lookup"
    /\ \E slot \in Slots :
          \/ Header(slot) /\ chosen' = slot
          \/ ~Header(slot) /\ chosen' \in Factories /\ Header(chosen')
    /\ phase' = "verify"
    /\ UNCHANGED <<images, updates, oversized, newest, written>>

\* NoBootableApp: the first factory app of the table has no header either.
LookupFails ==
    /\ phase = "lookup"
    /\ \E slot \in Slots : ~Header(slot)
    /\ Factories # {} => \E f \in Factories : ~Header(f)
    /\ phase' = "heartbeat"
    /\ UNCHANGED <<images, chosen, updates, oversized, newest, written>>

\* verify_app_sha256 of an image that was whole when written: the hash runs
\* to the image's end, wherever the partition ends.
HashMatches(l) == l \notin inside \cup beyond

Verify ==
    /\ phase = "verify"
    /\ phase' = IF chosen \notin hashed \/ HashMatches(chosen) THEN "load" ELSE "heartbeat"
    /\ UNCHANGED <<images, chosen, updates, oversized, newest, written>>

Load ==
    /\ phase = "load"
    /\ phase' = "jump"
    /\ UNCHANGED <<images, chosen, updates, oversized, newest, written>>

Jump ==
    /\ phase = "jump"
    /\ phase' = "app"
    /\ UNCHANGED <<images, chosen, updates, oversized, newest, written>>

\* The panic handler, at any step of main.
Panic ==
    /\ phase \in {"bootlog", "bootstat", "pick", "lookup", "verify", "load", "jump"}
    /\ Store("crashdump")
    /\ phase' = "halted"
    /\ UNCHANGED <<hashed, chosen, updates, oversized, newest>>

\* The app (external) writes an image of n sectors into a partition it does
\* not run from.  The partition's old image is gone; a neighbour written over
\* loses its header if that is where the image ends up.
AppUpdate(l, n) ==
    LET lo == Table[l].offset
        hi == lo + n
    IN  /\ phase = "app"
        /\ l # chosen
        /\ updates < MaxUpdates
        /\ updates' = updates + 1
        /\ size' = [m \in Bootable |->
                        IF m = l THEN n
                        ELSE IF Meets(lo, hi, Table[m].offset, Table[m].offset + 1) THEN 0
                        ELSE size[m]]
        /\ inside' = (inside \cup HitInside(lo, hi)) \ {l}
        /\ beyond' = (beyond \cup HitBeyond(lo, hi)) \ {l}
        /\ hashed' \in {hashed \cup {l}, hashed \ {l}}
        /\ oversized' = (oversized \/ n > Table[l].size)
        /\ newest' = l
        /\ UNCHANGED <<phase, chosen, written>>

Reset ==
    /\ phase' = "bootlog"
    /\ chosen' = "none"
    /\ UNCHANGED <<images, updates, oversized, newest, written>>

Next ==
    \/ WriteHistory \/ WriteBootstat
    \/ WriteOtadata \/ Lookup \/ LookupFails
    \/ Verify \/ Load \/ Jump
    \/ Panic
    \/ \E l \in Bootable, n \in Sizes : AppUpdate(l, n)
    \/ Reset

Spec == Init /\ [][Next]_vars

-----------------------------------------------------------------------------
(***************************************************************************)
(* Properties.                                                             *)
(***************************************************************************)
Within(s, l) == Table[l].offset <= s /\ s < End(l)

\* The offsets "must match the canonical CSV" (slot_select.rs,
\* crashdump_report.rs, boot_history_report.rs, bootstat_report.rs): whatever
\* the bootloader writes lies in the partition of that name, and in no other.
WritesStayHome ==
    \A w \in written : \A l \in DOMAIN Table : Within(w.sector, l) <=> l = w.what

\* Nothing compares an image with the size of its partition.  Yet the image
\* of the newest update, oversized or not, stays whole through any number of
\* boots, trials, fallbacks and panics until the app writes the next one: no
\* record or dump of the bootloader is in its way.
NewestImageWhole == newest # "none" => size[newest] > 0 /\ newest \notin inside \cup beyond

\* Only an update larger than its partition damages an image: as long as the
\* app writes none, neither its updates nor the bootloader's own records and
\* dumps do.
DamageNeedsOversize == (inside \cup beyond # {}) => oversized

-----------------------------------------------------------------------------
(***************************************************************************)
(* A claim of the repository's README that the code does not keep.         *)
(***************************************************************************)

\* README.md: flash the single-app layout, with the app at 0x10000, and it
\* boots: the image that was flashed is not refused as corrupt.
FlashedAppBoots == ~(phase = "heartbeat" /\ chosen # "none" /\ updates = 0)
=============================================================================
