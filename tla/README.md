# A TLA+ model of the ESP32-P4 mini-bootloader

The mini-bootloader is the second stage between the ESP32-P4 ROM and the app:
it picks one of two OTA slots, verifies and loads the image in it, arms a
watchdog and jumps. It runs on one hart with interrupts off, so nothing runs
concurrently *inside* a boot. What is hard is the sequence of boots: resets,
power loss and hangs can come between any two steps, flash keeps what the last
step wrote, and decisions are made from it again.

Source paths below are relative to the repository (`src/` is its Rust source).

## Inventory

| Part | State | Operations | What makes it correct |
|---|---|---|---|
| Boot sequence, `src/main.rs` | which watchdog counts, PSRAM up or not, `chosen`, `header` | bring-up, diagnostics, PSRAM, pick, read header, verify, load, arm and jump; `heartbeat`, panic handler | only a verified, completely loaded image is entered; the watchdog is armed when the app runs; a bad update is undone |
| Slot selection, `src/slot_select.rs` | otadata sector in flash; locals of `pick` | `pick`, `fall_back_to_factory` | an attempt is charged before it is used; rollback after exactly `MAX_BOOT_ATTEMPTS`; stable means confirmed |
| `p4_ota` (external) | `OtaData` | `load_from_flash`, `select_slot`, `store_to_flash`; app: stage, `mark_succeeded` | modelled from its use in `pick` |
| Partition table, `src/partition.rs` | table in flash | `for_each_entry`, `find_by_label`, `find_factory_app` | first match in front of the terminator |
| App image, `src/app.rs` | image in flash, RAM | `read_header`, `compute_image_total_size`, `load_segments`, `jump_to_entry` | no sum wraps; what is loaded is what was measured; caches are coherent at the jump |
| Verification, `src/verify.rs` | bytes hashed | `verify_app_sha256` | the hashed range covers everything loaded and stops at the digest |
| Flash, `src/flash.rs` | - | `read`, `erase_sector`, `write` | alignment is refused, never passed to the ROM |
| Crash-dump, boot-history and bootstat reports | three flash sectors | test, decode and print; load, append, store | one consistent account of why the last boot ended; no dump lost unprinted |
| UART console, `src/main.rs` | TX FIFO, 256-byte ring | `write_str`, `drain_uart` | nothing is lost at hand-off; the ring is the tail of the log |
| Layout: `example-partitions.csv`, `memory.x` | - | - | fixed offsets agree with the table; no overlap |

**Interaction.** `main` calls the parts one after another. `pick` reads and
rewrites otadata, looks a label up in the table and reads a header; `main` reads
that header again, has it verified, and has the segments loaded in a third pass
over the same flash. The app, which runs afterwards, writes the other slot,
stages it in otadata, confirms itself, and feeds or disables the watchdog. The
ROM, the watchdogs and the power supply restart everything.

**What is hard.** Resets between the steps of an otadata update (torn sector);
stores and reads that fail while the boot goes on; several boots in a row that
have to add up to a rollback; three separate passes over an image that have to
agree; u32 sums over lengths read from flash; an ending (`heartbeat`) with every
watchdog off. `PROJECT.json` lists the hazards by line.

## Modules

| Module | Models |
|---|---|
| `Ota` | the otadata record, `select_slot`, stage, `mark_succeeded` (all external) |
| `SlotBoot` | `main` with `pick` inlined, the app, watchdog and power, over any number of boots |
| `Probation` | abstract specification of A/B boot: stage, charge, run, confirm, revert |
| `PartitionWalk` | the loop of `for_each_entry` with both finders |
| `AppImage` | measuring, hashing and loading one image |
| `VerifiedLoad` | abstract specification of a verified load: hash, trust, copy, enter, refuse |
| `CacheHandoff` | `load_segments`'s stores and `jump_to_entry` against L1, L2 and prefetch |
| `Diagnostics` | dump test, boot-history ring, bootstat record and panics, over any number of boots |
| `Layout` | compiled-in offsets, partition table and sizes of images |
| `Uart` | console, tee ring, tail of a dump and drain |
| `Tails` | the last items of a sequence, for the two rings |
| `MC*` | constants for TLC |
| `*Proofs` | theorems checked by TLAPS |

### SlotBoot

Flash is `otadata` (`None` when the sector does not decode) and `image`, one
image per label. `phase` is the step of `main` to run next: `rom`, `psram`,
`pick`, `store`, `program`, `lookup`, `factory`, `header`, `verify`, `load`,
`handoff`, then `app`; or `heartbeat`, or `halted` after a panic or a trap.
`chosen_slot`, `outcome`, `persist`, `part` and `header` are the locals of the
same names (`part` is `chosen` in `main`). One action is one step after which a reset can
find flash or the watchdog changed; `pick` is split at its flash accesses, and
the store into the erase and the program of the sector. The outcomes of a step
are actions of their own (`Lookup`, `LookupFails`).

An image is what the boot path tells apart: header magic, digest (absent,
right, wrong), segments (loadable, in PSRAM, bad) and what its app does
(healthy, hangs). The partition table is the set of labels it resolves.

`Faults` selects what the environment may do: power loss, torn stores, failing
stores, failing reads of otadata or of images, PSRAM failure, panics. The
passing runs and the theorems say which of them they need.

The history variables are `runs` (entries of the slot on probation since it was
staged), `missed` (charges since then that did not reach flash), `unconfirmed`
(slots written since their last confirmation) and `lost` (a store was torn).
No guard reads them, except that `missed` is bounded by `MaxMissed`.

The app is external: while it is healthy it may write and stage the other slot,
confirm itself, disable the watchdog or restart; it stages nothing while a slot
is on probation. The bootloader's comments rely on exactly this.

The crash-dump, boot-history and bootstat steps touch other sectors and read no
variable of `SlotBoot`; they are `Diagnostics`, in which the steps of
`SlotBoot` are the one step `RestOfBoot`.

### PartitionWalk

A table is a function from indices to decoded entries: magic (entry, MD5,
anything else), type, subtype, label as `label_str` returns it. The index of an
entry stands for its offset and size. Every iteration of the loop is an action.
The reference is declarative: an entry is visible if no terminator is at or
before it; the answer is the first visible entry that matches.

### AppImage

One image is walked as `main` does it: `size` (`compute_image_total_size`),
`hash` (`verify_app_sha256`), `load` (`load_segments`), one action per loop
iteration. An image without digest goes to `load` at once. Segment headers are
chosen nondeterministically when an address is first read and remembered in
`flash`, so both walks see the same contents, whatever positions they compute.
Sums are taken modulo `Width`, the model's 2^32. SHA-256 is the Boolean
`digest_ok`. A copy over the bootloader's own RAM may end in `undefined`.

`SlotBoot` uses the result only: `hash = "mismatch"` is a refusal in `size` or
`hash`, `segs = "bad"` a refusal in `load`.

### VerifiedLoad

An image with a digest, its digest right or wrong, how much was hashed, the
`plan` of copies settled when the image is trusted, and the copies `loaded` so
far. `AppImage` maps its loops to a `Stage` and, from `load` on, the chain of
measured headers to the plan (`Plan`). `DigestOk` is `Trust`, as is `BeginVerify` for an
image without a digest; `LoadSegment` is `Copy`, `LoadDone` is `Enter`, and the
measuring walk is hidden. The specification says nothing of headers, so it holds
the two walks to each other: a second walk that strays makes a copy that is not planned.

### Probation

Charge, run, confirm and revert on four variables, with no flash, phases or
resets. `SlotBoot` maps `Logical` to it: the otadata in flash, or, between erase
and program, the record about to be written, or `fresh` for a blank sector.

### CacheHandoff

Memory, L2, the L1 D-cache and one L1 I-cache per core map every line to the
old contents, the new ones or a miss; `stream` is what the hart has fetched
ahead. Caches fill and evict at any time. `Store` and `LoadSegments` are
`load_segments`; `Publish`, `DropStale`, `FenceI` and `Jump` are the four steps of
`jump_to_entry`. The two ROM calls are modelled by their effect on a set of
caches, the bits of the map they are passed. `OwnLine` is the bootloader's own
data, which it goes on writing and which the invalidation may lose.

### Diagnostics

Flash is `dump` (none, magic only, complete), `log` (the ring), `stat` (newest
record) and `used` (records in the bootstat sector). `phase` walks through
`main`: `rom` (the magic is tested), `report` (`print_if_present`), `history`,
`log_program`, `bootstat`, `stat_program`, `rest`, then the app or heartbeat. A
panic may come at each of these steps and in the app, and writes its dump in two
steps, which may fail (`PanicFails`). The reset causes are those of
`map_cause_to_reason`; a cause from inside the chip needs an app or a panicked
app to produce it.

Every read may fail, with the effect the code gives it: a magic that cannot be
read is an absent one (`CheckDump`), a dump that cannot be read is not printed
(`PrintNothing`), a ring that cannot be read is an empty one and is stored as such
(`load_from_flash_or_empty`, `HistoryErase`), and counters that cannot be read
start over (`load_latest_or_fresh`, `NextRecord`). Every rewrite may be cut by a
reset or a panic, and every store may fail.

That an append to bootstat costs one program, which is one step here, and a full
sector a rewrite, and that the history rewrites its sector each time, is the
external crates' behaviour as the comments on the partitions describe it; so is
what a dump that cannot be written leaves in its sector.

History variables: `failed` (what this boot could not read or store), `owed` (what
the panic whose dump is in flash has not had yet: its print, its entry, its
record), `told` (everything stored in the ring since it was last lost), `panics`
(since the counters last started over, without those whose dump went before it was
counted), `last_end`. A ring is lost in a cut rewrite and in one that follows a
failed read, and the counters likewise; the properties say that nothing else loses
them, and that they are complete from then on.

### Layout

A partition table in sectors, an image size per bootable partition, and the parts of
an image, inside and beyond its partition, that something else has overwritten.
Every write the bootloader makes goes to a compiled-in sector; the app may write
images of any size into partitions it does not run from. An image whose first
sector is overwritten has no header any more (its size is 0): a chance 0xE9 in
foreign data is left out. `pick` stores otadata, if at all, before it looks for a
partition. `find_by_label` compares nothing but the label and `find_factory_app`
nothing but type and subtype, so `Bootable` has every partition with the label of a
slot, even one of type data, and every factory app. `Lookup` may take either slot,
which covers every decision `SlotBoot` can take; reads do not fail here.

### Uart

`todo` is what `write_str` has still to write, `half` that it has written the
"\r" of a "\n". The FIFO drops a byte that does not fit; the transmitter moves
bytes to `shift` and then to `wire`. The ring goes into `dump` on a panic and
the next boot prints it byte by byte through `print_escaped_bytes`. Bytes are
printable, newline, carriage return or part of a non-ASCII character (the log has
dashes and ellipses); tabs, which no line of the log has, are left out. Main's own strings
hold no "\r", which is true of the literals of the crate, not of every panic message.

## Runs

| Run | Shows | Bounds |
|---|---|---|
| `boot_faults` | `CountedBeforeRun`, `ConfirmedUnlessOnProbation`, `VerifiedWhenRunning`, `TrialsEndDuly` under every fault | 2 attempts, 6 kinds of image in 3 partitions, 1 missed charge |
| `probation` | `SlotBoot` implements `Probation` while otadata works | 3 attempts, 4 kinds of image; every fault that spares otadata |
| `trial_live` | a trial ends in confirmation or rollback | 3 attempts, images that start and work or hang, 2 failed stores |
| `walk` | finders equal the reference | all 7^4 tables, 3 queries |
| `image` | hashed covers loaded; digest placement; alignment; agreement of the walks; nothing half-loaded is entered; `AppImage` implements `VerifiedLoad` | 0 to 3 segments, 6 lengths, 3 destinations, a u32 of 8 bits |
| `cache_handoff` | fetches meet the loaded image; the invalidation loses nothing of it | one line of image and of own data, two cores |
| `crashes` | dumps printed before they are lost, panics in both accounts and in the count, ring contents, agreement of the two accounts | 2 resets, ring and sector of 2, 6 causes; cut and failing writes, failing reads |
| `layout` | writes stay home, the newest image stays whole, damage needs an oversized update | canonical table and a factory app behind it, sizes 1, 192, 193, 2 updates |
| `console` | nothing lost, lines end, dump is the log's tail, drain, a boot ends, the log comes out | FIFO of 2, ring of 3, 2 strings per boot of 3 kinds, 1 reset |

Lines do not interact in the caches, so one of each kind is enough. Ring and
bootstat sector of 2 fill and wrap within three boots. The accounts treat causes
alike but for the mapping, so `crashes` has one cause for each reason on which the
accounts have to agree and a software reset; the theorem `AccountsAgree` has all 18. An image of 193 sectors is one more than a
slot holds; two updates write an oversized image and then the partition it runs into.
The factory app makes the fallback happen. A FIFO of 2 is full after one line end; a ring of 3 can begin between a
"\r" and its "\n", and the escaped form of one byte is longer than the ring.

Two attempts are the least for which charging, retrying and rolling back
differ; the other two `SlotBoot` runs use the code's three. Four entries hold
every order of hit, duplicate, MD5 marker and terminator, and a full table
without one. In `image` the lengths are 0, an aligned one, an unaligned one, the
limit, one above it and one that wraps the sum; the chunk of 64 bytes is left full
and partly filled.

Three runs look for the violation of a statement in the repository's comments,
and find it; `PROJECT.json` quotes the lines:

| Run | Statement | What happens |
|---|---|---|
| `corrupt_update` | rollback after `MAX_BOOT_ATTEMPTS` failures | digest mismatch ends in `heartbeat` with no watchdog, after the first attempt |
| `stale_dump` | a dump's magic means that the previous boot panicked | it stays until the app erases it; every boot until then is a panic |
| `readme_layout` | the README's single-app table, app at 0x10000 | the records of the first boot overwrite the app |

Six more disagreements between comments and code can be read off one definition
each, so they have no run of their own:

| Statement | Definition | What the code does |
|---|---|---|
| factory if the chosen slot is empty or corrupt (`main.rs:224`) | `Lookup`, `Verify` | only if its label or header magic is missing; a bad digest comes too late |
| factory if both slots are empty or corrupt (`main.rs:19`) | `LookupFails` | the other slot is never looked at |
| a hang is guaranteed to land in the counter (`slot_select.rs:18`) | `StoreFails` | not if `store_to_flash` failed: `missed` in `CountedBeforeRun` |
| the table ends at type 0xFF (`partition.rs:3`) | `VisitOther` | it ends at a foreign magic |
| the caller validates load addresses (`app.rs:146`) | `Derail` | it does not; after a copy over the bootloader execution may go anywhere |
| bootstat's taxonomy is the finer one (`bootstat_report.rs:26`) | `StatReason` | a core lockup is a watchdog there, and apart from them in the history |

### Fairness

`FairSpec` assumes that the hart goes on (some step of `main` is taken when one
is enabled), that TIMG1, armed before the jump, resets an app that hangs, and
that a healthy app on probation that keeps running gets to `mark_succeeded`.
The first two are hardware, the third is the app's duty according to the comment
on `WDT_TIMEOUT_MS`. Nothing is assumed about restarts or power. In `trial_live`
stores fail at most `MaxMissed` times per trial; if every store failed forever no
rollback could be recorded.

`Uart`'s `Spec` assumes that the hart goes on and that a UART with a clock sends. It
may lose its clock at any time; both liveness properties then promise nothing
(`stuck`), which is the hazard of a boot that waits for the console with every
watchdog off. `LogComesOut` is about the last byte too: `drain_uart` waits for
an empty FIFO, not for an idle transmitter, so `FlushedWhenArmed` leaves one
byte in the shift register.

## Proofs

TLAPS checks, for every value of the constants that satisfies the named
assumptions:

* `SlotBootProofs`: the invariants of `boot_faults` and its action property
  `TrialsEndDuly`, from the inductive invariant `IInv`, and `BootImplementsProbation`.
* `PartitionWalkProofs`: the invariants of `walk` for tables of every length.
* `CacheHandoffProofs`: the invariants of `cache_handoff`, for any number of
  lines and cores.
* `DiagnosticsProofs`: the invariants of `crashes` and the action
  property `PrintedBeforeLost`, for rings and sectors of every size, every set of
  causes and every combination of faults.
* `LayoutProofs`: the invariants of `layout`. `WritesStayHome` is about tables that
  satisfy `RecordsHome`, `NewestImageWhole` about `RecordsBefore`, and
  `DamageNeedsOversize` about `AppsApart` and `RecordsApart`; `CanonicalTableIsSafe`
  shows that the canonical table satisfies all of them. The README's table does not.
* `UartProofs`: the invariants of `console`, for a FIFO and a ring of every size, logs
  of every length and any strings without "\r".
* `TailsProofs`: a ring after a push is the tail of the longer sequence.
* `AppImageProofs`: the invariants of `image` and that `AppImage` implements
  `VerifiedLoad` (`LoadImplementsPromise`), for any number and size of
  segments for which `Base + 24 + MaxSegments * (8 + MaxLen) + 64 < Width`. The
  code's limits (255 segments of 0x80_0000 bytes) satisfy it for every `Base`
  below 2^31.

**SlotBoot.** `CountedBeforeRun` is not inductive: between the decision and the
jump the charge is in `persist`, then in flash, and the run is still to come. `CountInv`
says that a boot which has chosen the slot on probation has paid for one
run more than have happened; `PickInv` ties the locals of `pick` to the otadata
they came from; `WdtInv` says no watchdog counts between bring-up and hand-off,
so none tears a store; `StableInv` carries "stable is confirmed" across the
erase/program window through `Logical`; `VerifyInv` collects what each phase has
checked of `header`. The refinement needs `ProbationInv` besides: no charge is
missed, the chosen slot is the stable one or the candidate, and a candidate
whose app runs has been entered. `StoreErase` is `Charge` or `Revert`,
`HandOff` is `Run` or invisible, `AppStage` and `AppMarkSucceeded` are `Stage`
and `Confirm`. It assumes `OtadataWorks`: no torn stores and no failing otadata
access, which the protocol does not survive (an uncounted run is not `Run`).
What survives every fault is `TrialsEndDuly`, an action property of `Logical`: a step
that changes stable slot or trial is `StoreErase` with the decision of `pick`, which
`PickInv` says is still the one the sector calls for; staging or confirmation by
the app; or a torn store. The erase window is hidden by `Logical`, and no watchdog can end it
because of `WdtInv`.

**PartitionWalk.** The entries passed are no terminators and no hits.

**AppImage.** The measuring walk leaves `starts`, the address of every header it
read (`Chain`), each at or before the end of the segments. The load walk is at
`starts[i]`, so it reads the header that was measured, and its data ends at
`starts[i+1]`; `CopyInv` says that the copies made so far are those of the headers passed, and no
others. `Room(i)` bounds the sum, so nothing wraps. For the refinement, the measured
segments end inside what was hashed (`PlanIsHashed`), and reading flash again does not
change the plan (`PlanStays`).

**CacheHandoff.** A clean line of the image is a copy of what is below it
(`Coherent`), a dirty one is present (`DirtyHit`); so after the write-back the
image is in memory (`PublishedInv`) and refills bring nothing older.

**Diagnostics.** `DumpInv` ties the dump in flash to what `main` has seen of it: past
`rom`, `crash_was_present` is true to the flash unless the magic could not be read, and
past `report` the dump has been printed unless that failed. `RingInv` and `StatInv` carry
the properties across the window in which a sector is erased and its new contents are in
RAM only; there a record that is about to count the panic already makes up for the one
still owed. `AccountInv` says of an account that `main` is past that it has the panic or
that this boot could not put it there.

**Layout.** A record before all images meets none, however far they run
(`HarmlessBefore`), so only an update damages an image, and it leaves its own whole.
Until an update is oversized every image ends before its partition does, so a write
outside the partition misses it (`Contained`).

**Uart.** What has been emitted is the line, the shift register and the FIFO, one
after the other; the transmitter does not change it, a byte written extends it and the
ring alike. `half` says that its last byte is a "\r" whose "\n" is next (`ByteInv`).
`NothingLost` needs no recursion: `LinePos(log, n)` is the place of the n-th byte of the
log, n and the newlines up to it, and the lemmas about it (a byte takes one place, a
newline two; the order is kept; the rest of the log has no part in it) rest on the
library's facts about cardinalities. `DrainInv` carries the empty FIFO from `Drained` to the jump.

**Only model-checked:** `TrialResolves`, `BootEnds` and `LogComesOut`, which are
liveness under fairness.

## Not modelled

SHA-256, the ROM, PSRAM training and the `p4_*` crates beyond their use; the
wording of the log (`reason_name`, `McauseDecode`, `print_registers`,
`print_recent`). `erase_sector`, `write`, `read_into` and `read_u32` of
`src/flash.rs` have no caller in the crate: the `p4_*` crates make their own
calls, and the windows between erase and program are modelled where those
crates are called. bootstat's uptime and panic PC are copied from record to
record.
`main` discards the `SelectionOutcome`, so nothing depends on it.
That a trap in the PSRAM window halts the hart is taken from the
comment in `main` ("will fault") and the absence of a trap handler in the crate.

## Plan

What is left, in the order of its worth:

1. `Diagnostics` and `SlotBoot` over one reset and one cause, so that a rollback
   and the account of the crash that led to it can be compared.
2. The ring and bootstat accounts of `Diagnostics` as an abstract specification
   (an append-only account that a cut rewrite empties), and the refinement proved.
3. The unused half of `flash.rs`, if it finds a caller.
