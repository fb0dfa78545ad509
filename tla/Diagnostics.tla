----------------------------- MODULE Diagnostics -----------------------------
(***************************************************************************)
(* What main() of src/main.rs leaves behind about the end of the last run, *)
(* over many boots: the crash dump it prints, the boot-history ring and    *)
(* the bootstat record it appends to, and the panic handler that writes    *)
(* the next dump.  PSRAM, slot selection, load and jump are one step here  *)
(* (SlotBoot has them).  The three flash formats belong to the p4_* crates *)
(* and are modelled from the calls made to them.                           *)
(***************************************************************************)
EXTENDS Naturals, Sequences, Tails

CONSTANTS
    Causes,     \* the reset causes the chip may latch
    RingLen,    \* entries of the boot-history ring, 64
    StatLen,    \* records of the bootstat sector, 64
    Faults,     \* "torn": a reset may cut a sector rewrite;
                \* "store": a flash write may fail; "read": a flash read may
    MaxBoots    \* bound: resets

\* bootloader::reset_cause::Cause, as far as the causes appear in src/.
SelfCause == {"DigitalSystemSoftware", "HpCoreSoftware", "PmuHpSystemPowerDown", "HpCoreLockup",
              "HpWatchdogSystem", "LpWatchdogSystem", "HpWatchdogCore", "LpWatchdogCore",
              "LpWatchdogChip", "SuperWatchdog"}

OuterCause == {"PowerOn", "UsbUartChip", "UsbJtagChip", "HpJtag", "BrownOut", "Glitch",
               "EfuseCrc", "Unknown"}

ASSUME DiagnosticsAssumption ==
    /\ Causes \subseteq SelfCause \cup OuterCause
    /\ RingLen \in Nat \ {0} /\ StatLen \in Nat \ {0} /\ MaxBoots \in Nat
    /\ Faults \subseteq {"torn", "store", "read"}

Fault(f) == f \in Faults

Watchdogs == {"HpWatchdogSystem", "LpWatchdogSystem", "HpWatchdogCore", "LpWatchdogCore",
              "LpWatchdogChip", "SuperWatchdog"}

-----------------------------------------------------------------------------
(***************************************************************************)
(* The two readings of a reset cause.                                      *)
(***************************************************************************)
\* boot_history_report.rs
HistoryReason(c) ==
    CASE c = "PowerOn"                                      -> "POWER_ON"
      [] c \in {"UsbUartChip", "UsbJtagChip", "HpJtag"}     -> "EXTERNAL_RESET"
      [] c \in {"DigitalSystemSoftware", "HpCoreSoftware",
                "PmuHpSystemPowerDown", "HpCoreLockup"}     -> "SOFTWARE_RESET"
      [] c \in Watchdogs                                    -> "WATCHDOG_RESET"
      [] c = "BrownOut"                                     -> "BROWNOUT_RESET"
      [] c \in {"Glitch", "EfuseCrc"}                       -> "INTRUSION"
      [] OTHER                                              -> "UNKNOWN"

HistoryReasons == {"POWER_ON", "EXTERNAL_RESET", "SOFTWARE_RESET", "WATCHDOG_RESET",
                   "BROWNOUT_RESET", "INTRUSION", "UNKNOWN", "CRASH_RECOVERY", "REFINED"}

StatReasonGlitchless(c) ==      \* mutant: integrity events end up in Unknown
    CASE c = "PowerOn"                                      -> "PowerOn"
      [] c \in {"UsbUartChip", "UsbJtagChip"}               -> "ExternalReset"
      [] c = "HpJtag"                                       -> "JtagReset"
      [] c \in {"DigitalSystemSoftware", "HpCoreSoftware"}  -> "SoftwareReset"
      [] c = "PmuHpSystemPowerDown"                         -> "DeepSleepWake"
      [] c \in Watchdogs \cup {"HpCoreLockup"}              -> "WatchdogTimer"
      [] c = "BrownOut"                                     -> "Brownout"
      [] OTHER                                              -> "Unknown"

\* bootstat_report.rs
StatReason(c) ==
    CASE c = "PowerOn"                                      -> "PowerOn"
      [] c \in {"UsbUartChip", "UsbJtagChip"}               -> "ExternalReset"
      [] c = "HpJtag"                                       -> "JtagReset"
      [] c \in {"DigitalSystemSoftware", "HpCoreSoftware"}  -> "SoftwareReset"
      [] c = "PmuHpSystemPowerDown"                         -> "DeepSleepWake"
      [] c \in Watchdogs \cup {"HpCoreLockup"}              -> "WatchdogTimer"
      [] c = "BrownOut"                                     -> "Brownout"
      [] c \in {"Glitch", "EfuseCrc"}                       -> "Intrusion"
      [] OTHER                                              -> "Unknown"

StatReasons == {"PowerOn", "ExternalReset", "JtagReset", "SoftwareReset", "DeepSleepWake",
                "WatchdogTimer", "Brownout", "Intrusion", "Unknown", "PanicReset"}

-----------------------------------------------------------------------------
VARIABLES
    dump,       \* flash: the crashdump sector; "bad" has the magic only
    log,        \* flash: the ring, oldest entry first; empty when it does not decode
    stat,       \* flash: the newest bootstat record; fresh when there is none
    used,       \* flash: records in the bootstat sector
    phase,      \* the step of main() to run next, or who is running
    cause,      \* the latched reset cause
    crash_was_present,  \* local of main
    ram_log, ram_stat,  \* what record_and_print is about to store
    boots,      \* resets so far
    \* History variables, read by no guard.
    failed,     \* what this boot could not do: read the magic, print the dump,
                \* store the ring, store the record
    owed,       \* what the panic whose dump is in flash has not had yet: its
                \* dump printed, an entry in the ring, a record in bootstat
    told,       \* every entry stored in the ring since it was last lost
    panics,     \* panics since the counters last started over, without those
                \* whose dump has gone uncounted
    last_end    \* how the run before this boot ended

flash == <<dump, log, stat, used>>
locals == <<crash_was_present, ram_log, ram_stat>>
sagas == <<failed, owed, told, panics, last_end>>
vars == <<flash, phase, cause, locals, boots, sagas>>

\* p4_bootstat's record, without the fields the bootloader copies along.
Record == [boot_count : Nat, crash_count : Nat, last_reason : StatReasons]
freshStat == [boot_count |-> 0, crash_count |-> 0, last_reason |-> "Unknown"]

\* main() up to the hand-off: it may panic anywhere here.
Booting == {"rom", "report", "history", "log_program", "bootstat", "stat_program", "rest"}

\* The ring and the bootstat sector stay within their sectors, and every
\* reason in them is one of its taxonomy.
TypeOK ==
    /\ dump \in {"none", "bad", "good"}
    /\ log \in Seq(HistoryReasons) /\ Len(log) <= RingLen
    /\ ram_log \in Seq(HistoryReasons) /\ Len(ram_log) <= RingLen
    /\ stat \in Record /\ ram_stat \in Record
    /\ used \in 0..StatLen
    /\ phase \in Booting \cup {"app", "heartbeat", "dump_program", "app_dump_program",
                               "halted", "panicked"}
    /\ cause \in Causes
    /\ crash_was_present \in BOOLEAN
    /\ boots \in 0..MaxBoots
    /\ failed \in SUBSET {"magic", "print", "history", "bootstat"}
    /\ owed \in SUBSET {"print", "history", "bootstat"}
    /\ told \in Seq(HistoryReasons)
    /\ panics \in Nat
    /\ last_end \in {"panic", "other"}

\* A device with blank diagnostics partitions.
Init ==
    /\ dump = "none" /\ log = <<>> /\ stat = freshStat /\ used = 0
    /\ phase = "rom" /\ cause \in Causes \ SelfCause
    /\ crash_was_present = FALSE /\ ram_log = <<>> /\ ram_stat = freshStat
    /\ boots = 0
    /\ failed = {} /\ owed = {} /\ told = <<>> /\ panics = 0 /\ last_end = "other"

-----------------------------------------------------------------------------
(***************************************************************************)
(* What a boot that ends in the middle of a rewrite does to the accounts.  *)
(***************************************************************************)
Uncounted == IF "bootstat" \in owed THEN 1 ELSE 0

RingMayBeCut == told' = IF phase = "log_program" THEN <<>> ELSE told

CountMayBeCut == panics' = IF phase = "stat_program" THEN Uncounted ELSE panics

(***************************************************************************)
(* Resets.  The app, its watchdogs and a panicked app reset the chip from  *)
(* inside; anything else may at any time.                                  *)
(***************************************************************************)
Dumping == phase \in {"dump_program", "app_dump_program"}

Reset(c) ==
    /\ boots < MaxBoots
    /\ c \in SelfCause => phase \in {"app", "panicked"}
    /\ Dumping \/ phase \in {"log_program", "stat_program"} => Fault("torn")
    /\ boots' = boots + 1
    /\ phase' = "rom"
    /\ cause' = c
    /\ crash_was_present' = FALSE /\ ram_log' = <<>> /\ ram_stat' = freshStat
    /\ dump' \in IF Dumping THEN {"none", "bad"} ELSE {dump}
    /\ failed' = {}
    /\ RingMayBeCut /\ CountMayBeCut
    /\ last_end' = IF phase \in {"halted", "panicked"} THEN "panic" ELSE "other"
    /\ UNCHANGED <<log, stat, used, owed>>

-----------------------------------------------------------------------------
(***************************************************************************)
(* main(), the diagnostics in front of PSRAM and app.                      *)
(***************************************************************************)
\* is_present looks at the magic only, and takes one it cannot read for none.
CheckDump ==
    /\ phase = "rom"
    /\ \/ crash_was_present' = (dump # "none") /\ UNCHANGED failed
       \/ Fault("read") /\ crash_was_present' = FALSE /\ failed' = {"magic"}
    /\ phase' = "report"
    /\ UNCHANGED <<flash, cause, ram_log, ram_stat, boots, owed, told, panics, last_end>>

PrintDumpAfterReset ==     \* mutant: only a software reset is taken for a panic's
    /\ phase = "report"
    /\ dump = "good"
    /\ owed' = IF cause = "HpCoreSoftware" THEN owed \ {"print"} ELSE owed
    /\ phase' = "history"
    /\ UNCHANGED <<flash, cause, locals, boots, failed, told, panics, last_end>>

\* print_if_present, which tests the magic again: the whole dump is printed,
PrintDump ==
    /\ phase = "report"
    /\ dump = "good"
    /\ owed' = owed \ {"print"}
    /\ phase' = "history"
    /\ UNCHANGED <<flash, cause, locals, boots, failed, told, panics, last_end>>

\* or there is none, or it is named as one that does not decode or that one of
\* the two reads has failed on.
PrintNothing ==
    /\ phase = "report"
    /\ \/ dump # "good" /\ UNCHANGED failed
       \/ Fault("read") /\ failed' = failed \cup {"print"}
    /\ phase' = "history"
    /\ UNCHANGED <<flash, cause, locals, boots, owed, told, panics, last_end>>

boot_reason == IF crash_was_present THEN "CRASH_RECOVERY" ELSE HistoryReason(cause)

HistoryEraseFirst ==     \* mutant: the ring is loaded after the erase
    /\ phase = "history"
    /\ ram_log' = Appended(<<>>, boot_reason, RingLen)
    /\ log' = <<>>
    /\ phase' = "log_program"
    /\ UNCHANGED <<dump, stat, used, cause, crash_was_present, ram_stat, boots, sagas>>

\* load_from_flash_or_empty, append and the erase of store_to_flash.  A ring
\* that cannot be read is taken for an empty one, and is lost with the erase.
HistoryErase ==
    /\ phase = "history"
    /\ \/ ram_log' = Appended(log, boot_reason, RingLen) /\ UNCHANGED told
       \/ Fault("read") /\ ram_log' = Appended(<<>>, boot_reason, RingLen) /\ told' = <<>>
    /\ log' = <<>>
    /\ phase' = "log_program"
    /\ UNCHANGED <<dump, stat, used, cause, crash_was_present, ram_stat, boots, failed, owed, panics, last_end>>

HistoryProgram ==
    /\ phase = "log_program"
    /\ log' = ram_log
    /\ told' = Append(told, boot_reason)
    /\ owed' = IF log'[Len(log')] = "CRASH_RECOVERY" THEN owed \ {"history"} ELSE owed
    /\ ram_log' = <<>>
    /\ phase' = "bootstat"
    /\ UNCHANGED <<dump, stat, used, cause, crash_was_present, ram_stat, boots, failed, panics, last_end>>

\* A failed write is logged and the boot goes on, at worst without the ring.
HistoryFails ==
    /\ phase \in {"history", "log_program"}
    /\ Fault("store")
    /\ failed' = failed \cup {"history"}
    /\ RingMayBeCut
    /\ ram_log' = <<>>
    /\ phase' = "bootstat"
    /\ UNCHANGED <<flash, cause, crash_was_present, ram_stat, boots, owed, panics, last_end>>

boot_stat_reason_cause == StatReason(cause)     \* mutant: no override

boot_stat_reason == IF crash_was_present THEN "PanicReset" ELSE StatReason(cause)

\* What "for crash-counting purposes" is a crash: panics and watchdogs; not
\* external, software or wake-up resets.  src/ does not say of the others.
CrashReasons == {"PanicReset", "WatchdogTimer"}

record_boot(prev) ==
    [boot_count  |-> prev.boot_count + 1,
     crash_count |-> IF boot_stat_reason \in CrashReasons THEN prev.crash_count + 1
                                                          ELSE prev.crash_count,
     last_reason |-> boot_stat_reason]

\* load_latest_or_fresh and record_boot.  A sector that cannot be read is taken
\* for a blank one, and the counters start over.
NextRecord(next) ==
    \/ next = record_boot(stat) /\ UNCHANGED panics
    \/ Fault("read") /\ next = record_boot(freshStat) /\ panics' = Uncounted

Recorded == owed' = IF stat'.last_reason = "PanicReset" THEN owed \ {"bootstat"} ELSE owed

StatAppendPastEnd ==        \* mutant: off by one at a full sector
    /\ phase = "bootstat"
    /\ used <= StatLen
    /\ NextRecord(stat')
    /\ Recorded
    /\ used' = used + 1
    /\ phase' = "rest"
    /\ UNCHANGED <<dump, log, cause, locals, boots, failed, told, last_end>>

\* append_record: a free record is programmed at once, a full sector is
\* rewritten.
StatAppend ==
    /\ phase = "bootstat"
    /\ used < StatLen
    /\ NextRecord(stat')
    /\ Recorded
    /\ used' = used + 1
    /\ phase' = "rest"
    /\ UNCHANGED <<dump, log, cause, locals, boots, failed, told, last_end>>

StatEraseFirst ==        \* mutant: the counters are read after the erase
    /\ phase = "bootstat"
    /\ used = StatLen
    /\ ram_stat' = record_boot(freshStat)
    /\ stat' = freshStat
    /\ used' = 0
    /\ phase' = "stat_program"
    /\ UNCHANGED <<dump, log, cause, crash_was_present, ram_log, boots, sagas>>

StatErase ==
    /\ phase = "bootstat"
    /\ used = StatLen
    /\ NextRecord(ram_stat')
    /\ stat' = freshStat
    /\ used' = 0
    /\ phase' = "stat_program"
    /\ UNCHANGED <<dump, log, cause, crash_was_present, ram_log, boots, failed, owed, told, last_end>>

StatProgram ==
    /\ phase = "stat_program"
    /\ stat' = ram_stat
    /\ Recorded
    /\ used' = 1
    /\ ram_stat' = freshStat
    /\ phase' = "rest"
    /\ UNCHANGED <<dump, log, cause, crash_was_present, ram_log, boots, failed, told, panics, last_end>>

StatFails ==
    /\ phase \in {"bootstat", "stat_program"}
    /\ Fault("store")
    /\ failed' = failed \cup {"bootstat"}
    /\ CountMayBeCut
    /\ ram_stat' = freshStat
    /\ phase' = "rest"
    /\ UNCHANGED <<flash, cause, crash_was_present, ram_log, boots, owed, told, last_end>>

\* PSRAM, pick, verify, load: SlotBoot.
RestOfBoot ==
    /\ phase = "rest"
    /\ phase' \in {"app", "heartbeat"}
    /\ UNCHANGED <<flash, cause, locals, boots, sagas>>

-----------------------------------------------------------------------------
(***************************************************************************)
(* Panics: record_panic rewrites the crashdump sector.  The bootloader's   *)
(* handler then halts; the app's resets the chip or waits for a watchdog.  *)
(***************************************************************************)
Panic ==
    /\ phase \in Booting \cup {"app"}
    /\ phase' = IF phase = "app" THEN "app_dump_program" ELSE "dump_program"
    /\ dump' = "none"
    /\ owed' = {}
    /\ RingMayBeCut
    /\ panics' = IF phase = "stat_program" THEN 0 ELSE panics - Uncounted
    /\ UNCHANGED <<log, stat, used, cause, locals, boots, failed, last_end>>

AfterPanic == IF phase \in {"app", "app_dump_program"} THEN "panicked" ELSE "halted"

PanicProgram ==
    /\ Dumping
    /\ phase' = AfterPanic
    /\ dump' = "good"
    /\ owed' = {"print", "history", "bootstat"}
    /\ panics' = panics + 1
    /\ UNCHANGED <<log, stat, used, cause, locals, boots, failed, told, last_end>>

\* A dump that cannot be written: the old one is kept if it is the erase that
\* fails.
PanicFails ==
    /\ Fault("store")
    /\ \/ phase \in Booting \cup {"app"} /\ UNCHANGED dump
       \/ Dumping /\ dump' \in {"none", "bad"}
    /\ phase' = AfterPanic
    /\ RingMayBeCut /\ CountMayBeCut
    /\ UNCHANGED <<log, stat, used, cause, locals, boots, failed, owed, last_end>>

(***************************************************************************)
(* The app (external), as the bootloader's comments describe it.           *)
(***************************************************************************)
\* "the app erases after forwarding"
AppErasesDump ==
    /\ phase = "app"
    /\ dump # "none"
    /\ dump' = "none"
    /\ owed' = {}
    /\ panics' = panics - Uncounted
    /\ UNCHANGED <<log, stat, used, phase, cause, locals, boots, failed, told, last_end>>

\* "the app should append a refined entry once SYSTIMER is up"
AppRefines ==
    /\ phase = "app"
    /\ log # <<>> => log[Len(log)] # "REFINED"
    /\ log' = Appended(log, "REFINED", RingLen)
    /\ told' = Append(told, "REFINED")
    /\ UNCHANGED <<dump, stat, used, phase, cause, locals, boots, failed, owed, panics, last_end>>

\* heartbeat(), the halted hart, and the end of the bounded run.
Idle ==
    /\ phase \in {"heartbeat", "halted", "panicked", "app"}
    /\ UNCHANGED vars

Next ==
    \/ \E c \in Causes : Reset(c)
    \/ CheckDump \/ PrintDump \/ PrintNothing
    \/ HistoryErase \/ HistoryProgram \/ HistoryFails
    \/ StatAppend \/ StatErase \/ StatProgram \/ StatFails
    \/ RestOfBoot
    \/ Panic \/ PanicProgram \/ PanicFails
    \/ AppErasesDump \/ AppRefines
    \/ Idle

Spec == Init /\ [][Next]_vars

-----------------------------------------------------------------------------
(***************************************************************************)
(* Properties.                                                             *)
(***************************************************************************)

\* "a recurring crash that faults during PSRAM init or app load still gets
\* its previous-boot dump printed": nobody, neither the app nor the next
\* panic, removes a dump from flash that no boot has printed, except a panic
\* in front of or within the report, or after this boot could not read it.
PrintedBeforeLost ==
    [][(dump = "good" /\ dump' # "good") =>
          "print" \notin owed \/ "print" \in failed \/ phase \in {"rom", "report"}]_vars

\* bootlog is the "ring of the last 64 boots": outside a rewrite it holds the
\* newest entries stored since it was last lost, in order and without a gap,
\* over any number of boots, interrupted boots, failed stores and panics.  What
\* loses it is a rewrite that is cut, and one based on a read that failed.
RingIsRecentPast ==
    phase # "log_program" => log = LastOf(told, RingLen)

\* "without this override we'd miscount panics as clean SW resets": once the
\* diagnostics are done, a panic whose dump is in flash is in both accounts,
\* whatever cause the chip latched and however many boots were cut short or
\* panicked in between, unless this boot failed to read the magic or to store.
PanicReachesAccounts ==
    phase \in {"rest", "app", "heartbeat"} =>
        /\ "history" \in owed => {"magic", "history"} \cap failed # {}
        /\ "bootstat" \in owed => {"magic", "bootstat"} \cap failed # {}

\* crash_count is never below the panics since it last started over, except for
\* one whose dump is still to be counted and those whose dump went before that.
PanicsCounted ==
    phase # "stat_program" => panics <= stat.crash_count + Uncounted

\* "so cross-blob fleet queries see the same signal": the two accounts of one
\* boot agree on panics, integrity events, brownouts, power-on and unknown
\* causes, and a watchdog in the history is one in bootstat.
SameSignal ==
    (phase = "rest" /\ {"history", "bootstat"} \cap failed = {}) =>
        LET h == log[Len(log)]  s == stat.last_reason IN
        /\ h = "CRASH_RECOVERY" <=> s = "PanicReset"
        /\ h = "INTRUSION" <=> s = "Intrusion"
        /\ h = "BROWNOUT_RESET" <=> s = "Brownout"
        /\ h = "POWER_ON" <=> s = "PowerOn"
        /\ h = "UNKNOWN" <=> s = "Unknown"
        /\ h = "WATCHDOG_RESET" => s = "WatchdogTimer"

-----------------------------------------------------------------------------
(***************************************************************************)
(* A claim of the repository's comments that the code does not keep.       *)
(***************************************************************************)

\* src/bootstat_report.rs: "a valid crashdump magic on flash means the
\* previous boot definitely panicked".  So what is about to be recorded as
\* PanicReset is a panic of the run before, or at least one not recorded yet.
PanicMeansPreviousPanicked ==
    (phase = "bootstat" /\ boot_stat_reason = "PanicReset") =>
        last_end = "panic" \/ "bootstat" \in owed

-----------------------------------------------------------------------------
(***************************************************************************)
(* The inductive invariant (DiagnosticsProofs proves it).                  *)
(***************************************************************************)
\* What is owed is owed to a complete dump; main has seen whether there is one,
\* and past the report it has printed it, or failed to.
DumpInv ==
    /\ Dumping => dump = "none"
    /\ owed # {} => dump = "good"
    /\ phase \in Booting \ {"rom"} =>
          crash_was_present = (dump # "none") \/ ("magic" \in failed /\ ~crash_was_present)
    /\ phase \in (Booting \ {"rom", "report"}) \cup {"app", "heartbeat"} =>
          "print" \notin owed \/ "print" \in failed

\* The ring, in flash or in RAM, is the tail of what was stored; its newest
\* entry is that of this boot.
RingInv ==
    /\ RingIsRecentPast
    /\ phase = "log_program" =>
          log = <<>> /\ ram_log = Appended(LastOf(told, RingLen), boot_reason, RingLen)
    /\ phase \in {"bootstat", "stat_program", "rest"} /\ "history" \notin failed =>
          log # <<>> /\ log[Len(log)] = boot_reason

\* The newest record, in flash or in RAM, is that of this boot, and it counts
\* all that is not owed.
StatInv ==
    /\ PanicsCounted
    /\ Uncounted <= panics
    /\ phase = "stat_program" =>
          /\ stat = freshStat /\ ram_stat.last_reason = boot_stat_reason
          /\ panics <= ram_stat.crash_count + (IF crash_was_present THEN 0 ELSE Uncounted)
    /\ (phase = "rest" /\ "bootstat" \notin failed) => stat.last_reason = boot_stat_reason

\* An account that main is past has the panic, unless this boot could not.
AccountInv ==
    /\ PanicReachesAccounts
    /\ phase \in {"bootstat", "stat_program"} /\ "history" \in owed =>
          {"magic", "history"} \cap failed # {}

IInv == TypeOK /\ DumpInv /\ RingInv /\ StatInv /\ AccountInv
=============================================================================
