------------------------- MODULE DiagnosticsProofs -------------------------
(***************************************************************************)
(* The accounts of a boot, for every set of causes and faults, rings and   *)
(* sectors of every size, and any number of boots.                         *)
(***************************************************************************)
EXTENDS Diagnostics, TailsProofs

LEMMA Parameters == RingLen \in Nat \ {0} /\ StatLen \in Nat \ {0} /\ MaxBoots \in Nat
  BY DiagnosticsAssumption

LEMMA ReasonsTyped ==
    /\ boot_reason \in HistoryReasons
    /\ boot_stat_reason \in StatReasons
  BY DEF boot_reason, boot_stat_reason, HistoryReason, StatReason, HistoryReasons, StatReasons,
         Watchdogs

\* Both are fresh: the empty ring and the record of a blank sector.
LEMMA FreshTyped ==
    /\ <<>> \in Seq(HistoryReasons) /\ Len(<<>>) = 0
    /\ freshStat \in Record
    /\ freshStat.crash_count = 0
  BY EmptySeq DEF Record, freshStat, StatReasons

\* A boot that has seen a dump counts it.
LEMMA PanicIsCounted ==
    ASSUME NEW prev \in Record
    PROVE  /\ record_boot(prev) \in Record
           /\ record_boot(prev).last_reason = boot_stat_reason
           /\ record_boot(prev).crash_count \in Nat
           /\ record_boot(prev).crash_count >= prev.crash_count
           /\ crash_was_present => record_boot(prev).crash_count = prev.crash_count + 1
  BY ReasonsTyped DEF Record, record_boot, boot_stat_reason, CrashReasons

\* PanicReset says that main has seen a dump.
LEMMA PanicResetSeen == boot_stat_reason = "PanicReset" <=> crash_was_present
  BY DEF boot_stat_reason, StatReason, Watchdogs

\* The entry that a boot is about to store is the newest of its ring.
LEMMA LastOfIsLast ==
    ASSUME told \in Seq(HistoryReasons)
    PROVE  LET ring == Appended(LastOf(told, RingLen), boot_reason, RingLen)
           IN  ring # <<>> /\ ring[Len(ring)] = boot_reason
  <1> DEFINE l == LastOf(told, RingLen)
  <1>1. Len(told) \in Nat
    BY LenProperties
  <1>2. l \in Seq(HistoryReasons) /\ Len(l) <= RingLen
    BY <1>1, LastOfProperties, Parameters
  <1> HIDE DEF l
  <1>3. /\ Appended(l, boot_reason, RingLen) # <<>>
        /\ Appended(l, boot_reason, RingLen)[Len(Appended(l, boot_reason, RingLen))] = boot_reason
    BY <1>2, AppendedProperties, Parameters, ReasonsTyped
  <1> QED BY <1>3 DEF l

-----------------------------------------------------------------------------
LEMMA TypeInit == Init => TypeOK
  <1> SUFFICES ASSUME Init PROVE TypeOK
    OBVIOUS
  <1>1. used = 0 /\ 0 \in 0..StatLen /\ boots = 0 /\ 0 \in 0..MaxBoots /\ 0 <= RingLen
    BY Parameters DEF Init
  <1>2. cause \in Causes /\ phase \in Booting
    BY DEF Init, Booting
  <1> QED BY <1>1, <1>2, FreshTyped, Zenon DEF Init, TypeOK

\* Every step keeps the types and the sizes of ring and sector.
LEMMA TypeStep == TypeOK /\ Uncounted <= panics /\ [Next]_vars => TypeOK'
  <1> SUFFICES ASSUME TypeOK, Uncounted <= panics, [Next]_vars
               PROVE  TypeOK'
    OBVIOUS
  <1> USE Parameters, ReasonsTyped DEF TypeOK, Booting, Dumping, Uncounted
  <1>0. /\ <<>> \in Seq(HistoryReasons) /\ Len(<<>>) = 0
        /\ freshStat \in Record /\ record_boot(stat) \in Record /\ record_boot(freshStat) \in Record
    BY FreshTyped, PanicIsCounted
  <1>1. ASSUME NEW c \in Causes, Reset(c) PROVE TypeOK'
    <2>1. dump' \in {"none", "bad", "good"} /\ last_end' \in {"panic", "other"}
      BY <1>1 DEF Reset
    <2>2. boots' \in 0..MaxBoots /\ phase' = "rom" /\ cause' \in Causes /\ failed' = {}
      BY <1>1 DEF Reset
    <2>3. told' \in Seq(HistoryReasons) /\ panics' \in Nat
      BY <1>0, <1>1 DEF Reset, RingMayBeCut, CountMayBeCut
    <2>4. /\ crash_was_present' = FALSE /\ ram_log' = <<>> /\ ram_stat' = freshStat
          /\ UNCHANGED <<log, stat, used, owed>>
      BY <1>1 DEF Reset
    <2>5. log' \in Seq(HistoryReasons) /\ Len(log') <= RingLen /\ ram_log' \in Seq(HistoryReasons)
          /\ Len(ram_log') <= RingLen /\ stat' \in Record /\ ram_stat' \in Record
          /\ used' \in 0..StatLen /\ owed' \in SUBSET {"print", "history", "bootstat"}
      BY <2>4, <1>0
    <2> QED BY <2>1, <2>2, <2>3, <2>4, <2>5
  <1>2. CASE CheckDump
    BY <1>2 DEF CheckDump, flash, locals, sagas
  <1>3. CASE PrintDump
    BY <1>3 DEF PrintDump, flash, locals, sagas
  <1>4. CASE PrintNothing
    BY <1>4 DEF PrintNothing, flash, locals, sagas
  <1>5. CASE HistoryErase
    <2>1. ASSUME NEW l \in Seq(HistoryReasons), Len(l) <= RingLen
          PROVE  /\ Appended(l, boot_reason, RingLen) \in Seq(HistoryReasons)
                 /\ Len(Appended(l, boot_reason, RingLen)) <= RingLen
      BY <2>1, AppendedProperties, LenProperties
    <2>2. /\ ram_log' \in Seq(HistoryReasons) /\ Len(ram_log') <= RingLen
          /\ told' \in Seq(HistoryReasons)
      <3>1. \/ ram_log' = Appended(log, boot_reason, RingLen) /\ told' = told
            \/ ram_log' = Appended(<<>>, boot_reason, RingLen) /\ told' = <<>>
        BY <1>5 DEF HistoryErase
      <3>2. 0 <= RingLen
        OBVIOUS
      <3>3. /\ Appended(log, boot_reason, RingLen) \in Seq(HistoryReasons)
            /\ Len(Appended(log, boot_reason, RingLen)) <= RingLen
            /\ Appended(<<>>, boot_reason, RingLen) \in Seq(HistoryReasons)
            /\ Len(Appended(<<>>, boot_reason, RingLen)) <= RingLen
        BY <1>0, <2>1, <3>2
      <3> QED BY <1>0, <3>1, <3>3
    <2> QED BY <1>0, <1>5, <2>2 DEF HistoryErase
  <1>6. CASE HistoryProgram
    <2>1. owed' \in SUBSET {"print", "history", "bootstat"}
      BY <1>6 DEF HistoryProgram
    <2> QED BY <1>0, <1>6, <2>1, AppendProperties DEF HistoryProgram
  <1>7. CASE HistoryFails
    BY <1>0, <1>7 DEF HistoryFails, RingMayBeCut, flash
  <1>8. CASE StatAppend
    BY <1>0, <1>8 DEF StatAppend, NextRecord, Recorded, locals
  <1>9. CASE StatErase
    BY <1>0, <1>9 DEF StatErase, NextRecord
  <1>10. CASE StatProgram
    BY <1>0, <1>10 DEF StatProgram, Recorded
  <1>11. CASE StatFails
    BY <1>0, <1>11 DEF StatFails, CountMayBeCut, flash
  <1>12. CASE RestOfBoot
    BY <1>12 DEF RestOfBoot, flash, locals, sagas
  <1>13. CASE Panic
    <2>1. panics' \in Nat /\ told' \in Seq(HistoryReasons)
      BY <1>0, <1>13 DEF Panic, RingMayBeCut
    <2> QED BY <1>13, <2>1 DEF Panic, locals
  <1>14. CASE PanicProgram
    BY <1>14 DEF PanicProgram, AfterPanic, locals
  <1>15. CASE PanicFails
    <2>1. panics' \in Nat /\ told' \in Seq(HistoryReasons)
      BY <1>0, <1>15 DEF PanicFails, RingMayBeCut, CountMayBeCut
    <2> QED BY <1>15, <2>1 DEF PanicFails, AfterPanic, locals
  <1>16. CASE AppErasesDump
    <2>1. panics' \in Nat
      BY <1>0, <1>16 DEF AppErasesDump
    <2> QED BY <1>16, <2>1 DEF AppErasesDump, locals
  <1>17. CASE AppRefines
    <2>1. "REFINED" \in HistoryReasons
      BY DEF HistoryReasons
    <2>2. /\ Appended(log, "REFINED", RingLen) \in Seq(HistoryReasons)
          /\ Len(Appended(log, "REFINED", RingLen)) <= RingLen
      BY <2>1, AppendedProperties, LenProperties
    <2> QED BY <1>17, <2>1, <2>2, AppendProperties DEF AppRefines, locals
  <1>18. CASE Idle \/ UNCHANGED vars
    BY <1>18 DEF Idle, vars, flash, locals, sagas
  <1> QED BY <1>1, <1>2, <1>3, <1>4, <1>5, <1>6, <1>7, <1>8, <1>9,
            <1>10, <1>11, <1>12, <1>13, <1>14, <1>15, <1>16, <1>17, <1>18 DEF Next

-----------------------------------------------------------------------------
(* The dump.                                                               *)

LEMMA DumpStep == TypeOK /\ DumpInv /\ [Next]_vars => DumpInv'
  <1> SUFFICES ASSUME TypeOK, DumpInv, [Next]_vars
               PROVE  DumpInv'
    OBVIOUS
  <1> USE DEF TypeOK, DumpInv, Dumping, Booting
  <1>1. ASSUME NEW c \in Causes, Reset(c) PROVE DumpInv'
    BY <1>1 DEF Reset, flash, locals, sagas
  <1>2. CASE CheckDump
    BY <1>2 DEF CheckDump, flash, locals, sagas
  <1>3. CASE PrintDump
    BY <1>3 DEF PrintDump, flash, locals, sagas
  <1>4. CASE PrintNothing
    BY <1>4 DEF PrintNothing, flash, locals, sagas
  <1>5. CASE HistoryErase
    BY <1>5 DEF HistoryErase, flash, locals, sagas
  <1>6. CASE HistoryProgram
    BY <1>6 DEF HistoryProgram, flash, locals, sagas
  <1>7. CASE HistoryFails
    BY <1>7 DEF HistoryFails, flash, locals, sagas
  <1>8. CASE StatAppend
    BY <1>8 DEF StatAppend, Recorded, NextRecord, flash, locals, sagas
  <1>9. CASE StatErase
    BY <1>9 DEF StatErase, NextRecord, flash, locals, sagas
  <1>10. CASE StatProgram
    BY <1>10 DEF StatProgram, Recorded, flash, locals, sagas
  <1>11. CASE StatFails
    BY <1>11 DEF StatFails, flash, locals, sagas
  <1>12. CASE RestOfBoot
    BY <1>12 DEF RestOfBoot, flash, locals, sagas
  <1>13. CASE Panic
    BY <1>13 DEF Panic, flash, locals, sagas
  <1>14. CASE PanicProgram
    BY <1>14 DEF PanicProgram, AfterPanic, flash, locals, sagas
  <1>15. CASE PanicFails
    BY <1>15 DEF PanicFails, AfterPanic, flash, locals, sagas
  <1>16. CASE AppErasesDump
    BY <1>16 DEF AppErasesDump, flash, locals, sagas
  <1>17. CASE AppRefines
    BY <1>17 DEF AppRefines, flash, locals, sagas
  <1>18. CASE Idle \/ UNCHANGED vars
    BY <1>18 DEF Idle, vars, flash, locals, sagas
  <1> QED BY <1>1, <1>2, <1>3, <1>4, <1>5, <1>6, <1>7, <1>8, <1>9,
            <1>10, <1>11, <1>12, <1>13, <1>14, <1>15, <1>16, <1>17, <1>18 DEF Next

-----------------------------------------------------------------------------
(* The history.                                                            *)

LEMMA RingStep == TypeOK /\ RingInv /\ [Next]_vars => RingInv'
  <1> SUFFICES ASSUME TypeOK, RingInv, [Next]_vars
               PROVE  RingInv'
    OBVIOUS
  <1> USE Parameters, ReasonsTyped DEF TypeOK, RingInv, RingIsRecentPast
  <1>0. LastOf(<<>>, RingLen) = <<>>
    BY EmptySeq DEF LastOf
  <1>1. ASSUME NEW c \in Causes, Reset(c) PROVE RingInv'
    <2>1. log' = LastOf(told', RingLen)
      BY <1>1, <1>0 DEF Reset, RingMayBeCut
    <2> QED BY <1>1, <2>1 DEF Reset
  <1>2. CASE CheckDump
    BY <1>2 DEF CheckDump, boot_reason, flash, locals, sagas
  <1>3. CASE PrintDump
    BY <1>3 DEF PrintDump, boot_reason, flash, locals, sagas
  <1>4. CASE PrintNothing
    BY <1>4 DEF PrintNothing, boot_reason, flash, locals, sagas
  <1>5. CASE HistoryErase
    <2>1. LastOf(<<>>, RingLen) = <<>> /\ log = LastOf(told, RingLen)
      BY <1>5, EmptySeq DEF HistoryErase, LastOf
    <2>2. boot_reason' = boot_reason
      BY <1>5 DEF HistoryErase, boot_reason
    <2>3. ram_log' = Appended(LastOf(told', RingLen), boot_reason', RingLen)
      BY <1>5, <2>1, <2>2 DEF HistoryErase
    <2> QED BY <1>5, <2>3 DEF HistoryErase
  <1>6. CASE HistoryProgram
    <2>1. boot_reason' = boot_reason
      BY <1>6 DEF HistoryProgram, boot_reason
    <2>2. log' = LastOf(told', RingLen)
      BY <1>6, AppendToTail DEF HistoryProgram
    <2>4. log' # <<>> /\ log'[Len(log')] = boot_reason
      BY <1>6, LastOfIsLast DEF HistoryProgram
    <2> QED BY <1>6, <2>1, <2>2, <2>4 DEF HistoryProgram
  <1>7. CASE HistoryFails
    <2>1. log' = LastOf(told', RingLen)
      BY <1>7, <1>0 DEF HistoryFails, RingMayBeCut, flash
    <2> QED BY <1>7, <2>1 DEF HistoryFails
  <1>8. CASE StatAppend
    BY <1>8 DEF StatAppend, boot_reason, flash, locals, sagas
  <1>9. CASE StatErase
    BY <1>9 DEF StatErase, boot_reason, flash, locals, sagas
  <1>10. CASE StatProgram
    BY <1>10 DEF StatProgram, boot_reason, flash, locals, sagas
  <1>11. CASE StatFails
    BY <1>11 DEF StatFails, boot_reason, flash, locals, sagas
  <1>12. CASE RestOfBoot
    BY <1>12 DEF RestOfBoot, boot_reason, flash, locals, sagas
  <1>13. CASE Panic
    <2>1. log' = LastOf(told', RingLen)
      BY <1>13, <1>0 DEF Panic, RingMayBeCut
    <2> QED BY <1>13, <2>1 DEF Panic
  <1>14. CASE PanicProgram
    BY <1>14 DEF PanicProgram, AfterPanic, Dumping
  <1>15. CASE PanicFails
    <2>1. log' = LastOf(told', RingLen)
      BY <1>15, <1>0 DEF PanicFails, RingMayBeCut
    <2> QED BY <1>15, <2>1 DEF PanicFails, AfterPanic
  <1>16. CASE AppErasesDump
    BY <1>16 DEF AppErasesDump, boot_reason, flash, locals, sagas
  <1>17. CASE AppRefines
    <2>1. "REFINED" \in HistoryReasons
      BY DEF HistoryReasons
    <2>2. Appended(LastOf(told, RingLen), "REFINED", RingLen) = LastOf(told', RingLen)
      BY <1>17, <2>1, AppendToTail DEF AppRefines
    <2> QED BY <1>17, <2>2 DEF AppRefines
  <1>18. CASE Idle \/ UNCHANGED vars
    BY <1>18 DEF Idle, vars, boot_reason, flash, locals, sagas
  <1> QED BY <1>1, <1>2, <1>3, <1>4, <1>5, <1>6, <1>7, <1>8, <1>9,
            <1>10, <1>11, <1>12, <1>13, <1>14, <1>15, <1>16, <1>17, <1>18 DEF Next

-----------------------------------------------------------------------------
(* The counters.                                                           *)

LEMMA StatStep == TypeOK /\ DumpInv /\ StatInv /\ [Next]_vars => StatInv'
  <1> SUFFICES ASSUME TypeOK, DumpInv, StatInv, [Next]_vars
               PROVE  StatInv'
    OBVIOUS
  <1> USE DEF TypeOK, Dumping, Booting, StatInv, PanicsCounted, Uncounted
  <1>0. /\ stat.crash_count \in Nat /\ freshStat.crash_count = 0
        /\ \A prev \in {stat, freshStat} :
              /\ record_boot(prev).last_reason = boot_stat_reason
              /\ record_boot(prev).crash_count \in Nat
              /\ record_boot(prev).crash_count >= prev.crash_count
              /\ crash_was_present => record_boot(prev).crash_count = prev.crash_count + 1
    BY PanicIsCounted, FreshTyped DEF Record
  <1>c. /\ UNCHANGED <<cause, crash_was_present>> => boot_stat_reason' = boot_stat_reason
        /\ boot_stat_reason = "PanicReset" <=> crash_was_present
    BY PanicResetSeen DEF boot_stat_reason
  <1>1. ASSUME NEW c \in Causes, Reset(c) PROVE StatInv'
    BY <1>0, <1>1 DEF Reset, CountMayBeCut
  <1>2. CASE CheckDump
    BY <1>2 DEF CheckDump, boot_stat_reason, flash, locals, sagas
  <1>3. CASE PrintDump
    BY <1>3 DEF PrintDump, boot_stat_reason, flash, locals, sagas
  <1>4. CASE PrintNothing
    BY <1>4 DEF PrintNothing, boot_stat_reason, flash, locals, sagas
  <1>5. CASE HistoryErase
    BY <1>5 DEF HistoryErase, boot_stat_reason, flash, locals, sagas
  <1>6. CASE HistoryProgram
    BY <1>6 DEF HistoryProgram, boot_stat_reason, flash, locals, sagas
  <1>7. CASE HistoryFails
    BY <1>7 DEF HistoryFails, boot_stat_reason, flash, locals, sagas
  <1>8. CASE StatAppend
    <2>1. \/ stat' = record_boot(stat) /\ panics' = panics
          \/ stat' = record_boot(freshStat) /\ panics' = Uncounted
      BY <1>8 DEF StatAppend, NextRecord
    <2>2. /\ stat'.last_reason = boot_stat_reason /\ stat'.crash_count \in Nat
          /\ panics' <= stat'.crash_count + (IF crash_was_present THEN 0 ELSE Uncounted)
          /\ Uncounted <= panics'
      BY <1>8, <2>1, <1>0 DEF StatAppend
    <2>3. Uncounted' = IF crash_was_present THEN 0 ELSE Uncounted
      BY <1>8, <2>2, <1>c DEF StatAppend, Recorded
    <2>4. phase' = "rest" /\ boot_stat_reason' = boot_stat_reason
      BY <1>8, <1>c DEF StatAppend, locals
    <2>5. panics' <= stat'.crash_count + Uncounted' /\ Uncounted' <= panics'
      <3>1. CASE crash_was_present
        <4>1. Uncounted' = 0
          BY <2>3, <3>1
        <4>2. panics' <= stat'.crash_count + 0 /\ 0 <= Uncounted /\ panics' \in Nat
          BY <2>1, <2>2, <3>1
        <4> QED BY <4>1, <4>2, <2>2
      <3>2. CASE ~crash_was_present
        BY <2>2, <2>3, <3>2
      <3> QED BY <3>1, <3>2
    <2> HIDE DEF Uncounted, TypeOK
    <2> QED BY <2>2, <2>4, <2>5
  <1>9. CASE StatErase
    <2>1. \/ ram_stat' = record_boot(stat) /\ panics' = panics
          \/ ram_stat' = record_boot(freshStat) /\ panics' = Uncounted
      BY <1>9 DEF StatErase, NextRecord
    <2>2. /\ ram_stat'.last_reason = boot_stat_reason
          /\ panics' <= ram_stat'.crash_count + (IF crash_was_present THEN 0 ELSE Uncounted)
          /\ Uncounted <= panics'
      BY <1>9, <2>1, <1>0 DEF StatErase
    <2> QED BY <1>9, <2>2, <1>c DEF StatErase
  <1>10. CASE StatProgram
    <2>1. /\ stat'.last_reason = boot_stat_reason
          /\ panics' <= stat'.crash_count + (IF crash_was_present THEN 0 ELSE Uncounted)
          /\ Uncounted <= panics'
      BY <1>10 DEF StatProgram
    <2> QED BY <1>10, <2>1, <1>c DEF StatProgram, Recorded
  <1>11. CASE StatFails
    BY <1>0, <1>11 DEF StatFails, CountMayBeCut, flash
  <1>12. CASE RestOfBoot
    BY <1>12 DEF RestOfBoot, boot_stat_reason, flash, locals, sagas
  <1>13. CASE Panic
    BY <1>0, <1>13 DEF Panic
  <1>14. CASE PanicProgram
    <2>1. Uncounted = 0 /\ Uncounted' = 1 /\ panics' = panics + 1 /\ stat' = stat
      BY <1>14 DEF PanicProgram, DumpInv
    <2>2. phase # "stat_program" /\ phase' \in {"halted", "panicked"}
      BY <1>14 DEF PanicProgram, AfterPanic
    <2> QED BY <1>0, <2>1, <2>2
  <1>15. CASE PanicFails
    BY <1>0, <1>15 DEF PanicFails, CountMayBeCut, AfterPanic
  <1>16. CASE AppErasesDump
    <2>1. Uncounted' = 0 /\ panics' = panics - Uncounted /\ stat' = stat
      BY <1>16 DEF AppErasesDump
    <2>2. phase = "app" /\ phase' = "app"
      BY <1>16 DEF AppErasesDump
    <2> QED BY <1>0, <2>1, <2>2
  <1>17. CASE AppRefines
    BY <1>17 DEF AppRefines, boot_stat_reason, flash, locals, sagas
  <1>18. CASE Idle \/ UNCHANGED vars
    BY <1>18 DEF Idle, vars, boot_stat_reason, flash, locals, sagas
  <1> QED BY <1>1, <1>2, <1>3, <1>4, <1>5, <1>6, <1>7, <1>8, <1>9,
            <1>10, <1>11, <1>12, <1>13, <1>14, <1>15, <1>16, <1>17, <1>18 DEF Next

-----------------------------------------------------------------------------
(* The panic in both.                                                      *)

LEMMA AccountStep == TypeOK /\ DumpInv /\ RingInv /\ StatInv /\ AccountInv /\ [Next]_vars => AccountInv'
  <1> SUFFICES ASSUME TypeOK, DumpInv, RingInv, StatInv, AccountInv, [Next]_vars
               PROVE  AccountInv'
    OBVIOUS
  <1> USE DEF TypeOK, DumpInv, Dumping, Booting, AccountInv, PanicReachesAccounts
  <1>0. /\ record_boot(stat).last_reason = boot_stat_reason
        /\ record_boot(freshStat).last_reason = boot_stat_reason
    BY DEF record_boot
  <1>1. ASSUME NEW c \in Causes, Reset(c) PROVE AccountInv'
    BY <1>1 DEF Reset, flash, locals, sagas
  <1>2. CASE CheckDump
    BY <1>2 DEF CheckDump, flash, locals, sagas
  <1>3. CASE PrintDump
    BY <1>3 DEF PrintDump, flash, locals, sagas
  <1>4. CASE PrintNothing
    BY <1>4 DEF PrintNothing, flash, locals, sagas
  <1>5. CASE HistoryErase
    BY <1>5 DEF HistoryErase, flash, locals, sagas
  <1>6. CASE HistoryProgram
    <2>1. log'[Len(log')] = boot_reason
      BY <1>6, LastOfIsLast DEF HistoryProgram, RingInv
    <2>2. owed' = IF boot_reason = "CRASH_RECOVERY" THEN owed \ {"history"} ELSE owed
      BY <1>6, <2>1 DEF HistoryProgram
    <2>3. "history" \in owed' => "magic" \in failed
      BY <1>6, <2>2 DEF boot_reason, HistoryProgram
    <2> QED BY <1>6, <2>3 DEF HistoryProgram
  <1>7. CASE HistoryFails
    BY <1>7 DEF HistoryFails, flash, locals, sagas
  <1>8. CASE StatAppend
    <2>1. stat'.last_reason = boot_stat_reason
      BY <1>8, <1>0 DEF StatAppend, NextRecord
    <2> QED BY <1>8, <2>1, PanicResetSeen DEF StatAppend, Recorded, locals
  <1>9. CASE StatErase
    BY <1>9 DEF StatErase, flash, locals, sagas
  <1>10. CASE StatProgram
    <2>1. stat'.last_reason = boot_stat_reason
      BY <1>10 DEF StatProgram, StatInv
    <2> QED BY <1>10, <2>1, PanicResetSeen DEF StatProgram, Recorded
  <1>11. CASE StatFails
    BY <1>11 DEF StatFails, flash, locals, sagas
  <1>12. CASE RestOfBoot
    BY <1>12 DEF RestOfBoot, flash, locals, sagas
  <1>13. CASE Panic
    BY <1>13 DEF Panic, flash, locals, sagas
  <1>14. CASE PanicProgram
    BY <1>14 DEF PanicProgram, AfterPanic, flash, locals, sagas
  <1>15. CASE PanicFails
    BY <1>15 DEF PanicFails, AfterPanic, flash, locals, sagas
  <1>16. CASE AppErasesDump
    BY <1>16 DEF AppErasesDump, flash, locals, sagas
  <1>17. CASE AppRefines
    BY <1>17 DEF AppRefines, flash, locals, sagas
  <1>18. CASE Idle \/ UNCHANGED vars
    BY <1>18 DEF Idle, vars, flash, locals, sagas
  <1> QED BY <1>1, <1>2, <1>3, <1>4, <1>5, <1>6, <1>7, <1>8, <1>9,
            <1>10, <1>11, <1>12, <1>13, <1>14, <1>15, <1>16, <1>17, <1>18 DEF Next

-----------------------------------------------------------------------------
LEMMA InvInit == Init => IInv
  <1> SUFFICES ASSUME Init PROVE IInv
    OBVIOUS
  <1>1. TypeOK
    BY TypeInit
  <1>2. RingInv
    BY EmptySeq, Parameters DEF Init, RingInv, RingIsRecentPast, LastOf
  <1>3. phase = "rom" /\ owed = {} /\ panics = 0 /\ stat = freshStat
    BY DEF Init
  <1> QED BY <1>1, <1>2, <1>3, FreshTyped
          DEF IInv, Booting, DumpInv, Dumping, StatInv, PanicsCounted, Uncounted, AccountInv,
              PanicReachesAccounts

LEMMA InvStep == IInv /\ [Next]_vars => IInv'
  <1>1. IInv => Uncounted <= panics
    BY DEF IInv, StatInv
  <1> QED BY <1>1, TypeStep, DumpStep, RingStep, StatStep, AccountStep DEF IInv

\* The invariant of the diagnostics holds in every reachable state.
THEOREM Invariance == Spec => []IInv
  BY InvInit, InvStep, PTL DEF Spec

\* TypeOK of Diagnostics, for rings and sectors of any size.
THEOREM TypeCorrect == Spec => []TypeOK
  <1>1. IInv => TypeOK
    BY DEF IInv
  <1> QED BY Invariance, <1>1, PTL

\* RingIsRecentPast: outside a rewrite the ring has everything stored since it
\* was last lost, or the newest RingLen of that, whatever reads and stores
\* failed, and wherever boots were cut or panicked.
THEOREM RingCorrect == Spec => []RingIsRecentPast
  <1>1. IInv => RingIsRecentPast
    BY DEF IInv, RingInv
  <1> QED BY Invariance, <1>1, PTL

\* PanicReachesAccounts: past the diagnostics a panic whose dump is in flash is
\* in both accounts, unless this boot's own read or stores failed.
THEOREM PanicReported == Spec => []PanicReachesAccounts
  <1>1. IInv => PanicReachesAccounts
    BY DEF IInv, AccountInv
  <1> QED BY Invariance, <1>1, PTL

\* PanicsCounted: crash_count is not below the panics since it started over,
\* but for the one still owed and those whose dump went uncounted.
THEOREM CrashCountCorrect == Spec => []PanicsCounted
  <1>1. IInv => PanicsCounted
    BY DEF IInv, StatInv
  <1> QED BY Invariance, <1>1, PTL

\* SameSignal: the two reason mappings agree on what must be the same signal.
THEOREM AccountsAgree == Spec => []SameSignal
  <1>1. ASSUME IInv PROVE SameSignal
    <2>1. SUFFICES ASSUME phase = "rest", "history" \notin failed, "bootstat" \notin failed
                   PROVE  SameSignal
      BY DEF SameSignal
    <2>2. log[Len(log)] = boot_reason /\ stat.last_reason = boot_stat_reason
      BY <1>1, <2>1 DEF IInv, RingInv, StatInv
    <2>3. CASE crash_was_present
      BY <2>2, <2>3 DEF SameSignal, boot_reason, boot_stat_reason
    <2>4. CASE ~crash_was_present
      <3>1. cause \in SelfCause \cup OuterCause
        BY <1>1, DiagnosticsAssumption DEF IInv, TypeOK
      <3> QED BY <2>2, <2>4, <3>1 DEF SameSignal, boot_reason, boot_stat_reason, HistoryReason,
                 StatReason, Watchdogs, SelfCause, OuterCause
    <2> QED BY <2>3, <2>4, <1>1 DEF IInv, TypeOK
  <1> QED BY Invariance, <1>1, PTL

\* PrintedBeforeLost: no dump leaves flash unprinted, except by a panic before
\* or within the report, or in a boot whose read of it failed.
THEOREM DumpsPrinted == Spec => PrintedBeforeLost
  <1>1. IInv /\ [Next]_vars =>
            [(dump = "good" /\ dump' # "good") =>
                "print" \notin owed \/ "print" \in failed \/ phase \in {"rom", "report"}]_vars
    <2> SUFFICES ASSUME IInv, Next, dump = "good", dump' # "good"
                 PROVE  "print" \notin owed \/ "print" \in failed \/ phase \in {"rom", "report"}
      BY DEF vars
    <2> USE DEF IInv, TypeOK, DumpInv, Dumping, Booting
    <2>1. ASSUME NEW c \in Causes, Reset(c) PROVE FALSE
      BY <2>1 DEF Reset
    <2>2. CASE Panic
      BY <2>2 DEF Panic
    <2>3. CASE AppErasesDump
      BY <2>3 DEF AppErasesDump
    <2>4. CASE PanicProgram \/ PanicFails
      BY <2>4 DEF PanicProgram, PanicFails
    <2>5. CASE CheckDump \/ PrintDump \/ PrintNothing \/ RestOfBoot \/ AppRefines \/ Idle
      BY <2>5 DEF CheckDump, PrintDump, PrintNothing, RestOfBoot, AppRefines, Idle, vars, flash
    <2>6. CASE HistoryErase \/ HistoryProgram \/ HistoryFails
      BY <2>6 DEF HistoryErase, HistoryProgram, HistoryFails, flash
    <2>7. CASE StatAppend \/ StatErase \/ StatProgram \/ StatFails
      BY <2>7 DEF StatAppend, StatErase, StatProgram, StatFails, flash
    <2> QED BY <2>1, <2>2, <2>3, <2>4, <2>5, <2>6, <2>7 DEF Next
  <1> QED BY Invariance, <1>1, PTL DEF Spec, PrintedBeforeLost
=============================================================================
