---------------------------- MODULE LayoutProofs ----------------------------
(***************************************************************************)
(* Proofs about Layout, for every partition table.  What depends on the    *)
(* table is a hypothesis of the theorem that needs it, and the canonical   *)
(* table is shown to satisfy it.                                           *)
(***************************************************************************)
EXTENDS Layout, TLAPS

\* Bootable partitions do not overlap.
AppsApart ==
    \A l, m \in Bootable :
        l # m => End(l) <= Table[m].offset \/ End(m) <= Table[l].offset

\* No compiled-in sector lies in a bootable partition.
RecordsApart == \A w \in DOMAIN FixedSector, l \in Bootable : ~Within(FixedSector[w], l)

\* Every compiled-in sector lies before all bootable partitions.
RecordsBefore == \A w \in DOMAIN FixedSector, l \in Bootable : FixedSector[w] < Table[l].offset

\* Every compiled-in sector lies in the partition of its name and in no other.
RecordsHome ==
    \A w \in DOMAIN FixedSector : \A l \in DOMAIN Table : Within(FixedSector[w], l) <=> l = w

-----------------------------------------------------------------------------
\* The offsets and sizes of bootable partitions are numbers.
LEMMA TableNumbers ==
    ASSUME NEW l \in Bootable
    PROVE  /\ Table[l].offset \in Nat
           /\ Table[l].size \in Nat \ {0}
           /\ End(l) \in Nat
           /\ Table[l].offset < End(l)
<1>1. l \in DOMAIN Table  BY DEF Bootable, Factories
<1>3. Table[l] \in [kind : Kinds, offset : Nat, size : Nat \ {0}]  BY <1>1, LayoutAssumption
<1>2. Table[l].offset \in Nat /\ Table[l].size \in Nat \ {0}  BY <1>3
<1> QED  BY <1>2 DEF End

\* What is compiled in are sector numbers.
LEMMA Sectors == \A w \in DOMAIN FixedSector : FixedSector[w] \in Nat
BY DEF FixedSector, OTADATA_PARTITION_OFFSET, CRASHDUMP_PARTITION_OFFSET,
       BOOTLOG_PARTITION_OFFSET, BOOTSTAT_PARTITION_OFFSET

\* A freshly flashed device is well typed.
LEMMA InitTyped == Init => TypeOK
<1> SUFFICES ASSUME Init
             PROVE  TypeOK
    OBVIOUS
<1>1. size \in [Bootable -> Sizes \cup {0}]  BY DEF Init
<1>2. updates \in 0..MaxUpdates  BY LayoutAssumption, SMT DEF Init
<1>3. /\ hashed \in SUBSET Bootable
      /\ inside \in SUBSET Bootable
      /\ beyond \in SUBSET Bootable
      /\ phase \in {"bootlog", "bootstat", "pick", "lookup", "verify", "load", "jump",
                    "app", "heartbeat", "halted"}
      /\ chosen \in Bootable \cup {"none"} /\ newest \in Bootable \cup {"none"}
      BY DEF Init
<1>4. oversized \in BOOLEAN  BY Zenon DEF Init
<1>5. written \in SUBSET [what : DOMAIN FixedSector, sector : Nat]  BY DEF Init
<1> QED  BY <1>1, <1>2, <1>3, <1>4, <1>5 DEF TypeOK

\* TypeOK is inductive as it stands.
LEMMA TypeInductive == TypeOK /\ [Next]_vars => TypeOK'
<1> SUFFICES ASSUME TypeOK, [Next]_vars
             PROVE  TypeOK'
    OBVIOUS
<1>w. ASSUME NEW w \in DOMAIN FixedSector, Store(w)
      PROVE  /\ size' \in [Bootable -> Sizes \cup {0}]
             /\ inside' \in SUBSET Bootable
             /\ beyond' \in SUBSET Bootable
             /\ written' \in SUBSET [what : DOMAIN FixedSector, sector : Nat]
  <2>1. [what |-> w, sector |-> FixedSector[w]] \in [what : DOMAIN FixedSector, sector : Nat]
        BY Sectors
  <2>2. CASE BootWrites(w)
    <3>1. written' \in SUBSET [what : DOMAIN FixedSector, sector : Nat]
          BY <2>2, <2>1 DEF BootWrites, TypeOK
    <3>2. size' \in [Bootable -> Sizes \cup {0}]
          BY <2>2 DEF BootWrites, TypeOK
    <3>3. inside' \in SUBSET Bootable /\ beyond' \in SUBSET Bootable
          BY <2>2 DEF BootWrites, TypeOK, HitInside, HitBeyond
    <3> QED  BY <3>1, <3>2, <3>3
  <2>3. CASE UNCHANGED <<size, inside, beyond, written>>
        BY <2>3 DEF TypeOK
  <2> QED  BY <1>w, <2>2, <2>3 DEF Store
<1>d. "bootlog" \in DOMAIN FixedSector /\ "bootstat" \in DOMAIN FixedSector
      /\ "otadata" \in DOMAIN FixedSector /\ "crashdump" \in DOMAIN FixedSector
      BY DEF FixedSector
<1>1. CASE WriteHistory  BY <1>1, <1>w, <1>d DEF WriteHistory, TypeOK
<1>2. CASE WriteBootstat  BY <1>2, <1>w, <1>d DEF WriteBootstat, TypeOK
<1>3. CASE WriteOtadata  BY <1>3, <1>w, <1>d DEF WriteOtadata, TypeOK
<1>4. CASE Lookup
  <2>1. \A slot \in Slots : Header(slot) => slot \in Bootable
        BY DEF Header, Bootable
  <2>2. chosen' \in Bootable
        BY <1>4, <2>1 DEF Lookup, Bootable
  <2> QED  BY <1>4, <2>2 DEF Lookup, TypeOK, images
<1>12. CASE LookupFails  BY <1>12 DEF LookupFails, TypeOK, images
<1>5. CASE Verify  BY <1>5 DEF Verify, TypeOK, images
<1>6. CASE Load  BY <1>6 DEF Load, TypeOK, images
<1>7. CASE Jump  BY <1>7 DEF Jump, TypeOK, images
<1>8. CASE Panic  BY <1>8, <1>w, <1>d DEF Panic, TypeOK
<1>9. ASSUME NEW l \in Bootable, NEW n \in Sizes, AppUpdate(l, n)
      PROVE  TypeOK'
  <2>1. size' \in [Bootable -> Sizes \cup {0}]
        BY <1>9 DEF AppUpdate, TypeOK
  <2>2. /\ inside' \in SUBSET Bootable
        /\ beyond' \in SUBSET Bootable
        /\ hashed' \in SUBSET Bootable
        BY <1>9 DEF AppUpdate, TypeOK, HitInside, HitBeyond
  <2>3. updates' \in 0..MaxUpdates
        BY <1>9, LayoutAssumption, SMT DEF AppUpdate, TypeOK
  <2>4. oversized' \in BOOLEAN
        BY <1>9, Zenon DEF AppUpdate
  <2>5. newest' = l /\ UNCHANGED <<phase, chosen, written>>
        BY <1>9 DEF AppUpdate
  <2> QED  BY <2>1, <2>2, <2>3, <2>4, <2>5 DEF TypeOK
<1>10. CASE Reset  BY <1>10 DEF Reset, TypeOK, images
<1>11. CASE UNCHANGED vars  BY <1>11 DEF vars, TypeOK
<1> QED  BY <1>1, <1>2, <1>3, <1>4, <1>5, <1>6, <1>7, <1>8, <1>9, <1>10, <1>11,
         <1>12 DEF Next

\* Type correctness (TypeOK): whatever the table, main boots from a partition
\* with the label of a slot, be it of type app or not, or from a factory app.
THEOREM TypeCorrect == Spec => []TypeOK
BY InitTyped, TypeInductive, PTL DEF Spec

-----------------------------------------------------------------------------
\* What lies before all images damages none, however far they run.
LEMMA HarmlessBefore ==
    ASSUME RecordsBefore, TypeOK, NEW w \in DOMAIN FixedSector, Store(w)
    PROVE  UNCHANGED <<size, inside, beyond>>
<1>1. CASE BootWrites(w)
  <2>1. ASSUME NEW l \in Bootable
        PROVE  /\ Table[l].offset # FixedSector[w]
               /\ l \notin HitInside(FixedSector[w], FixedSector[w] + 1)
               /\ l \notin HitBeyond(FixedSector[w], FixedSector[w] + 1)
    <3>1. FixedSector[w] < Table[l].offset /\ FixedSector[w] \in Nat
          BY Sectors DEF RecordsBefore
    <3>2. ~(Table[l].offset < FixedSector[w] + 1) /\ ~(End(l) < FixedSector[w] + 1)
          BY <3>1, TableNumbers
    <3> QED  BY <3>1, <3>2, TableNumbers DEF HitInside, HitBeyond, Meets
  <2>2. inside' = inside /\ beyond' = beyond
        BY <1>1, <2>1 DEF BootWrites, HitInside, HitBeyond
  <2>3. size' = size
        BY <1>1, <2>1 DEF BootWrites, TypeOK
  <2> QED  BY <2>2, <2>3
<1>2. CASE UNCHANGED <<size, inside, beyond, written>>
      BY <1>2
<1> QED  BY <1>1, <1>2 DEF Store

LEMMA NewestInductive ==
    ASSUME RecordsBefore
    PROVE  TypeOK /\ NewestImageWhole /\ [Next]_vars => NewestImageWhole'
<1> SUFFICES ASSUME TypeOK, NewestImageWhole, [Next]_vars
             PROVE  NewestImageWhole'
    OBVIOUS
<1>d. "bootlog" \in DOMAIN FixedSector /\ "bootstat" \in DOMAIN FixedSector
      /\ "otadata" \in DOMAIN FixedSector /\ "crashdump" \in DOMAIN FixedSector
      BY DEF FixedSector
<1>s. ASSUME UNCHANGED <<size, inside, beyond, newest>>
      PROVE  NewestImageWhole'
      BY <1>s DEF NewestImageWhole
<1>1. CASE WriteHistory  BY <1>1, <1>s, <1>d, HarmlessBefore DEF WriteHistory
<1>2. CASE WriteBootstat  BY <1>2, <1>s, <1>d, HarmlessBefore DEF WriteBootstat
<1>3. CASE WriteOtadata  BY <1>3, <1>s, <1>d, HarmlessBefore DEF WriteOtadata
<1>4. CASE Lookup  BY <1>4, <1>s DEF Lookup, images
<1>12. CASE LookupFails  BY <1>12, <1>s DEF LookupFails, images
<1>5. CASE Verify  BY <1>5, <1>s DEF Verify, images
<1>6. CASE Load  BY <1>6, <1>s DEF Load, images
<1>7. CASE Jump  BY <1>7, <1>s DEF Jump, images
<1>8. CASE Panic  BY <1>8, <1>s, <1>d, HarmlessBefore DEF Panic
<1>9. ASSUME NEW l \in Bootable, NEW n \in Sizes, AppUpdate(l, n)
      PROVE  NewestImageWhole'
  <2>1. size'[l] = n /\ n > 0
        BY <1>9, LayoutAssumption DEF AppUpdate
  <2>2. newest' = l /\ l \notin inside' \cup beyond'
        BY <1>9 DEF AppUpdate
  <2> QED  BY <2>1, <2>2 DEF NewestImageWhole
<1>10. CASE Reset  BY <1>10, <1>s DEF Reset, images
<1>11. CASE UNCHANGED vars  BY <1>11, <1>s DEF vars
<1> QED  BY <1>1, <1>2, <1>3, <1>4, <1>5, <1>6, <1>7, <1>8, <1>9, <1>10, <1>11,
         <1>12 DEF Next

\* In a table with all compiled-in sectors before the images, the image of the
\* newest update stays whole until the next one (NewestImageWhole), whatever
\* its size and even where partitions overlap.
THEOREM NewestStaysWhole ==
    ASSUME RecordsBefore
    PROVE  Spec => []NewestImageWhole
<1>1. Init => TypeOK /\ NewestImageWhole
      BY InitTyped DEF Init, NewestImageWhole
<1>2. TypeOK /\ NewestImageWhole /\ [Next]_vars => (TypeOK /\ NewestImageWhole)'
      BY TypeInductive, NewestInductive
<1> QED  BY <1>1, <1>2, PTL DEF Spec

-----------------------------------------------------------------------------
\* Every image within its partition, and whole, until an update is larger.
Contained ==
    ~oversized => /\ \A l \in Bootable : size[l] <= Table[l].size
                  /\ inside = {}
                  /\ beyond = {}

\* A write outside a bootable partition misses an image within it.
LEMMA Misses ==
    ASSUME TypeOK, NEW m \in Bootable, NEW lo \in Nat, NEW hi \in Nat,
           size[m] <= Table[m].size,
           hi <= Table[m].offset \/ End(m) <= lo
    PROVE  m \notin HitInside(lo, hi) /\ m \notin HitBeyond(lo, hi)
<1>1. size[m] \in Nat
      BY LayoutAssumption DEF TypeOK
<1>2. ImageEnd(m) <= End(m) /\ ImageEnd(m) \in Nat
      BY <1>1, TableNumbers DEF ImageEnd, End
<1>3. ~Meets(lo, hi, End(m), ImageEnd(m))
      BY <1>2, TableNumbers DEF Meets
<1>4. ~Meets(lo, hi, Table[m].offset, ImageEnd(m)) \/ ~(lo < End(m))
      BY <1>2, TableNumbers DEF Meets
<1> QED  BY <1>3, <1>4 DEF HitInside, HitBeyond

LEMMA ContainedInductive ==
    ASSUME AppsApart, RecordsApart
    PROVE  TypeOK /\ Contained /\ [Next]_vars => Contained'
<1> SUFFICES ASSUME TypeOK, Contained, [Next]_vars, ~oversized'
             PROVE  (/\ \A l \in Bootable : size[l] <= Table[l].size
                     /\ inside = {}
                     /\ beyond = {})'
    BY DEF Contained
<1>w. ASSUME NEW w \in DOMAIN FixedSector, Store(w), ~oversized
      PROVE  /\ \A l \in Bootable : size'[l] <= Table[l].size
             /\ inside' = {}
             /\ beyond' = {}
  <2>5. CASE UNCHANGED <<size, inside, beyond, written>>
        BY <2>5, <1>w DEF Contained
  <2> SUFFICES ASSUME BootWrites(w)
               PROVE  /\ \A l \in Bootable : size'[l] <= Table[l].size
                      /\ inside' = {}
                      /\ beyond' = {}
      BY <1>w, <2>5 DEF Store
  <2>1. FixedSector[w] \in Nat  BY Sectors
  <2>2. ASSUME NEW l \in Bootable
        PROVE  /\ l \notin HitInside(FixedSector[w], FixedSector[w] + 1)
               /\ l \notin HitBeyond(FixedSector[w], FixedSector[w] + 1)
    <3>1. ~Within(FixedSector[w], l)  BY RecordsApart DEF RecordsApart
    <3>2. FixedSector[w] + 1 <= Table[l].offset \/ End(l) <= FixedSector[w]
          BY <3>1, <2>1, TableNumbers DEF Within
    <3>3. size[l] <= Table[l].size  BY <1>w DEF Contained
    <3>4. FixedSector[w] + 1 \in Nat  BY <2>1
    <3> QED  BY <2>1, <3>2, <3>3, <3>4, Misses
  <2>3. inside' = {} /\ beyond' = {}
        BY <1>w, <2>2 DEF BootWrites, Contained, HitInside, HitBeyond
  <2>4. ASSUME NEW l \in Bootable
        PROVE  size'[l] <= Table[l].size
    <3>1. size'[l] = 0 \/ size'[l] = size[l]  BY <1>w DEF BootWrites
    <3> QED  BY <3>1, <1>w, TableNumbers DEF Contained
  <2> QED  BY <2>3, <2>4
<1>d. "bootlog" \in DOMAIN FixedSector /\ "bootstat" \in DOMAIN FixedSector
      /\ "otadata" \in DOMAIN FixedSector /\ "crashdump" \in DOMAIN FixedSector
      BY DEF FixedSector
<1>s. ASSUME UNCHANGED <<size, inside, beyond, oversized>>
      PROVE  (/\ \A l \in Bootable : size[l] <= Table[l].size
              /\ inside = {}
              /\ beyond = {})'
      BY <1>s DEF Contained
<1>1. CASE WriteHistory  BY <1>1, <1>w, <1>d DEF WriteHistory
<1>2. CASE WriteBootstat  BY <1>2, <1>w, <1>d DEF WriteBootstat
<1>3. CASE WriteOtadata  BY <1>3, <1>w, <1>d DEF WriteOtadata
<1>4. CASE Lookup  BY <1>4, <1>s DEF Lookup, images
<1>12. CASE LookupFails  BY <1>12, <1>s DEF LookupFails, images
<1>5. CASE Verify  BY <1>5, <1>s DEF Verify, images
<1>6. CASE Load  BY <1>6, <1>s DEF Load, images
<1>7. CASE Jump  BY <1>7, <1>s DEF Jump, images
<1>8. CASE Panic  BY <1>8, <1>w, <1>d DEF Panic
<1>9. ASSUME NEW l \in Bootable, NEW n \in Sizes, AppUpdate(l, n)
      PROVE  (/\ \A m \in Bootable : size[m] <= Table[m].size
              /\ inside = {}
              /\ beyond = {})'
  <2> DEFINE lo == Table[l].offset
             hi == lo + n
  <2>1. ~oversized /\ ~(n > Table[l].size)
        BY <1>9, Zenon DEF AppUpdate
  <2>2. lo \in Nat /\ n \in Nat /\ hi \in Nat /\ hi <= End(l)
        BY <2>1, TableNumbers, LayoutAssumption DEF End
  <2>3. ASSUME NEW m \in Bootable, m # l
        PROVE  m \notin HitInside(lo, hi) /\ m \notin HitBeyond(lo, hi)
    <3>1. End(l) <= Table[m].offset \/ End(m) <= lo
          BY <2>3 DEF AppsApart
    <3>2. hi <= Table[m].offset \/ End(m) <= lo
          BY <3>1, <2>2, TableNumbers
    <3>3. size[m] <= Table[m].size  BY <2>1 DEF Contained
    <3> HIDE DEF lo, hi
    <3> QED  BY <2>2, <3>2, <3>3, Misses
  <2>4. inside' = {} /\ beyond' = {}
    <3>1. inside' = (inside \cup HitInside(lo, hi)) \ {l}
          /\ beyond' = (beyond \cup HitBeyond(lo, hi)) \ {l}
          BY <1>9 DEF AppUpdate
    <3>2. HitInside(lo, hi) \subseteq {l} /\ HitBeyond(lo, hi) \subseteq {l}
          BY <2>3 DEF HitInside, HitBeyond
    <3> HIDE DEF lo, hi
    <3> QED  BY <3>1, <3>2, <2>1 DEF Contained
  <2>5. ASSUME NEW m \in Bootable
        PROVE  size'[m] <= Table[m].size
    <3>1. size'[m] = IF m = l THEN n
                     ELSE IF Meets(lo, hi, Table[m].offset, Table[m].offset + 1) THEN 0
                     ELSE size[m]
          BY <1>9 DEF AppUpdate
    <3>2. (m = l /\ size'[m] = n) \/ size'[m] = 0 \/ size'[m] = size[m]
          BY <3>1
    <3> QED  BY <3>2, <2>1, <2>2, TableNumbers DEF Contained
  <2> QED  BY <2>4, <2>5
<1>10. CASE Reset  BY <1>10, <1>s DEF Reset, images
<1>11. CASE UNCHANGED vars  BY <1>11, <1>s DEF vars
<1> QED  BY <1>1, <1>2, <1>3, <1>4, <1>5, <1>6, <1>7, <1>8, <1>9, <1>10, <1>11,
         <1>12 DEF Next

\* In a table whose bootable partitions do not overlap and hold no compiled-in
\* sector, only an update larger than its partition damages an image
\* (DamageNeedsOversize).
THEOREM DamageOnlyByOversize ==
    ASSUME AppsApart, RecordsApart
    PROVE  Spec => []DamageNeedsOversize
<1>1. Init => TypeOK /\ Contained
      BY InitTyped DEF Init, Contained
<1>2. TypeOK /\ Contained /\ [Next]_vars => (TypeOK /\ Contained)'
      BY TypeInductive, ContainedInductive
<1>3. Contained => DamageNeedsOversize
      BY Zenon DEF Contained, DamageNeedsOversize
<1> QED  BY <1>1, <1>2, <1>3, PTL DEF Spec

-----------------------------------------------------------------------------
\* What has been written is at its compiled-in sector.
AtTheirSector == \A w \in written : w.what \in DOMAIN FixedSector /\ w.sector = FixedSector[w.what]

\* In a table that names a partition for every compiled-in sector, all the
\* bootloader writes lies in the partition of its name and in no other
\* (WritesStayHome).
THEOREM StayHome ==
    ASSUME RecordsHome
    PROVE  Spec => []WritesStayHome
<1>1. Init => AtTheirSector
      BY DEF Init, AtTheirSector
<1>2. AtTheirSector /\ [Next]_vars => AtTheirSector'
  <2> SUFFICES ASSUME AtTheirSector, [Next]_vars
               PROVE  AtTheirSector'
      OBVIOUS
  <2>d. "bootlog" \in DOMAIN FixedSector /\ "bootstat" \in DOMAIN FixedSector
        /\ "otadata" \in DOMAIN FixedSector /\ "crashdump" \in DOMAIN FixedSector
        BY DEF FixedSector
  <2>w. ASSUME NEW w \in DOMAIN FixedSector, BootWrites(w)
        PROVE  AtTheirSector'
        BY <2>w DEF BootWrites, AtTheirSector
  <2>s. ASSUME UNCHANGED written
        PROVE  AtTheirSector'
        BY <2>s DEF AtTheirSector
  <2>1. CASE \E w \in DOMAIN FixedSector : BootWrites(w)  BY <2>1, <2>w
  <2>2. CASE UNCHANGED written  BY <2>2, <2>s
  <2>3. [Next]_vars => (\E w \in DOMAIN FixedSector : BootWrites(w)) \/ UNCHANGED written
        BY <2>d, Zenon DEF Next, vars, Store, WriteHistory, WriteBootstat, WriteOtadata, Lookup,
           LookupFails, Verify, Load, Jump, Panic, AppUpdate, Reset
  <2> QED  BY <2>1, <2>2, <2>3
<1>3. AtTheirSector => WritesStayHome
      BY RecordsHome DEF AtTheirSector, WritesStayHome, RecordsHome
<1> QED  BY <1>1, <1>2, <1>3, PTL DEF Spec

-----------------------------------------------------------------------------
\* The canonical table is one of those the theorems are about.
LEMMA CanonicalTableFits ==
    ASSUME Table = CanonicalTable
    PROVE  AppsApart /\ RecordsApart /\ RecordsBefore /\ RecordsHome
<1>0. Bootable = {"ota_0", "ota_1"}
  <2>1. Factories = {}  BY DEF Factories, CanonicalTable
  <2> QED  BY <2>1 DEF Bootable, Slots, CanonicalTable
<1>1. /\ Table["ota_0"].offset = 32 /\ End("ota_0") = 224
      /\ Table["ota_1"].offset = 224 /\ End("ota_1") = 416
      BY DEF CanonicalTable, End
<1>2. /\ DOMAIN FixedSector = {"otadata", "crashdump", "bootlog", "bootstat"}
      /\ FixedSector["otadata"] = 15 /\ FixedSector["crashdump"] = 16
      /\ FixedSector["bootlog"] = 18 /\ FixedSector["bootstat"] = 19
      BY DEF FixedSector, OTADATA_PARTITION_OFFSET, CRASHDUMP_PARTITION_OFFSET,
             BOOTLOG_PARTITION_OFFSET, BOOTSTAT_PARTITION_OFFSET
<1>3. AppsApart
      BY <1>0, <1>1 DEF AppsApart
<1>4. RecordsApart
      BY <1>0, <1>1, <1>2 DEF RecordsApart, Within
<1>6. RecordsBefore
      BY <1>0, <1>1, <1>2 DEF RecordsBefore
<1>5. RecordsHome
  <2>1. /\ Table["nvs"].offset = 9 /\ End("nvs") = 13
        /\ Table["phy_init"].offset = 14 /\ End("phy_init") = 15
        /\ Table["otadata"].offset = 15 /\ End("otadata") = 16
        /\ Table["crashdump"].offset = 16 /\ End("crashdump") = 18
        /\ Table["bootlog"].offset = 18 /\ End("bootlog") = 19
        /\ Table["bootstat"].offset = 19 /\ End("bootstat") = 20
        BY DEF CanonicalTable, End
  <2>2. DOMAIN Table = {"nvs", "phy_init", "otadata", "crashdump", "bootlog", "bootstat",
                        "ota_0", "ota_1"}
        BY DEF CanonicalTable
  <2> QED  BY <1>1, <1>2, <2>1, <2>2 DEF RecordsHome, Within
<1> QED  BY <1>3, <1>4, <1>5, <1>6

\* On the canonical table the compiled-in offsets match the partitions, neither
\* they nor an update within its partition damage an image, and the image of
\* the newest update stays whole (WritesStayHome, DamageNeedsOversize,
\* NewestImageWhole), over any number of updates with images of any size.
THEOREM CanonicalTableIsSafe ==
    ASSUME Table = CanonicalTable
    PROVE  Spec => [](WritesStayHome /\ DamageNeedsOversize /\ NewestImageWhole)
<1>1. AppsApart /\ RecordsApart /\ RecordsBefore /\ RecordsHome
      BY CanonicalTableFits
<1>2. Spec => []WritesStayHome
      BY <1>1, StayHome
<1>3. Spec => []DamageNeedsOversize
      BY <1>1, DamageOnlyByOversize
<1>4. Spec => []NewestImageWhole
      BY <1>1, NewestStaysWhole
<1> QED  BY <1>2, <1>3, <1>4, PTL
=============================================================================
