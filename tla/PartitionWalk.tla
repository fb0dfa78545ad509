--------------------------- MODULE PartitionWalk ---------------------------
(***************************************************************************)
(* src/partition.rs: one call of find_by_label or find_factory_app, with   *)
(* the loop of for_each_entry as a state machine.  A table entry is what   *)
(* the loop tells apart in its 32 bytes: the magic, type, subtype and the  *)
(* label as label_str returns it.  An entry is identified by its index,    *)
(* which stands for the offset and size the caller gets.                   *)
(***************************************************************************)
EXTENDS Naturals

CONSTANTS
    N,          \* entries in the PARTITION_TABLE_READ_LEN bytes that are read
    Labels,     \* the labels that occur in the table
    Tables      \* the contents the table may have

Entry == [magic : {"entry", "md5", "other"}, kind : {"app", "data", "end"},
          subtype : {"factory", "other"}, label : Labels]

ASSUME WalkAssumption ==
    /\ N \in Nat
    /\ Tables \subseteq [1..N -> Entry]

\* A query is one of the two finders; pick passes the label of a slot.
Query == [by : {"label"}, label : {"ota_0", "ota_1"}] \cup [by : {"factory"}]

VARIABLES
    table,      \* flash: the entries at PARTITION_TABLE_OFFSET
    query,      \* the finder that was called
    pc,         \* "read", "walk" or "done"
    k,          \* the entry chunk_start points at
    found,      \* the finder's `found`: 0 for None
    result      \* what the finder returned: Ok(found), or an error

vars == <<table, query, pc, k, found, result>>

\* The walk stays within the entries that for_each_entry read, one past the
\* last at most.
TypeOK ==
    /\ table \in [1..N -> Entry]
    /\ query \in Query
    /\ pc \in {"read", "walk", "done"}
    /\ k \in 1..(N + 1)
    /\ found \in 0..N
    /\ result \in {"pending", "Ok", "Flash", "NoFactoryApp"}

Init ==
    /\ table \in Tables
    /\ query \in Query
    /\ pc = "read"
    /\ k = 1
    /\ found = 0
    /\ result = "pending"

Return(r) ==
    /\ pc' = "done"
    /\ result' = r

\* found.ok_or(NoFactoryApp), which find_by_label returns as well.
ok_or(f) == IF f = 0 THEN "NoFactoryApp" ELSE "Ok"

ReadTable ==
    /\ pc = "read"
    /\ pc' = "walk"
    /\ UNCHANGED <<table, query, k, found, result>>

ReadTableFails ==
    /\ pc = "read"
    /\ Return("Flash")
    /\ UNCHANGED <<table, query, k, found>>

\* The closures of find_factory_app and find_by_label.
Matches(e) ==
    IF query.by = "factory"
    THEN e.kind = "app" /\ e.subtype = "factory"
    ELSE e.label = query.label

AtEntry(magic) == pc = "walk" /\ k <= N /\ table[k].magic = magic

\* The closure returns false: the walk stops here.
VisitMatch ==
    /\ AtEntry("entry")
    /\ Matches(table[k])
    /\ found' = k
    /\ Return(ok_or(k))
    /\ UNCHANGED <<table, query, k>>

VisitOtherStride ==     \* mutant: the walk advances by two entries
    /\ AtEntry("entry")
    /\ ~Matches(table[k])
    /\ k' = k + 2
    /\ UNCHANGED <<table, query, pc, found, result>>

VisitOther ==
    /\ AtEntry("entry")
    /\ ~Matches(table[k])
    /\ k' = k + 1
    /\ UNCHANGED <<table, query, pc, found, result>>

SkipMd5Stops ==     \* mutant: the MD5 marker is taken for a terminator
    /\ AtEntry("md5")
    /\ Return(ok_or(found))
    /\ UNCHANGED <<table, query, k, found>>

SkipMd5 ==
    /\ AtEntry("md5")
    /\ k' = k + 1
    /\ UNCHANGED <<table, query, pc, found, result>>

\* Any other magic ends the walk; so does the end of the buffer.
StopWalk ==
    /\ AtEntry("other") \/ (pc = "walk" /\ k > N)
    /\ Return(ok_or(found))
    /\ UNCHANGED <<table, query, k, found>>

Returned ==
    /\ pc = "done"
    /\ UNCHANGED vars

Next ==
    \/ ReadTable \/ ReadTableFails
    \/ VisitMatch \/ VisitOther \/ SkipMd5 \/ StopWalk
    \/ Returned

Spec == Init /\ [][Next]_vars

-----------------------------------------------------------------------------
(***************************************************************************)
(* The reference: an entry is visible when no terminator comes before it,  *)
(* and the answer is the first visible entry that matches.                 *)
(***************************************************************************)
Visible(i) == table[i].magic = "entry" /\ \A j \in 1..i : table[j].magic # "other"

Hit(i) == Visible(i) /\ Matches(table[i])

IsFirstHit(i) == Hit(i) /\ \A j \in 1..(i - 1) : ~Hit(j)

\* The walk returns the first matching entry in front of the terminator, MD5
\* markers skipped, however often a label is repeated, and reports
\* NoFactoryApp only if no visible entry matches.
FindsFirstMatch ==
    pc = "done" =>
        \/ result = "Flash"
        \/ result = "NoFactoryApp" /\ \A i \in 1..N : ~Hit(i)
        \/ result = "Ok" /\ found \in 1..N /\ IsFirstHit(found)

-----------------------------------------------------------------------------
\* The loop invariant: what has been passed is visible and does not match.
LoopInv ==
    /\ pc \in {"read", "walk"} => found = 0
    /\ pc = "read" => k = 1
    /\ pc = "walk" => \A j \in 1..(k - 1) : table[j].magic # "other" /\ ~Hit(j)
    /\ FindsFirstMatch

IInv == TypeOK /\ LoopInv
=============================================================================
