-------------------------- MODULE MCPartitionWalk --------------------------
(***************************************************************************)
(* Every table of N entries over the kinds the walk tells apart: the       *)
(* factory app, a slot's app, a data partition with the label of a slot,   *)
(* the MD5 marker, erased flash, and an entry with type 0xFF that still    *)
(* has the magic.                                                          *)
(***************************************************************************)
EXTENDS PartitionWalk

MCLabels == {"ota_0", "ota_1", ""}

E(m, kd, st, l) == [magic |-> m, kind |-> kd, subtype |-> st, label |-> l]

Kinds == {E("entry", "app", "factory", ""), E("entry", "app", "other", "ota_0"),
          E("entry", "data", "other", "ota_0"), E("entry", "app", "other", "ota_1"),
          E("md5", "end", "other", ""), E("other", "end", "other", ""),
          E("entry", "end", "other", "")}

AllTables == [1..N -> Kinds]
=============================================================================
