----------------------------- MODULE MCSlotBoot -----------------------------
(***************************************************************************)
(* Images for the model checker: the kinds of partition content the boot   *)
(* path tells apart.                                                       *)
(***************************************************************************)
EXTENDS SlotBoot

Good    == [magic |-> TRUE,  hash |-> "match",    segs |-> "sram",  app |-> "healthy"]
Hangs   == [magic |-> TRUE,  hash |-> "match",    segs |-> "sram",  app |-> "hangs"]
Psram   == [magic |-> TRUE,  hash |-> "match",    segs |-> "psram", app |-> "healthy"]
Corrupt == [magic |-> TRUE,  hash |-> "mismatch", segs |-> "sram",  app |-> "healthy"]
Unhashed == [magic |-> TRUE, hash |-> "none",     segs |-> "bad",   app |-> "healthy"]
Blank   == [magic |-> FALSE, hash |-> "none",     segs |-> "bad",   app |-> "hangs"]

AllKinds == {Good, Hangs, Psram, Corrupt, Unhashed, Blank}
RunnableKinds == {Good, Hangs}
HeaderOkKinds == {Good, Hangs, Corrupt}
UpdateKinds == {Good, Hangs, Corrupt, Blank}
=============================================================================
