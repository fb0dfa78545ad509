------------------------------ MODULE MCLayout ------------------------------
(***************************************************************************)
(* Two tables for TLC, in sectors of 4 KB.                                 *)
(***************************************************************************)
EXTENDS Layout, TLC

\* The canonical table with the rescue app slot_select.rs falls back to.
RescueTable ==
    CanonicalTable @@ [factory |-> [kind |-> "factory", offset |-> 416, size |-> 192]]

\* README.md, "The included example-partitions.csv"
ReadmeTable == [
    nvs      |-> [kind |-> "data",    offset |-> 9,  size |-> 6],
    phy_init |-> [kind |-> "data",    offset |-> 15, size |-> 1],
    factory  |-> [kind |-> "factory", offset |-> 16, size |-> 256]]
=============================================================================
