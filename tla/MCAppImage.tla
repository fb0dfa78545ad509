----------------------------- MODULE MCAppImage -----------------------------
(***************************************************************************)
(* A scaled-down u32: lengths that are empty, aligned, unaligned, at the   *)
(* limit, above it, and one that makes the sums wrap; destinations that    *)
(* are free, unaligned, and inside the bootloader.                         *)
(***************************************************************************)
EXTENDS AppImage

Lengths == {0, 4, 6, MaxLen, MaxLen + 4, Width - IMAGE_HEADER_SIZE}
Destinations == {160, 162, OwnLo + 4}

MCSegmentHeader == [load_addr : Destinations, data_len : Lengths]
=============================================================================
