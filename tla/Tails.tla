-------------------------------- MODULE Tails --------------------------------
(***************************************************************************)
(* The newest items of a sequence, as the ring buffers of p4_boot_history  *)
(* and p4_crashdump (external) keep them.                                  *)
(***************************************************************************)
EXTENDS Naturals, Sequences

LastOf(s, n) == IF Len(s) <= n THEN s ELSE SubSeq(s, Len(s) - n + 1, Len(s))

\* A ring of n items, oldest first, after a push: the oldest makes room.
Appended(s, r, n) == IF Len(s) < n THEN Append(s, r) ELSE Append(Tail(s), r)
=============================================================================
