---------------------------- MODULE VerifiedLoad ----------------------------
(***************************************************************************)
(* What verification promises about loading, without headers, sums and     *)
(* chunks: an image with a digest is loaded only after its digest matched, *)
(* the copies to make are then settled and lie inside what was hashed, and *)
(* it is entered when all of them are made and no other.  Of an image      *)
(* without a digest nothing is promised, and of one that is copied over    *)
(* the bootloader only that much.                                          *)
(***************************************************************************)
EXTENDS Integers

CONSTANTS
    Base,           \* where the image begins in flash
    OwnLo, OwnHi    \* the RAM the bootloader runs in

VARIABLES
    signed,     \* the image has a digest
    good,       \* and the digest is right
    stage,      \* "checking", "loading", "entered", "refused" or "lost"
    hashed,     \* bytes hashed
    plan,       \* the copies its hashed headers ask for, once it is trusted
    loaded      \* the copies made

vvars == <<signed, good, stage, hashed, plan, loaded>>

Init ==
    /\ signed \in BOOLEAN
    /\ good \in BOOLEAN
    /\ stage = "checking"
    /\ hashed = 0
    /\ plan = {}
    /\ loaded = {}

Hash ==
    /\ stage = "checking" /\ signed
    /\ hashed' > hashed
    /\ UNCHANGED <<signed, good, stage, plan, loaded>>

Trust ==
    /\ stage = "checking"
    /\ signed => good
    /\ stage' = "loading"
    /\ \A c \in plan' : c.from >= Base /\ c.from + c.len <= Base + hashed
    /\ UNCHANGED <<signed, good, hashed, loaded>>

Copy ==
    /\ stage = "loading"
    /\ \E c \in loaded' : loaded' = loaded \cup {c} /\ (signed => c \in plan)
    /\ UNCHANGED <<signed, good, stage, hashed, plan>>

Enter ==
    /\ stage = "loading"
    /\ signed => loaded = plan
    /\ stage' = "entered"
    /\ UNCHANGED <<signed, good, hashed, plan, loaded>>

Refuse ==
    /\ stage \in {"checking", "loading"}
    /\ stage' = "refused"
    /\ plan' = {}
    /\ UNCHANGED <<signed, good, hashed, loaded>>

Lose ==
    /\ stage \in {"loading", "entered"}
    /\ \E c \in loaded : c.len > 0 /\ c.to < OwnHi /\ c.to + c.len > OwnLo
    /\ stage' = "lost"
    /\ plan' = {}
    /\ UNCHANGED <<signed, good, hashed, loaded>>

Next == Hash \/ Trust \/ Copy \/ Enter \/ Refuse \/ Lose

Spec == Init /\ [][Next]_vvars
=============================================================================
