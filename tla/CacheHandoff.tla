---------------------------- MODULE CacheHandoff ----------------------------
(***************************************************************************)
(* jump_to_entry of src/app.rs: the image that load_segments stored        *)
(* through the L1 D-cache has to reach the memory the instruction side     *)
(* fetches from, before the jump.  The ROM calls are modelled by what they *)
(* do to one line in each cache.  Caches fill, prefetch and evict lines    *)
(* whenever they like, so every level may hold the old contents.           *)
(***************************************************************************)
CONSTANTS
    AppLine,    \* the cache lines the segments are loaded to
    OwnLine,    \* lines of the bootloader's own data and stack
    Core,       \* the harts with an L1 I-cache
    Hart,       \* the one that runs the bootloader
    Miss        \* the line is not in this cache

Line == AppLine \cup OwnLine

Value == {"old", "new"}

ASSUME CacheAssumption ==
    /\ Hart \in Core
    /\ AppLine \cap OwnLine = {}
    /\ Miss \notin Value

VARIABLES
    pc,         \* the step of main and jump_to_entry to run next
    mem,        \* HP SRAM or PSRAM behind the caches
    l2, l2_dirty,
    l1d, l1d_dirty,
    l1i,        \* L1 I-cache of each core
    stream      \* instructions the hart has already fetched ahead

dside == <<l1d, l1d_dirty>>
below == <<mem, l2, l2_dirty>>
iside == <<l1i, stream>>
vars == <<pc, dside, below, iside>>

Cached == [Line -> Value \cup {Miss}]

\* Each cache maps every line to a value or a miss, and is dirty in lines only.
TypeOK ==
    /\ pc \in {"load", "writeback", "invalidate", "fence", "jump", "app"}
    /\ mem \in [Line -> Value]
    /\ l2 \in Cached /\ l1d \in Cached /\ stream \in Cached
    /\ l2_dirty \in SUBSET Line /\ l1d_dirty \in SUBSET Line
    /\ l1i \in [Core -> Cached]

Init ==
    /\ pc = "load"
    /\ mem = [l \in Line |-> "old"]
    /\ l2 = [l \in Line |-> Miss] /\ l2_dirty = {}
    /\ l1d = [l \in Line |-> Miss] /\ l1d_dirty = {}
    /\ l1i = [c \in Core |-> [l \in Line |-> Miss]]
    /\ stream = [l \in Line |-> Miss]

Hit(cache, l) == cache[l] # Miss

\* What a request that misses in its L1 cache is answered with.
Below(l) == IF Hit(l2, l) THEN l2[l] ELSE mem[l]

\* What a load of the hart, and an instruction fetch of core c, return.
Load(l) == IF Hit(l1d, l) THEN l1d[l] ELSE Below(l)
Fetch(c, l) == IF Hit(l1i[c], l) THEN l1i[c][l] ELSE Below(l)

-----------------------------------------------------------------------------
(***************************************************************************)
(* The caches on their own.                                                *)
(***************************************************************************)
FillL2(l) == l2' = [l2 EXCEPT ![l] = Below(l)]

FillData(l) ==
    /\ ~Hit(l1d, l)
    /\ l1d' = [l1d EXCEPT ![l] = Below(l)]
    /\ FillL2(l)
    /\ UNCHANGED <<pc, mem, l2_dirty, l1d_dirty, iside>>

FillInstruction(c, l) ==
    /\ ~Hit(l1i[c], l)
    /\ l1i' = [l1i EXCEPT ![c][l] = Below(l)]
    /\ FillL2(l)
    /\ UNCHANGED <<pc, mem, l2_dirty, dside, stream>>

FetchAhead(l) ==
    /\ Hit(l1i[Hart], l)
    /\ stream' = [stream EXCEPT ![l] = l1i[Hart][l]]
    /\ UNCHANGED <<pc, dside, below, l1i>>

EvictData(l) ==
    /\ Hit(l1d, l)
    /\ l2' = [l2 EXCEPT ![l] = IF l \in l1d_dirty THEN l1d[l] ELSE @]
    /\ l2_dirty' = l2_dirty \cup (l1d_dirty \cap {l})
    /\ l1d' = [l1d EXCEPT ![l] = Miss]
    /\ l1d_dirty' = l1d_dirty \ {l}
    /\ UNCHANGED <<pc, mem, iside>>

EvictL2(l) ==
    /\ Hit(l2, l)
    /\ mem' = [mem EXCEPT ![l] = IF l \in l2_dirty THEN l2[l] ELSE @]
    /\ l2' = [l2 EXCEPT ![l] = Miss]
    /\ l2_dirty' = l2_dirty \ {l}
    /\ UNCHANGED <<pc, dside, iside>>

CacheStep ==
    \E l \in Line :
        \/ FillData(l) \/ FetchAhead(l) \/ EvictData(l) \/ EvictL2(l)
        \/ \E c \in Core : FillInstruction(c, l)

-----------------------------------------------------------------------------
(***************************************************************************)
(* The hart: load_segments stores the image, jump_to_entry publishes it.   *)
(* It stores to its own data at any time before the jump.                  *)
(***************************************************************************)
Store(l) ==
    /\ \/ pc = "load" /\ l \in AppLine
       \/ pc # "app" /\ l \in OwnLine
    /\ l1d' = [l1d EXCEPT ![l] = "new"]
    /\ l1d_dirty' = l1d_dirty \cup {l}
    /\ UNCHANGED <<pc, below, iside>>

LoadSegments ==
    /\ pc = "load"
    /\ \A l \in AppLine : Load(l) = "new"
    /\ pc' = "writeback"
    /\ UNCHANGED <<dside, below, iside>>

\* The bits of a ROM cache map.
L1D == <<"L1D">>
L2 == <<"L2">>
L1I(c) == <<"L1I", c>>

WriteBackMisses(map) ==     \* mutant: clean lines and misses are written back too
    /\ mem' = [l \in Line |-> IF l \in l1d_dirty THEN l1d[l] ELSE l2[l]]
    /\ l2_dirty' = {} /\ l1d_dirty' = {}
    /\ UNCHANGED <<l1d, l2, iside>>

\* Cache_WriteBack_All(map): dirty lines of the D-cache go to L2, those of L2
\* to memory.
WriteBack(map) ==
    LET dpushed == IF L1D \in map THEN l1d_dirty ELSE {}
        inL2 == [l \in Line |-> IF l \in dpushed THEN l1d[l] ELSE l2[l]]
        dirtyL2 == l2_dirty \cup dpushed
    IN  /\ l2' = inL2
        /\ l1d_dirty' = l1d_dirty \ dpushed
        /\ IF L2 \in map
           THEN /\ mem' = [l \in Line |-> IF l \in dirtyL2 THEN inL2[l] ELSE mem[l]]
                /\ l2_dirty' = {}
           ELSE UNCHANGED mem /\ l2_dirty' = dirtyL2
        /\ UNCHANGED <<l1d, iside>>

\* Cache_Invalidate_All(map): drops every line, dirty ones too.
Invalidate(map) ==
    /\ l1i' = [c \in Core |-> IF L1I(c) \in map THEN [l \in Line |-> Miss] ELSE l1i[c]]
    /\ IF L2 \in map
       THEN l2' = [l \in Line |-> Miss] /\ l2_dirty' = {}
       ELSE UNCHANGED <<l2, l2_dirty>>
    /\ UNCHANGED <<mem, dside, stream>>

PublishL1Only ==        \* mutant: L2 is not in the write-back map
    /\ pc = "writeback"
    /\ WriteBack({L1D})
    /\ pc' = "invalidate"

Publish ==
    /\ pc = "writeback"
    /\ WriteBack({L1D, L2})
    /\ pc' = "invalidate"

DropStaleL2Only ==      \* mutant: the I-caches are not in the map
    /\ pc = "invalidate"
    /\ Invalidate({L2})
    /\ pc' = "fence"

DropStale ==
    /\ pc = "invalidate"
    /\ Invalidate({L2} \cup {L1I(c) : c \in Core})
    /\ pc' = "fence"

\* fence.i: what was fetched ahead is thrown away.
FenceI ==
    /\ pc = "fence"
    /\ stream' = [l \in Line |-> Miss]
    /\ pc' = "jump"
    /\ UNCHANGED <<dside, below, l1i>>

\* jr entry_addr
Jump ==
    /\ pc = "jump"
    /\ pc' = "app"
    /\ UNCHANGED <<dside, below, iside>>

HartStep == (\E l \in Line : Store(l)) \/ LoadSegments \/ Publish \/ DropStale \/ FenceI \/ Jump

Next == HartStep \/ CacheStep

Spec == Init /\ [][Next]_vars

-----------------------------------------------------------------------------
(***************************************************************************)
(* Properties.                                                             *)
(***************************************************************************)

\* "Skipping either step leaves the chip silently jumping into uninitialised
\* memory": once the app runs, no instruction fetch, of either core or from
\* what was fetched ahead of the jump, meets anything but the loaded image.
FetchesLoadedCode ==
    pc = "app" => \A l \in AppLine :
        /\ Hit(stream, l) => stream[l] = "new"
        /\ \A c \in Core : Fetch(c, l) = "new"

\* The invalidation, which drops dirty lines, costs the image nothing: from
\* the last segment store on, a load of the hart returns what was stored.
ImageSurvivesInvalidate ==
    pc # "load" => \A l \in AppLine : Load(l) = "new"

-----------------------------------------------------------------------------
(***************************************************************************)
(* The inductive invariant (CacheHandoffProofs proves it).                 *)
(***************************************************************************)
\* A dirty line is in its cache.
DirtyHit ==
    /\ \A l \in l2_dirty : Hit(l2, l)
    /\ \A l \in l1d_dirty : Hit(l1d, l)

\* A clean line of the image is a copy of what is below it.
Coherent ==
    \A l \in AppLine :
        /\ (Hit(l2, l) /\ l \notin l2_dirty) => l2[l] = mem[l]
        /\ (Hit(l1d, l) /\ l \notin l1d_dirty) => l1d[l] = Below(l)

\* After the write-back the image is in memory and nothing of it is dirty.
Published == pc \notin {"load", "writeback"}

PublishedInv ==
    Published => \A l \in AppLine :
        mem[l] = "new" /\ l \notin l2_dirty /\ l \notin l1d_dirty

\* No stale copy is left in the I-caches after the invalidation, nor in front
\* of them after the fence.
InstructionInv ==
    \A l \in AppLine :
        /\ pc \in {"fence", "jump", "app"} => \A c \in Core : l1i[c][l] \in {"new", Miss}
        /\ pc \in {"jump", "app"} => stream[l] \in {"new", Miss}

IInv == TypeOK /\ DirtyHit /\ Coherent /\ PublishedInv /\ InstructionInv /\ ImageSurvivesInvalidate
=============================================================================
