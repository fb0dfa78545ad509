------------------------- MODULE CacheHandoffProofs -------------------------
(***************************************************************************)
(* The hand-over to the app is coherent for any number of lines and cores, *)
(* whatever the caches fill, prefetch and evict on the way.                *)
(***************************************************************************)
EXTENDS CacheHandoff, TLAPS

LEMMA LineFacts == AppLine \subseteq Line /\ Hart \in Core /\ Miss \notin Value
  BY CacheAssumption DEF Line

\* The write-back map holds both caches, the invalidation map L2 and every
\* I-cache.
LEMMA PublishStep ==
    ASSUME Publish
    PROVE  /\ pc = "writeback" /\ pc' = "invalidate"
           /\ l2' = [l \in Line |-> IF l \in l1d_dirty THEN l1d[l] ELSE l2[l]]
           /\ mem' = [l \in Line |-> IF l \in l2_dirty \cup l1d_dirty
                                     THEN (IF l \in l1d_dirty THEN l1d[l] ELSE l2[l])
                                     ELSE mem[l]]
           /\ l2_dirty' = {} /\ l1d_dirty' = {}
           /\ UNCHANGED <<l1d, l1i, stream>>
  <1> DEFINE map == {L1D, L2}
             inL2 == [l \in Line |-> IF l \in l1d_dirty THEN l1d[l] ELSE l2[l]]
  <1>1. L1D \in map /\ L2 \in map
    OBVIOUS
  <1>2. /\ l2' = inL2
        /\ mem' = [l \in Line |-> IF l \in l2_dirty \cup l1d_dirty THEN inL2[l] ELSE mem[l]]
        /\ l2_dirty' = {} /\ l1d_dirty' = {}
    BY <1>1 DEF Publish, WriteBack
  <1>3. \A l \in Line : inL2[l] = IF l \in l1d_dirty THEN l1d[l] ELSE l2[l]
    OBVIOUS
  <1> HIDE DEF inL2
  <1>4. mem' = [l \in Line |-> IF l \in l2_dirty \cup l1d_dirty
                               THEN (IF l \in l1d_dirty THEN l1d[l] ELSE l2[l])
                               ELSE mem[l]]
    BY <1>2, <1>3
  <1> QED BY <1>2, <1>4 DEF Publish, WriteBack, iside, inL2

LEMMA DropStaleStep ==
    ASSUME DropStale
    PROVE  /\ pc = "invalidate" /\ pc' = "fence"
           /\ l1i' = [c \in Core |-> [l \in Line |-> Miss]]
           /\ l2' = [l \in Line |-> Miss]
           /\ l2_dirty' = {}
           /\ UNCHANGED <<mem, l1d, l1d_dirty, stream>>
  <1> DEFINE map == {L2} \cup {L1I(c) : c \in Core}
  <1>1. L2 \in map /\ \A c \in Core : L1I(c) \in map
    OBVIOUS
  <1> QED BY <1>1, Zenon DEF DropStale, Invalidate, dside

\* No step stores to a line of the image after the last segment, and a store
\* leaves the line dirty.
LEMMA StoreStep ==
    ASSUME NEW k \in Line, Store(k)
    PROVE  /\ l1d' = [l1d EXCEPT ![k] = "new"]
           /\ l1d_dirty' = l1d_dirty \cup {k}
           /\ pc # "load" => k \notin AppLine
           /\ UNCHANGED <<pc, mem, l2, l2_dirty, l1i, stream>>
  BY CacheAssumption DEF Store, below, iside

-----------------------------------------------------------------------------
LEMMA TypeInit == Init => TypeOK
  BY DEF Init, TypeOK, Cached, Value

\* Every step keeps the types.
LEMMA TypeStep == TypeOK /\ DirtyHit /\ [Next]_vars => TypeOK'
  <1> SUFFICES ASSUME TypeOK, DirtyHit, [Next]_vars
               PROVE  TypeOK'
    OBVIOUS
  <1> USE LineFacts DEF TypeOK, Cached
  <1>1. ASSUME NEW l \in Line, Store(l) PROVE TypeOK'
    BY <1>1, StoreStep DEF Value
  <1>2. CASE LoadSegments
    BY <1>2 DEF LoadSegments, dside, below, iside
  <1>3. CASE Publish
    BY <1>3, PublishStep DEF DirtyHit, Hit
  <1>4. CASE DropStale
    BY <1>4, DropStaleStep
  <1>5. CASE FenceI
    BY <1>5 DEF FenceI, dside, below
  <1>6. CASE Jump
    BY <1>6 DEF Jump, dside, below, iside
  <1>7. ASSUME NEW l \in Line, FillData(l) PROVE TypeOK'
    BY <1>7 DEF FillData, FillL2, Below, Hit, iside
  <1>8. ASSUME NEW l \in Line, FetchAhead(l) PROVE TypeOK'
    BY <1>8 DEF FetchAhead, dside, below
  <1>9. ASSUME NEW l \in Line, EvictData(l) PROVE TypeOK'
    BY <1>9 DEF EvictData, Hit, iside
  <1>10. ASSUME NEW l \in Line, EvictL2(l) PROVE TypeOK'
    BY <1>10 DEF EvictL2, Hit, dside, iside
  <1>11. ASSUME NEW l \in Line, NEW c \in Core, FillInstruction(c, l) PROVE TypeOK'
    BY <1>11 DEF FillInstruction, FillL2, Below, Hit, dside
  <1>12. CASE UNCHANGED vars
    BY <1>12 DEF vars, dside, below, iside
  <1> QED BY <1>1, <1>2, <1>3, <1>4, <1>5, <1>6, <1>7, <1>8, <1>9, <1>10, <1>11, <1>12
          DEF Next, HartStep, CacheStep

-----------------------------------------------------------------------------
LEMMA InvInit == Init => IInv
  <1> SUFFICES ASSUME Init PROVE IInv
    OBVIOUS
  <1>1. TypeOK
    BY TypeInit
  <1> QED BY <1>1, LineFacts DEF IInv, Init, DirtyHit, DirtyHit, Coherent, PublishedInv, Published, InstructionInv,
          ImageSurvivesInvalidate, Hit

\* Every step of the hart and of the caches preserves the invariant.
LEMMA InvStep == IInv /\ [Next]_vars => IInv'
  <1> SUFFICES ASSUME IInv, [Next]_vars
               PROVE  IInv'
    OBVIOUS
  <1>0. TypeOK'
    BY TypeStep DEF IInv
  <1> DEFINE Rest == DirtyHit /\ Coherent /\ PublishedInv /\ InstructionInv /\ ImageSurvivesInvalidate
  <1> SUFFICES Rest'
    BY <1>0 DEF IInv
  <1> USE LineFacts DEF IInv, TypeOK, Cached
  <1>1. ASSUME NEW k \in Line, Store(k) PROVE Rest'
    <2> USE <1>1, StoreStep
    <2>1. DirtyHit' /\ Coherent'
      BY DEF DirtyHit, Coherent, Hit, Below, Value
    <2>2. ImageSurvivesInvalidate' /\ PublishedInv' /\ InstructionInv'
      BY DEF ImageSurvivesInvalidate, PublishedInv, Published, InstructionInv, Load, Hit, Below
    <2> QED BY <2>1, <2>2
  <1>2. CASE LoadSegments
    BY <1>2 DEF LoadSegments, dside, below, iside, DirtyHit, Coherent, PublishedInv, Published,
                InstructionInv, ImageSurvivesInvalidate, Load, Hit, Below
  <1>3. CASE Publish
    <2> USE <1>3, PublishStep
    <2>1. DirtyHit' /\ Coherent'
      BY DEF DirtyHit, Coherent, Hit, Below, Value
    <2>2. PublishedInv'
      BY DEF DirtyHit, Coherent, PublishedInv, Published, ImageSurvivesInvalidate, Load, Hit, Below
    <2>3. InstructionInv' /\ ImageSurvivesInvalidate'
      BY DEF DirtyHit, Coherent, InstructionInv, ImageSurvivesInvalidate, Load, Hit, Below
    <2> QED BY <2>1, <2>2, <2>3
  <1>4. CASE DropStale
    <2> USE <1>4, DropStaleStep
    <2>1. DirtyHit' /\ Coherent'
      BY DEF DirtyHit, Coherent, PublishedInv, Published, ImageSurvivesInvalidate, Load, Hit, Below, Value
    <2>2. PublishedInv' /\ InstructionInv' /\ ImageSurvivesInvalidate'
      BY DEF PublishedInv, Published, InstructionInv, ImageSurvivesInvalidate, Load, Hit, Below
    <2> QED BY <2>1, <2>2
  <1>5. CASE FenceI
    BY <1>5 DEF FenceI, dside, below, DirtyHit, Coherent, PublishedInv, Published,
                InstructionInv, ImageSurvivesInvalidate, Load, Hit, Below
  <1>6. CASE Jump
    BY <1>6 DEF Jump, dside, below, iside, DirtyHit, Coherent, PublishedInv, Published,
                InstructionInv, ImageSurvivesInvalidate, Load, Hit, Below
  <1>7. ASSUME NEW k \in Line, FillData(k) PROVE Rest'
    BY <1>7 DEF FillData, FillL2, iside, DirtyHit, Coherent, PublishedInv, Published, InstructionInv,
                ImageSurvivesInvalidate, Load, Hit, Below
  <1>8. ASSUME NEW k \in Line, FetchAhead(k) PROVE Rest'
    BY <1>8 DEF FetchAhead, dside, below, DirtyHit, Coherent, PublishedInv, Published, InstructionInv,
                ImageSurvivesInvalidate, Load, Hit, Below
  <1>9. ASSUME NEW k \in Line, EvictData(k) PROVE Rest'
    BY <1>9 DEF EvictData, iside, DirtyHit, Coherent, PublishedInv, Published, InstructionInv,
                ImageSurvivesInvalidate, Load, Hit, Below
  <1>10. ASSUME NEW k \in Line, EvictL2(k) PROVE Rest'
    BY <1>10 DEF EvictL2, dside, iside, DirtyHit, Coherent, PublishedInv, Published, InstructionInv,
                 ImageSurvivesInvalidate, Load, Hit, Below
  <1>11. ASSUME NEW k \in Line, NEW c \in Core, FillInstruction(c, k) PROVE Rest'
    <2> USE <1>11
    <2>1. Below(k) = "new" \/ k \notin AppLine \/ ~Published
      BY DEF DirtyHit, Coherent, PublishedInv, Published, Hit, Below
    <2>2. InstructionInv'
      BY <2>1 DEF FillInstruction, InstructionInv, Published
    <2>3. DirtyHit' /\ Coherent' /\ PublishedInv' /\ ImageSurvivesInvalidate'
      BY DEF FillInstruction, FillL2, dside, DirtyHit, Coherent, PublishedInv, Published,
             ImageSurvivesInvalidate, Load, Hit, Below
    <2> QED BY <2>2, <2>3
  <1>12. CASE UNCHANGED vars
    BY <1>12 DEF vars, dside, below, iside, DirtyHit, Coherent, PublishedInv, Published,
                 InstructionInv, ImageSurvivesInvalidate, Load, Hit, Below
  <1> QED BY <1>1, <1>2, <1>3, <1>4, <1>5, <1>6, <1>7, <1>8, <1>9, <1>10, <1>11, <1>12
          DEF Next, HartStep, CacheStep

\* The invariant of the hand-over holds in every reachable state.
THEOREM Invariance == Spec => []IInv
  BY InvInit, InvStep, PTL DEF Spec

\* TypeOK of CacheHandoff, for any lines and cores.
THEOREM TypeCorrect == Spec => []TypeOK
  <1>1. IInv => TypeOK
    BY DEF IInv
  <1> QED BY Invariance, <1>1, PTL

\* jump_to_entry: the invalidation loses no byte of the image.
THEOREM ImageSurvives == Spec => []ImageSurvivesInvalidate
  <1>1. IInv => ImageSurvivesInvalidate
    BY DEF IInv
  <1> QED BY Invariance, <1>1, PTL

\* jump_to_entry: the app is entered with no stale instruction in reach.
THEOREM FetchesLoaded == Spec => []FetchesLoadedCode
  <1>1. IInv => FetchesLoadedCode
    BY LineFacts DEF IInv, TypeOK, Cached, DirtyHit, Coherent, PublishedInv, Published, InstructionInv,
                     FetchesLoadedCode, Fetch, Below, Hit
  <1> QED BY Invariance, <1>1, PTL
=============================================================================
