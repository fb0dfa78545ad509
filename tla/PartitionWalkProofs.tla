------------------------ MODULE PartitionWalkProofs ------------------------
(***************************************************************************)
(* The partition walk is right for every table of every length.            *)
(***************************************************************************)
EXTENDS PartitionWalk, TLAPS

USE WalkAssumption

\* Before the first entry is looked at, nothing has been passed.
LEMMA InitIInv == Init => IInv
  BY DEF Init, IInv, TypeOK, LoopInv, FindsFirstMatch

\* Every step of the loop preserves the loop invariant: the entry it leaves
\* behind is no terminator and no hit, and the entry it returns is the first.
LEMMA NextIInv == IInv /\ [Next]_vars => IInv'
  <1> SUFFICES ASSUME IInv, [Next]_vars PROVE IInv'
    OBVIOUS
  <1> USE DEF IInv, TypeOK, LoopInv, FindsFirstMatch, IsFirstHit, Hit, Visible, Matches
  <1>1. CASE ReadTable
    BY <1>1 DEF ReadTable
  <1>2. CASE ReadTableFails
    BY <1>2 DEF ReadTableFails, Return
  <1>3. CASE VisitMatch
    <2>1. k \in 1..N /\ \A j \in 1..k : table[j].magic # "other"
      BY <1>3 DEF VisitMatch, AtEntry
    <2>2. IsFirstHit(k)
      BY <1>3, <2>1 DEF VisitMatch, AtEntry
    <2>3. QED
      BY <1>3, <2>1, <2>2 DEF VisitMatch, Return, ok_or
  <1>4. CASE VisitOther
    BY <1>4 DEF VisitOther, AtEntry
  <1>5. CASE SkipMd5
    BY <1>5 DEF SkipMd5, AtEntry
  <1>6. CASE StopWalk
    <2>1. ASSUME NEW i \in 1..N PROVE ~Hit(i)
      <3>1. CASE i < k
        BY <1>6, <3>1 DEF StopWalk, AtEntry
      <3>2. CASE ~(i < k)
        <4>1. k \in 1..i /\ table[k].magic = "other"
          BY <1>6, <3>2 DEF StopWalk, AtEntry
        <4>2. QED
          BY <4>1
      <3>3. QED
        BY <3>1, <3>2
    <2>2. found = 0 /\ result' = "NoFactoryApp" /\ pc' = "done"
      BY <1>6 DEF StopWalk, AtEntry, Return, ok_or
    <2>3. (\A i \in 1..N : ~Hit(i))'
      BY <1>6, <2>1 DEF StopWalk
    <2>4. QED
      BY <1>6, <2>2, <2>3 DEF StopWalk
  <1>7. CASE Returned
    BY <1>7 DEF Returned, vars
  <1>8. CASE UNCHANGED vars
    BY <1>8 DEF vars
  <1>9. QED
    BY <1>1, <1>2, <1>3, <1>4, <1>5, <1>6, <1>7, <1>8 DEF Next

\* Whatever the table holds, find_by_label and find_factory_app return the
\* first matching entry in front of the terminator, or report that none is.
THEOREM FirstMatchFound == Spec => []FindsFirstMatch
  <1>1. IInv => FindsFirstMatch
    BY DEF IInv, LoopInv
  <1>2. QED
    BY <1>1, InitIInv, NextIInv, PTL DEF Spec

\* Type correctness (TypeOK): the walk never reads past the last entry of the
\* table and answers with an entry of it, for tables of every length.
THEOREM TypeCorrect == Spec => []TypeOK
  <1>1. IInv => TypeOK
    BY DEF IInv
  <1>2. QED
    BY <1>1, InitIInv, NextIInv, PTL DEF Spec
=============================================================================
