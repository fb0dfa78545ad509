----------------------------- MODULE TailsProofs -----------------------------
(***************************************************************************)
(* The tails of sequences, for every length.                               *)
(***************************************************************************)
EXTENDS Tails, Integers, SequenceTheorems, TLAPS

\* LastOf returns the last n items of s, or all of them.
LEMMA LastOfProperties ==
    ASSUME NEW S, NEW n \in Nat \ {0}, NEW s \in Seq(S)
    PROVE  /\ LastOf(s, n) \in Seq(S)
           /\ Len(LastOf(s, n)) = IF Len(s) <= n THEN Len(s) ELSE n
           /\ \A i \in 1..Len(LastOf(s, n)) :
                 LastOf(s, n)[i] = s[i + Len(s) - Len(LastOf(s, n))]
  <1>1. Len(s) \in Nat
    BY LenProperties
  <1>2. CASE Len(s) <= n
    BY <1>1, <1>2 DEF LastOf
  <1>3. CASE ~(Len(s) <= n)
    <2>1. \A i \in (Len(s) - n + 1)..Len(s) : s[i] \in S
      BY <1>1, <1>3, ElementOfSeq
    <2>2. LastOf(s, n) = SubSeq(s, Len(s) - n + 1, Len(s))
      BY <1>3 DEF LastOf
    <2>3. /\ SubSeq(s, Len(s) - n + 1, Len(s)) \in Seq(S)
          /\ Len(SubSeq(s, Len(s) - n + 1, Len(s))) = n
          /\ \A i \in 1..n :
                SubSeq(s, Len(s) - n + 1, Len(s))[i] = s[i + Len(s) - n]
      BY <1>1, <1>3, <2>1, SubSeqProperties
    <2> QED BY <2>2, <2>3, <1>3
  <1> QED BY <1>2, <1>3

\* A push adds its item and moves the others down if the ring is full.
LEMMA AppendedProperties ==
    ASSUME NEW S, NEW n \in Nat \ {0}, NEW ring \in Seq(S), Len(ring) <= n,
           NEW r \in S
    PROVE  /\ Appended(ring, r, n) \in Seq(S)
           /\ Appended(ring, r, n) # <<>>
           /\ Len(Appended(ring, r, n)) = IF Len(ring) < n THEN Len(ring) + 1 ELSE n
           /\ Appended(ring, r, n)[Len(Appended(ring, r, n))] = r
           /\ \A i \in 1..(Len(Appended(ring, r, n)) - 1) :
                 Appended(ring, r, n)[i] = IF Len(ring) < n THEN ring[i] ELSE ring[i + 1]
  <1>1. Len(ring) \in Nat
    BY LenProperties
  <1>2. CASE Len(ring) < n
    BY <1>1, <1>2, AppendProperties DEF Appended
  <1>3. CASE ~(Len(ring) < n)
    <2>1. Len(ring) = n /\ ring # <<>>
      BY <1>1, <1>3, EmptySeq
    <2>2. /\ Tail(ring) \in Seq(S)
          /\ Len(Tail(ring)) = n - 1
          /\ \A i \in 1..(n - 1) : Tail(ring)[i] = ring[i + 1]
      BY <2>1, HeadTailProperties
    <2>3. Appended(ring, r, n) = Append(Tail(ring), r)
      BY <1>3 DEF Appended
    <2> QED BY <2>1, <2>2, <2>3, <1>3, AppendProperties
  <1> QED BY <1>2, <1>3

\* Appending to the tail of the log gives the tail of the longer log.
LEMMA AppendToTail ==
    ASSUME NEW S, NEW n \in Nat \ {0}, NEW s \in Seq(S), NEW r \in S
    PROVE  Appended(LastOf(s, n), r, n) = LastOf(Append(s, r), n)
  <1> DEFINE t == Append(s, r)
             a == Appended(LastOf(s, n), r, n)
             b == LastOf(t, n)
  <1>1. Len(s) \in Nat
    BY LenProperties
  <1>2. /\ t \in Seq(S) /\ Len(t) = Len(s) + 1 /\ t[Len(s) + 1] = r
        /\ \A i \in 1..Len(s) : t[i] = s[i]
    BY AppendProperties
  <1> HIDE DEF t
  <1>3. /\ LastOf(s, n) \in Seq(S)
        /\ Len(LastOf(s, n)) = IF Len(s) <= n THEN Len(s) ELSE n
        /\ \A i \in 1..Len(LastOf(s, n)) :
              LastOf(s, n)[i] = s[i + Len(s) - Len(LastOf(s, n))]
    BY LastOfProperties
  <1>4. /\ b \in Seq(S)
        /\ Len(b) = IF Len(s) + 1 <= n THEN Len(s) + 1 ELSE n
        /\ \A i \in 1..Len(b) : b[i] = t[i + Len(s) + 1 - Len(b)]
    <2>1. /\ b \in Seq(S)
          /\ Len(b) = IF Len(t) <= n THEN Len(t) ELSE n
          /\ \A i \in 1..Len(b) : b[i] = t[i + Len(t) - Len(b)]
      BY <1>2, LastOfProperties
    <2> HIDE DEF b
    <2>2. Len(b) \in Nat
      BY <2>1, LenProperties
    <2>3. \A i \in 1..Len(b) : i + Len(t) - Len(b) = i + Len(s) + 1 - Len(b)
      BY <1>1, <1>2, <2>2
    <2> QED BY <1>2, <2>1, <2>3
  <1> HIDE DEF b
  <1>5. Len(LastOf(s, n)) <= n
    BY <1>1, <1>3
  <1>6. /\ a \in Seq(S)
        /\ Len(a) = IF Len(LastOf(s, n)) < n
                    THEN Len(LastOf(s, n)) + 1 ELSE n
        /\ a[Len(a)] = r
        /\ \A i \in 1..(Len(a) - 1) :
              a[i] = IF Len(LastOf(s, n)) < n
                     THEN LastOf(s, n)[i] ELSE LastOf(s, n)[i + 1]
    <2> DEFINE l == LastOf(s, n)
    <2>1. l \in Seq(S) /\ Len(l) <= n
      BY <1>3, <1>5
    <2> HIDE DEF l
    <2>2. /\ Appended(l, r, n) \in Seq(S)
          /\ Len(Appended(l, r, n)) = IF Len(l) < n THEN Len(l) + 1 ELSE n
          /\ Appended(l, r, n)[Len(Appended(l, r, n))] = r
          /\ \A i \in 1..(Len(Appended(l, r, n)) - 1) :
                Appended(l, r, n)[i] = IF Len(l) < n THEN l[i] ELSE l[i + 1]
      BY <2>1, AppendedProperties
    <2> QED BY <2>2 DEF l
  <1> HIDE DEF a
  <1>7. Len(a) = Len(b) /\ Len(a) \in Nat \ {0}
    BY <1>1, <1>3, <1>4, <1>6
  <1>8. ASSUME NEW i \in 1..Len(a) PROVE a[i] = b[i]
    <2>1. CASE i = Len(a)
      <3>1. b[i] = t[i + Len(s) + 1 - Len(b)]
        BY <1>4, <1>7
      <3>2. i + Len(s) + 1 - Len(b) = Len(s) + 1
        BY <2>1, <1>1, <1>7
      <3> QED BY <2>1, <3>1, <3>2, <1>2, <1>6
    <2>2. CASE i < Len(a) /\ Len(s) < n
      <3>1. Len(LastOf(s, n)) = Len(s) /\ Len(a) = Len(s) + 1 /\ i \in 1..Len(s)
        BY <2>2, <1>1, <1>3, <1>6
      <3>2. a[i] = LastOf(s, n)[i]
        BY <3>1, <2>2, <1>1, <1>6
      <3>3. LastOf(s, n)[i] = s[i]
        <4>1. i + Len(s) - Len(s) = i
          BY <1>1
        <4> QED BY <3>1, <4>1, <1>3
      <3>4. b[i] = t[i]
        <4>1. i + Len(s) + 1 - (Len(s) + 1) = i
          BY <1>1
        <4> QED BY <3>1, <4>1, <1>4, <1>7
      <3> QED BY <3>1, <3>2, <3>3, <3>4, <1>2
    <2>3. CASE i < Len(a) /\ ~(Len(s) < n)
      <3>1. Len(LastOf(s, n)) = n /\ Len(a) = n
        BY <2>3, <1>1, <1>3, <1>6
      <3>2. a[i] = LastOf(s, n)[i + 1]
        BY <3>1, <2>3, <1>6
      <3>3. LastOf(s, n)[i + 1] = s[i + 1 + Len(s) - n]
        <4>1. i + 1 \in 1..Len(LastOf(s, n))
          BY <3>1, <2>3
        <4>2. LastOf(s, n)[i + 1] = s[(i + 1) + Len(s) - Len(LastOf(s, n))]
          BY <4>1, <1>3
        <4> QED BY <4>2, <3>1
      <3>4. b[i] = t[i + Len(s) + 1 - n]
        BY <3>1, <1>4, <1>7
      <3>5. i + Len(s) + 1 - n \in 1..Len(s)
        BY <3>1, <2>3, <1>1
      <3> QED BY <3>2, <3>3, <3>4, <3>5, <1>1, <1>2
    <2> QED BY <2>1, <2>2, <2>3, <1>7
  <1> QED BY <1>4, <1>6, <1>7, <1>8, SeqEqual DEF a, b, t
=============================================================================
