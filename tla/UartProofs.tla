----------------------------- MODULE UartProofs -----------------------------
(***************************************************************************)
(* The console for every set of texts, FIFO and ring of every size.        *)
(***************************************************************************)
EXTENDS Uart, TailsProofs, FiniteSetTheorems

\* What the sizes are.
LEMMA Parameters == Capacity \in Nat \ {0} /\ RingLen \in Nat \ {0}
  BY UartAssumption

\* write_byte writes one byte, the one due, and it fits.
DueByte == IF Head(todo) = "\n" /\ ~half THEN "\r" ELSE Head(todo)

-----------------------------------------------------------------------------
(***************************************************************************)
(* Where the bytes of a text are on the line.                              *)
(***************************************************************************)
\* The newlines before a byte of a text.
Newlines(s, n) == {k \in 1..n : s[k] = "\n"}

LEMMA NewlinesFinite ==
  ASSUME NEW s, NEW n \in Nat
  PROVE  IsFiniteSet(Newlines(s, n)) /\ Cardinality(Newlines(s, n)) \in Nat
  <1>1. IsFiniteSet(1..n)
    BY FS_Interval
  <1>2. Newlines(s, n) \in SUBSET (1..n)
    BY DEF Newlines
  <1>3. IsFiniteSet(Newlines(s, n))
    BY <1>1, <1>2, FS_Subset
  <1> QED BY <1>3, FS_CardinalityType

\* A text starts at the start of the line, and a byte takes one place, a
\* newline two.
LEMMA LinePosNext ==
  ASSUME NEW s, NEW n \in Nat
  PROVE  /\ LinePos(s, n) \in Nat
         /\ LinePos(s, 0) = 0
         /\ LinePos(s, n + 1) = LinePos(s, n) + (IF s[n + 1] = "\n" THEN 2 ELSE 1)
  <1> DEFINE A == Newlines(s, n)
             B == Newlines(s, n + 1)
  <1>1. IsFiniteSet(A) /\ Cardinality(A) \in Nat
    BY NewlinesFinite
  <1>2. Newlines(s, 0) = {}
    BY DEF Newlines
  <1>3. LinePos(s, 0) = 0
    BY <1>2, FS_EmptySet DEF LinePos, Newlines
  <1>4. B = IF s[n + 1] = "\n" THEN A \cup {n + 1} ELSE A
    BY DEF Newlines
  <1>5. n + 1 \notin A
    BY DEF Newlines
  <1>6. LinePos(s, n) = n + Cardinality(A) /\ LinePos(s, n + 1) = (n + 1) + Cardinality(B)
    BY DEF LinePos, Newlines
  <1> HIDE DEF A, B
  <1>7. Cardinality(A \cup {n + 1}) = Cardinality(A) + 1
    BY <1>1, <1>5, FS_AddElement
  <1> QED BY <1>1, <1>3, <1>4, <1>6, <1>7

\* Bytes are on the line in the order of the text, each at its own place or
\* later; the first of two bytes comes before the second.
LEMMA LinePosOrder ==
  ASSUME NEW s, NEW m \in Nat, NEW n \in Nat, m <= n
  PROVE  LinePos(s, m) + (n - m) <= LinePos(s, n)
  <1>1. Newlines(s, m) \in SUBSET Newlines(s, n)
    BY DEF Newlines
  <1>2. /\ IsFiniteSet(Newlines(s, n)) /\ Cardinality(Newlines(s, n)) \in Nat
        /\ Cardinality(Newlines(s, m)) \in Nat
    BY NewlinesFinite
  <1>3. Cardinality(Newlines(s, m)) <= Cardinality(Newlines(s, n))
    BY <1>1, <1>2, FS_Subset
  <1>4. /\ LinePos(s, m) = m + Cardinality(Newlines(s, m))
        /\ LinePos(s, n) = n + Cardinality(Newlines(s, n))
    BY DEF LinePos, Newlines
  <1> QED BY <1>2, <1>3, <1>4

\* A byte has a place on the line, a newline one with a place before it.
LEMMA LinePosOfByte ==
  ASSUME NEW s, NEW k \in Nat \ {0}
  PROVE  /\ LinePos(s, k) \in Nat \ {0}
         /\ s[k] = "\n" => LinePos(s, k) - 1 \in Nat \ {0}
  <1>1. k - 1 \in Nat /\ (k - 1) + 1 = k
    OBVIOUS
  <1>2. /\ LinePos(s, k - 1) \in Nat
        /\ LinePos(s, (k - 1) + 1) =
              LinePos(s, k - 1) + (IF s[(k - 1) + 1] = "\n" THEN 2 ELSE 1)
    BY <1>1, LinePosNext
  <1> QED BY <1>1, <1>2

\* The place of a byte depends on the text up to it only.
LEMMA LinePosOfPrefix ==
  ASSUME NEW s, NEW t, NEW n \in Nat, \A k \in 1..n : s[k] = t[k]
  PROVE  LinePos(s, n) = LinePos(t, n)
  <1>1. Newlines(s, n) = Newlines(t, n)
    BY DEF Newlines
  <1> QED BY <1>1 DEF LinePos, Newlines

\* A line that shows a text still does when a byte follows.
LEMMA ShownAppend ==
  ASSUME NEW l \in Seq(Byte), NEW b \in Byte, NEW s, NEW n \in Nat, Shown(l, s, n)
  PROVE  Shown(Append(l, b), s, n)
  <1> DEFINE m == Append(l, b)
  <1>1. Len(l) \in Nat /\ Len(m) = Len(l) + 1 /\ \A i \in 1..Len(l) : m[i] = l[i]
    BY LenProperties, AppendProperties
  <1> HIDE DEF m
  <1>2. ASSUME NEW k \in 1..n
        PROVE  /\ LinePos(s, k) <= Len(m)
               /\ m[LinePos(s, k)] = s[k]
               /\ s[k] = "\n" => m[LinePos(s, k) - 1] = "\r"
    <2>1. /\ LinePos(s, k) \in Nat \ {0}
          /\ s[k] = "\n" => LinePos(s, k) - 1 \in Nat \ {0}
      BY LinePosOfByte
    <2>2. /\ LinePos(s, k) <= Len(l)
          /\ l[LinePos(s, k)] = s[k]
          /\ s[k] = "\n" => l[LinePos(s, k) - 1] = "\r"
      BY DEF Shown
    <2>3. LinePos(s, k) \in 1..Len(l)
      BY <2>1, <2>2, <1>1
    <2>4. s[k] = "\n" => LinePos(s, k) - 1 \in 1..Len(l)
      BY <2>1, <2>2, <1>1
    <2> QED BY <1>1, <2>1, <2>2, <2>3, <2>4
  <1> QED BY <1>2 DEF m, Shown

\* A line that shows n bytes and has the next where it belongs shows n + 1.
LEMMA ShownNext ==
  ASSUME NEW l, NEW s, NEW n \in Nat, Shown(l, s, n),
         LinePos(s, n + 1) <= Len(l),
         l[LinePos(s, n + 1)] = s[n + 1],
         s[n + 1] = "\n" => l[LinePos(s, n + 1) - 1] = "\r"
  PROVE  Shown(l, s, n + 1)
  <1>1. ASSUME NEW k \in 1..(n + 1), k # n + 1 PROVE k \in 1..n
    BY <1>1
  <1> QED BY <1>1 DEF Shown

\* What follows in the text has no part in what the line shows of its start.
LEMMA ShownOfPrefix ==
  ASSUME NEW l, NEW s, NEW t, NEW n \in Nat, \A k \in 1..n : s[k] = t[k], Shown(l, s, n)
  PROVE  Shown(l, t, n)
  <1>1. ASSUME NEW k \in 1..n PROVE LinePos(s, k) = LinePos(t, k) /\ s[k] = t[k]
    <2>1. k \in Nat /\ \A i \in 1..k : i \in 1..n
      OBVIOUS
    <2> QED BY <2>1, LinePosOfPrefix
  <1> QED BY <1>1 DEF Shown

-----------------------------------------------------------------------------
LEMMA TypeInit == Init => TypeOK
  <1> SUFFICES ASSUME Init PROVE TypeOK
    OBVIOUS
  <1>1. <<>> \in Seq(Byte) /\ Len(<<>>) = 0
    OBVIOUS
  <1>2. half \in BOOLEAN /\ stuck \in BOOLEAN
    BY Zenon DEF Init
  <1>3. lines \in 0..MaxLines /\ boots \in 0..MaxBoots
    BY UartAssumption, SMT DEF Init
  <1>4. phase \in Phase
    BY DEF Init, Phase
  <1>5. /\ todo = <<>> /\ left = <<>> /\ fifo = <<>> /\ shift = <<>> /\ wire = <<>>
        /\ ring = <<>> /\ dump = <<>> /\ log = <<>> /\ lastWords = <<>>
    BY DEF Init
  <1>6. 0 <= Capacity /\ 0 <= 1 /\ 0 <= RingLen
    BY Parameters
  <1>7. /\ todo \in Seq(Byte) /\ left \in Seq(Byte) /\ fifo \in Seq(Byte)
        /\ shift \in Seq(Byte) /\ wire \in Seq(Byte) /\ ring \in Seq(Byte)
        /\ dump \in Seq(Byte) /\ log \in Seq(Byte) /\ lastWords \in Seq(Byte)
        /\ Len(fifo) <= Capacity /\ Len(shift) <= 1 /\ Len(ring) <= RingLen
        /\ Len(dump) <= RingLen
    BY <1>1, <1>5, <1>6
  <1> QED BY <1>2, <1>3, <1>4, <1>7 DEF TypeOK

LEMMA InitInv == Init => IInv
  <1> SUFFICES ASSUME Init PROVE IInv
    OBVIOUS
  <1>1. TypeOK
    BY TypeInit
  <1>2. todo = <<>> /\ ring = <<>> /\ dump = <<>> /\ lastWords = <<>> /\ Emitted = <<>> /\ ~half
    BY DEF Init, Emitted
  <1>3. LastOf(<<>>, RingLen) = <<>>
    BY Parameters DEF LastOf
  <1>4. LineEnds
    BY <1>2 DEF LineEnds
  <1>5. NothingLost
    <2>1. Written = 0 /\ Len(Emitted) = 0 /\ log = <<>>
      BY <1>2 DEF Init, Written
    <2>2. LinePos(log, 0) = 0
      BY LinePosNext
    <2>3. Shown(Emitted, log, 0)
      BY DEF Shown
    <2> QED BY <1>2, <2>1, <2>2, <2>3 DEF NothingLost
  <1>6. ByteInv
    BY <1>2, <1>3 DEF ByteInv
  <1>7. DrainInv
    BY DEF Init, DrainInv
  <1> QED BY <1>1, <1>2, <1>3, <1>4, <1>5, <1>6, <1>7 DEF IInv, DumpIsLastWords

-----------------------------------------------------------------------------
\* A byte put into a FIFO with room is the next one emitted.
LEMMA PutEmits ==
  ASSUME TypeOK, NEW b \in Byte, Put(b), UNCHANGED <<wire, shift>>
  PROVE  /\ fifo' = Append(fifo, b)
         /\ fifo' \in Seq(Byte) /\ Len(fifo') <= Capacity
         /\ Emitted' = Append(Emitted, b)
         /\ ring' = Appended(ring, b, RingLen)
  <1>1. Len(fifo) < Capacity /\ fifo \in Seq(Byte) /\ Len(fifo) \in Nat
    BY Parameters, LenProperties DEF Put, FifoFull, TypeOK
  <1>2. fifo' = Append(fifo, b)
    BY <1>1 DEF Put, FifoPush
  <1>3. fifo' \in Seq(Byte) /\ Len(fifo') = Len(fifo) + 1
    BY <1>1, <1>2, AppendProperties
  <1>4. wire \o shift \in Seq(Byte) /\ (wire \o shift)' = wire \o shift
    BY ConcatProperties DEF TypeOK
  <1>5. (wire \o shift) \o Append(fifo, b) = Append((wire \o shift) \o fifo, b)
    <2> DEFINE w == wire \o shift
    <2>1. w \in Seq(Byte) /\ <<b>> \in Seq(Byte)
      BY <1>4
    <2> HIDE DEF w
    <2>2. Append(fifo, b) = fifo \o <<b>>
      BY <1>1, AppendIsConcat
    <2>3. w \o fifo \in Seq(Byte)
      BY <1>1, <2>1, ConcatProperties
    <2>4. Append(w \o fifo, b) = (w \o fifo) \o <<b>>
      BY <2>3, AppendIsConcat
    <2>5. (w \o fifo) \o <<b>> = w \o (fifo \o <<b>>)
      BY <1>1, <2>1, ConcatAssociative
    <2> QED BY <2>2, <2>4, <2>5 DEF w
  <1>6. Emitted' = Append(Emitted, b)
    BY <1>2, <1>5 DEF Emitted
  <1>7. Len(fifo') <= Capacity
    BY <1>1, <1>3, Parameters
  <1> QED BY <1>2, <1>3, <1>6, <1>7 DEF Put, RingPush

\* What has been emitted is a sequence of bytes.
LEMMA EmittedType == TypeOK => Emitted \in Seq(Byte)
  BY ConcatProperties DEF TypeOK, Emitted

\* The transmitter moves bytes and changes none of them.
LEMMA TransmitterKeeps == TypeOK /\ Transmitter => Emitted' = Emitted
  <1> SUFFICES ASSUME TypeOK, Transmitter PROVE Emitted' = Emitted
    OBVIOUS
  <1>1. wire \in Seq(Byte) /\ shift \in Seq(Byte) /\ fifo \in Seq(Byte)
    BY DEF TypeOK
  <1>2. CASE Load
    <2>1. /\ shift = <<>> /\ fifo # <<>> /\ wire' = wire
          /\ shift' = <<Head(fifo)>> /\ fifo' = Tail(fifo)
      BY <1>2 DEF Load
    <2>2. <<Head(fifo)>> \in Seq(Byte) /\ Tail(fifo) \in Seq(Byte)
      BY <1>1, <2>1, HeadTailProperties
    <2>3. <<Head(fifo)>> \o Tail(fifo) = fifo
      BY <1>1, <2>1
    <2>4. (wire \o <<Head(fifo)>>) \o Tail(fifo) = wire \o (<<Head(fifo)>> \o Tail(fifo))
      BY <1>1, <2>2, ConcatAssociative
    <2>5. wire \o shift = wire
      BY <1>1, <2>1, ConcatEmptySeq
    <2> QED BY <2>1, <2>3, <2>4, <2>5 DEF Emitted
  <1>3. CASE Send
    <2>1. wire' = wire \o shift /\ shift' = <<>> /\ fifo' = fifo
      BY <1>3 DEF Send
    <2>2. wire \o shift \in Seq(Byte)
      BY <1>1, ConcatProperties
    <2>3. (wire \o shift) \o <<>> = wire \o shift
      BY <2>2, ConcatEmptySeq
    <2> QED BY <2>1, <2>3 DEF Emitted
  <1> QED BY <1>2, <1>3 DEF Transmitter

\* No escaped byte is a "\r".
LEMMA EscapedType ==
  ASSUME NEW b \in Byte
  PROVE  Escaped(b) \in Seq(Byte \ {"\r"}) /\ Escaped(b) \in Seq(Byte)
  <1>1. "x" \in Byte \ {"\r"}
    BY UartAssumption DEF Byte
  <1>2. CASE b = "\r"
    BY <1>2 DEF Escaped
  <1>3. CASE b = "other"
    <2>1. Escaped(b) = <<"x", "x", "x", "x">>
      BY <1>3 DEF Escaped
    <2> QED BY <1>1, <2>1
  <1>4. CASE b # "\r" /\ b # "other"
    BY <1>4 DEF Escaped
  <1> QED BY <1>2, <1>3, <1>4

-----------------------------------------------------------------------------
LEMMA TypeStep == TypeOK /\ [Next]_vars => TypeOK'
  <1> SUFFICES ASSUME TypeOK, [Next]_vars PROVE TypeOK'
    OBVIOUS
  <1> USE DEF hart, line, tail
  <1>1. CASE WriteByte
    <2>1. todo # <<>> /\ todo \in Seq(Byte)
      BY <1>1 DEF WriteByte, TypeOK
    <2>2. Head(todo) \in Byte /\ Tail(todo) \in Seq(Byte) /\ "\r" \in Byte
      BY <2>1, HeadTailProperties DEF Byte
    <2>3. /\ UNCHANGED <<phase, left, shift, wire, dump, lastWords, log, stuck, lines, boots>>
      BY <1>1 DEF WriteByte
    <2>4. PICK b \in Byte : Put(b)
      BY <1>1, <2>2 DEF WriteByte
    <2>5. fifo' \in Seq(Byte) /\ Len(fifo') <= Capacity /\ ring' = Appended(ring, b, RingLen)
      BY <2>3, <2>4, PutEmits
    <2>6. ring' \in Seq(Byte) /\ Len(ring') <= RingLen
      <3>1. ring \in Seq(Byte) /\ Len(ring) <= RingLen /\ Len(ring) \in Nat
        BY LenProperties DEF TypeOK
      <3>2. /\ Appended(ring, b, RingLen) \in Seq(Byte)
            /\ Len(Appended(ring, b, RingLen)) =
                  IF Len(ring) < RingLen THEN Len(ring) + 1 ELSE RingLen
        BY <3>1, Parameters, AppendedProperties
      <3> QED BY <2>5, <3>1, <3>2, Parameters
    <2>7. todo' \in Seq(Byte)
      BY <1>1, <2>1, <2>2 DEF WriteByte
    <2>8. half' \in BOOLEAN
      BY <1>1, Zenon DEF WriteByte
    <2> QED BY <2>3, <2>5, <2>6, <2>7, <2>8 DEF TypeOK
  <1>2. ASSUME NEW s \in Lines, WriteStr(s) PROVE TypeOK'
    <2>1. s \in Seq(Byte)
      BY UartAssumption
    <2>2. log' \in Seq(Byte) /\ todo' \in Seq(Byte)
      BY <1>2, <2>1, ConcatProperties DEF WriteStr, Say, TypeOK
    <2>3. lines' \in 0..MaxLines
      BY <1>2, UartAssumption DEF WriteStr, TypeOK
    <2> QED BY <1>2, <2>2, <2>3 DEF WriteStr, TypeOK
  <1>3. CASE BeginReport
    BY <1>3 DEF BeginReport, TypeOK, Phase
  <1>4. CASE PrintEscaped
    <2>1. Head(left) \in Byte /\ Tail(left) \in Seq(Byte)
      BY <1>4, HeadTailProperties DEF PrintEscaped, TypeOK
    <2>2. Escaped(Head(left)) \in Seq(Byte)
      BY <2>1, EscapedType
    <2>3. log' \in Seq(Byte) /\ todo' \in Seq(Byte)
      BY <1>4, <2>2, ConcatProperties DEF PrintEscaped, Say, TypeOK
    <2> QED BY <1>4, <2>1, <2>3 DEF PrintEscaped, TypeOK
  <1>5. CASE EndReport
    BY <1>5 DEF EndReport, TypeOK, Phase
  <1>6. CASE FallIntoHeartbeat
    BY <1>6 DEF FallIntoHeartbeat, TypeOK, Phase
  <1>7. CASE StartDrain
    BY <1>7 DEF StartDrain, TypeOK, Phase
  <1>8. CASE Drained
    BY <1>8 DEF Drained, TypeOK, Phase
  <1>9. CASE Arm
    BY <1>9 DEF Arm, TypeOK, Phase
  <1>10. CASE Jump
    BY <1>10 DEF Jump, TypeOK, Phase
  <1>11. CASE Panic
    <2>1. lastWords' \in Seq(Byte)
      BY <1>11, EmittedType DEF Panic, Emitted
    <2>2. dump' \in Seq(Byte) /\ Len(dump') <= RingLen
      BY <1>11 DEF Panic, TypeOK
    <2> QED BY <1>11, <2>1, <2>2 DEF Panic, TypeOK, Phase
  <1>12. CASE Load
    <2>1. /\ Head(fifo) \in Byte /\ Tail(fifo) \in Seq(Byte)
          /\ Len(Tail(fifo)) = Len(fifo) - 1
      BY <1>12, HeadTailProperties DEF Load, TypeOK
    <2>2. /\ fifo' \in Seq(Byte) /\ Len(fifo') <= Capacity
          /\ shift' \in Seq(Byte) /\ Len(shift') <= 1
      BY <1>12, <2>1, Parameters, LenProperties DEF Load, TypeOK
    <2> QED BY <1>12, <2>2 DEF Load, TypeOK
  <1>13. CASE Send
    <2>1. wire' \in Seq(Byte) /\ shift' \in Seq(Byte) /\ Len(shift') <= 1
      BY <1>13, ConcatProperties DEF Send, TypeOK
    <2> QED BY <1>13, <2>1 DEF Send, TypeOK
  <1>14. CASE LoseClock
    <2>1. stuck' \in BOOLEAN
      BY <1>14, Zenon DEF LoseClock
    <2> QED BY <1>14, <2>1 DEF LoseClock, TypeOK
  <1>15. CASE Reset
    <2>1. half' \in BOOLEAN /\ stuck' \in BOOLEAN
      BY <1>15, Zenon DEF Reset
    <2>2. lines' \in 0..MaxLines /\ boots' \in 0..MaxBoots
      BY <1>15, UartAssumption, SMT DEF Reset, TypeOK
    <2>3. /\ todo' = <<>> /\ left' = <<>> /\ fifo' = <<>> /\ shift' = <<>> /\ wire' = <<>>
          /\ ring' = <<>> /\ log' = <<>> /\ phase' \in Phase /\ UNCHANGED <<dump, lastWords>>
      BY <1>15 DEF Reset, Phase
    <2>4. /\ todo' \in Seq(Byte) /\ left' \in Seq(Byte) /\ fifo' \in Seq(Byte)
          /\ shift' \in Seq(Byte) /\ wire' \in Seq(Byte) /\ ring' \in Seq(Byte)
          /\ log' \in Seq(Byte)
          /\ Len(fifo') <= Capacity /\ Len(shift') <= 1 /\ Len(ring') <= RingLen
      BY <2>3, Parameters
    <2> QED BY <2>1, <2>2, <2>3, <2>4 DEF TypeOK
  <1>16. CASE AppErasesDump
    <2>1. /\ dump' \in Seq(Byte) /\ Len(dump') <= RingLen /\ lastWords' \in Seq(Byte)
      BY <1>16, Parameters DEF AppErasesDump
    <2> QED BY <1>16, <2>1 DEF AppErasesDump, TypeOK
  <1>17. CASE UNCHANGED vars
    BY <1>17 DEF vars, TypeOK
  <1> QED BY <1>1, <1>2, <1>3, <1>4, <1>5, <1>6, <1>7, <1>8, <1>9, <1>10, <1>11, <1>12, <1>13,
             <1>14, <1>15, <1>16, <1>17 DEF Next, Main, Transmitter, Idle

\* Type correctness (TypeOK): neither the FIFO nor the ring holds more than
\* it has room for.
THEOREM TypeCorrect == Spec => []TypeOK
  BY TypeInit, TypeStep, PTL DEF Spec

-----------------------------------------------------------------------------
\* Writing a byte, or the "\r" due before it, loses nothing: the byte lands
\* where the text says.
LEMMA WriteKeepsAll == IInv /\ WriteByte => NothingLost'
  <1> SUFFICES ASSUME IInv, WriteByte PROVE NothingLost'
    OBVIOUS
  <1> DEFINE e == Emitted
             b == DueByte
             w == Written
  <1>1. /\ todo # <<>> /\ todo \in Seq(Byte) /\ log \in Seq(Byte)
        /\ half \in BOOLEAN
        /\ e \in Seq(Byte)
    BY EmittedType DEF IInv, TypeOK, WriteByte
  <1>2. /\ Head(todo) = todo[1] /\ Head(todo) \in Byte /\ Tail(todo) \in Seq(Byte)
        /\ Len(Tail(todo)) = Len(todo) - 1
        /\ \A k \in 1..Len(Tail(todo)) : Tail(todo)[k] = todo[k + 1]
    BY <1>1, HeadTailProperties
  <1>3. Len(todo) \in Nat \ {0} /\ Len(log) \in Nat /\ Len(e) \in Nat
    BY <1>1, LenProperties, EmptySeq
  <1>4. b \in Byte /\ Put(b) /\ log' = log /\ UNCHANGED <<wire, shift>>
    BY <1>2 DEF WriteByte, DueByte, Byte
  <1>5. e' = Append(e, b)
    BY <1>4, PutEmits DEF IInv
  <1>6. /\ Len(e') = Len(e) + 1 /\ e'[Len(e) + 1] = b
        /\ \A i \in 1..Len(e) : e'[i] = e[i]
    BY <1>1, <1>4, <1>5, AppendProperties
  <1>7. /\ Len(todo) <= Len(log)
        /\ \A k \in 1..Len(todo) : todo[k] = log[w + k]
        /\ Shown(e, log, w)
        /\ Len(e) = LinePos(log, w) + (IF half THEN 1 ELSE 0)
        /\ w = Len(log) - Len(todo)
    BY DEF IInv, NothingLost, Written
  <1>8. w \in Nat /\ LinePos(log, w) \in Nat
    <2>1. w \in Nat
      BY <1>3, <1>7
    <2> QED BY <2>1, LinePosNext
  <1>9. Shown(e', log, w)
    BY <1>1, <1>4, <1>5, <1>7, <1>8, ShownAppend
  <1>10. CASE Head(todo) = "\n" /\ ~half
    <2>1. half' = TRUE /\ todo' = todo
      BY <1>10, <1>2 DEF WriteByte
    <2>2. Written' = w
      BY <1>4, <2>1 DEF Written
    <2>3. Len(e') = LinePos(log, w) + 1
      BY <1>6, <1>7, <1>8, <1>10
    <2> HIDE DEF e, w
    <2> QED BY <1>4, <1>7, <1>9, <2>1, <2>2, <2>3 DEF NothingLost, e, w
  <1>11. CASE ~(Head(todo) = "\n" /\ ~half)
    <2>1. b = Head(todo) /\ half' = FALSE /\ todo' = Tail(todo)
      BY <1>11, <1>2 DEF WriteByte, DueByte
    <2>2. Written' = w + 1
      BY <1>2, <1>3, <1>4, <1>7, <2>1 DEF Written
    <2>3. b = log[w + 1]
      BY <1>2, <1>3, <1>7, <2>1
    <2>4. half <=> b = "\n"
      BY <1>11, <2>1 DEF IInv, ByteInv
    <2>5. LinePos(log, w + 1) = LinePos(log, w) + (IF b = "\n" THEN 2 ELSE 1)
      BY <1>8, <2>3, LinePosNext
    <2>6. Len(e') = LinePos(log, w + 1) /\ LinePos(log, w + 1) = Len(e) + 1
      BY <1>3, <1>6, <1>7, <1>8, <2>4, <2>5
    <2>7. b = "\n" => e'[Len(e)] = "\r"
      <3>1. half => Len(e) > 0 /\ e[Len(e)] = "\r"
        BY DEF IInv, ByteInv
      <3>2. Len(e) > 0 => e'[Len(e)] = e[Len(e)]
        BY <1>3, <1>6
      <3> QED BY <2>4, <3>1, <3>2
    <2>8. LinePos(log, w + 1) - 1 = Len(e)
      BY <1>3, <2>6
    <2>9. Shown(e', log, w + 1)
      <3>1. /\ LinePos(log, w + 1) <= Len(e')
            /\ e'[LinePos(log, w + 1)] = log[w + 1]
            /\ log[w + 1] = "\n" => e'[LinePos(log, w + 1) - 1] = "\r"
        BY <1>3, <1>6, <2>3, <2>6, <2>7, <2>8
      <3> HIDE DEF e, w
      <3> QED BY <1>8, <1>9, <3>1, ShownNext
    <2>10. Len(todo') <= Len(log) /\ \A k \in 1..Len(todo') : todo'[k] = log[(w + 1) + k]
      <3>1. Len(todo') = Len(todo) - 1
        BY <1>2, <2>1
      <3>2. ASSUME NEW k \in 1..Len(todo') PROVE todo'[k] = log[(w + 1) + k]
        <4>1. k + 1 \in 1..Len(todo) /\ todo'[k] = todo[k + 1]
          BY <1>2, <1>3, <2>1, <3>1
        <4>2. todo[k + 1] = log[w + (k + 1)] /\ w + (k + 1) = (w + 1) + k
          BY <1>7, <1>8, <4>1
        <4> QED BY <4>1, <4>2
      <3> QED BY <1>3, <1>7, <3>1, <3>2
    <2> HIDE DEF e, w
    <2> QED BY <1>4, <2>1, <2>2, <2>6, <2>9, <2>10 DEF NothingLost, e
  <1> QED BY <1>10, <1>11

LEMMA ByteStep == IInv /\ WriteByte => IInv'
  <1> SUFFICES ASSUME IInv, WriteByte PROVE IInv'
    OBVIOUS
  <1> DEFINE e == Emitted
             b == DueByte
  <1>1. TypeOK'
    BY TypeStep DEF IInv, Next, Main
  <1>2. /\ todo # <<>> /\ todo \in Seq(Byte \ {"\r"})
        /\ Head(todo) \in Byte \ {"\r"} /\ Tail(todo) \in Seq(Byte \ {"\r"})
    BY HeadTailProperties DEF IInv, ByteInv, WriteByte
  <1>3. b \in Byte /\ Put(b) /\ UNCHANGED <<wire, shift, dump, lastWords>>
    BY <1>2 DEF WriteByte, DueByte, Byte, tail
  <1>4. e' = Append(e, b) /\ ring' = Appended(ring, b, RingLen)
    BY <1>3, PutEmits DEF IInv
  <1>5. e \in Seq(Byte) /\ Len(e) \in Nat
    BY EmittedType, LenProperties DEF IInv
  <1>6. /\ Len(e') = Len(e) + 1 /\ e'[Len(e) + 1] = b
        /\ \A i \in 1..Len(e) : e'[i] = e[i]
    BY <1>3, <1>4, <1>5, AppendProperties
  <1>7. ring' = LastOf(Emitted', RingLen)
    BY <1>3, <1>4, <1>5, Parameters, AppendToTail DEF IInv, ByteInv
  <1>8. DumpIsLastWords'
    BY <1>3 DEF IInv, DumpIsLastWords
  <1>d. DrainInv' /\ NothingLost'
    BY WriteKeepsAll DEF IInv, DrainInv, WriteByte
  <1>9. CASE Head(todo) = "\n" /\ ~half
    <2>1. b = "\r" /\ half' = TRUE /\ todo' = todo
      BY <1>9, <1>2 DEF WriteByte, DueByte
    <2>2. LineEnds'
      <3>1. ASSUME NEW i \in 1..Len(e')
            PROVE  /\ e'[i] = "\n" => i > 1 /\ e'[i - 1] = "\r"
                   /\ e'[i] = "\r" => IF i = Len(e') THEN half' ELSE e'[i + 1] = "\n"
        <4>1. CASE i = Len(e')
          BY <4>1, <1>6, <2>1
        <4>2. CASE i # Len(e')
          <5>1. i \in 1..Len(e) /\ e'[i] = e[i]
            BY <4>2, <1>5, <1>6
          <5>2. e[i] = "\n" => i > 1 /\ e[i - 1] = "\r"
            BY <5>1 DEF IInv, LineEnds
          <5>3. i > 1 => e'[i - 1] = e[i - 1]
            BY <5>1, <1>5, <1>6
          <5>4. e[i] = "\r" => i # Len(e) /\ e[i + 1] = "\n"
            BY <5>1, <1>9 DEF IInv, LineEnds
          <5>5. i # Len(e) => e'[i + 1] = e[i + 1]
            BY <5>1, <1>5, <1>6
          <5> QED BY <4>2, <5>1, <5>2, <5>3, <5>4, <5>5
        <4> QED BY <4>1, <4>2
      <3> QED BY <3>1 DEF LineEnds
    <2>3. Len(e') > 0 /\ e'[Len(e')] = "\r"
      BY <1>5, <1>6, <2>1
    <2>4. ByteInv'
      BY <1>2, <1>7, <1>9, <2>1, <2>3 DEF ByteInv
    <2> QED BY <1>1, <1>8, <1>d, <2>2, <2>4 DEF IInv
  <1>10. CASE ~(Head(todo) = "\n" /\ ~half)
    <2>1. b = Head(todo) /\ half' = FALSE /\ todo' = Tail(todo)
      BY <1>10, <1>2 DEF WriteByte, DueByte
    <2>2. LineEnds'
      <3>1. ASSUME NEW i \in 1..Len(e')
            PROVE  /\ e'[i] = "\n" => i > 1 /\ e'[i - 1] = "\r"
                   /\ e'[i] = "\r" => IF i = Len(e') THEN half' ELSE e'[i + 1] = "\n"
        <4>1. CASE i = Len(e')
          <5>1. e'[i] = b /\ b # "\r"
            BY <4>1, <1>2, <1>6, <2>1
          <5>2. b = "\n" => half
            BY <1>10, <2>1
          <5>3. half => Len(e) > 0 /\ e[Len(e)] = "\r"
            BY DEF IInv, ByteInv
          <5>4. Len(e) > 0 => i > 1 /\ e'[i - 1] = e[Len(e)]
            BY <4>1, <1>5, <1>6
          <5> QED BY <5>1, <5>2, <5>3, <5>4
        <4>2. CASE i # Len(e')
          <5>1. i \in 1..Len(e) /\ e'[i] = e[i]
            BY <4>2, <1>5, <1>6
          <5>2. e[i] = "\n" => i > 1 /\ e[i - 1] = "\r"
            BY <5>1 DEF IInv, LineEnds
          <5>3. i > 1 => e'[i - 1] = e[i - 1]
            BY <5>1, <1>5, <1>6
          <5>4. e[i] = "\r" => IF i = Len(e) THEN half ELSE e[i + 1] = "\n"
            BY <5>1 DEF IInv, LineEnds
          <5>5. i # Len(e) => e'[i + 1] = e[i + 1]
            BY <5>1, <1>5, <1>6
          <5>6. half => b = "\n"
            BY <2>1 DEF IInv, ByteInv
          <5>7. i = Len(e) => e'[i + 1] = b
            BY <1>6
          <5> QED BY <4>2, <5>1, <5>2, <5>3, <5>4, <5>5, <5>6, <5>7
        <4> QED BY <4>1, <4>2
      <3> QED BY <3>1 DEF LineEnds
    <2>3. ~half' /\ todo' \in Seq(Byte \ {"\r"})
      BY <1>2, <2>1
    <2>4. ByteInv'
      BY <1>7, <2>3 DEF ByteInv
    <2> QED BY <1>1, <1>8, <1>d, <2>2, <2>4 DEF IInv
  <1> QED BY <1>9, <1>10

\* A step that emits nothing keeps what has been emitted, the ring and half,
\* also when it gives write_str a string.
LEMMA QuietStep ==
  ASSUME IInv, TypeOK', Emitted' = Emitted, UNCHANGED <<half, ring>>,
         \/ UNCHANGED <<todo, log>>
         \/ todo = <<>> /\ todo' \in Seq(Byte \ {"\r"}) /\ log' = log \o todo',
         DrainInv',
         DumpIsLastWords'
  PROVE  IInv'
  <1>1. todo = <<>> => ~half
    BY DEF IInv, ByteInv
  <1>2. todo' \in Seq(Byte \ {"\r"})
    BY DEF IInv, ByteInv
  <1>3. half' => todo' # <<>> /\ Head(todo') = "\n"
    BY <1>1 DEF IInv, ByteInv
  <1>4. half' => Len(Emitted') > 0 /\ Emitted'[Len(Emitted')] = "\r"
    BY DEF IInv, ByteInv
  <1>5. LineEnds'
    BY DEF IInv, LineEnds
  <1>6. ring' = LastOf(Emitted', RingLen)
    BY DEF IInv, ByteInv
  <1>7. ByteInv'
    BY <1>2, <1>3, <1>4, <1>6 DEF ByteInv
  <1>8. NothingLost'
    <2>1. CASE UNCHANGED <<todo, log>>
      <3>1. Written' = Written
        BY <2>1 DEF Written
      <3> QED BY <2>1, <3>1 DEF IInv, NothingLost
    <2>2. CASE todo = <<>> /\ todo' \in Seq(Byte \ {"\r"}) /\ log' = log \o todo'
      <3>1. log \in Seq(Byte) /\ todo' \in Seq(Byte) /\ Len(log) \in Nat /\ Len(todo') \in Nat
        BY LenProperties DEF IInv, TypeOK
      <3>2. /\ Len(log') = Len(log) + Len(todo')
            /\ \A k \in 1..Len(log) : log'[k] = log[k]
            /\ \A k \in 1..Len(todo') : log'[Len(log) + k] = todo'[k]
        BY <2>2, <3>1, ConcatProperties
      <3>3. Written = Len(log) /\ Written' = Len(log)
        BY <2>2, <3>1, <3>2 DEF Written
      <3>4. /\ Shown(Emitted, log, Len(log))
            /\ Len(Emitted) = LinePos(log, Len(log)) + (IF half THEN 1 ELSE 0)
        BY <3>3 DEF IInv, NothingLost
      <3>5. Shown(Emitted, log', Len(log)) /\ LinePos(log', Len(log)) = LinePos(log, Len(log))
        BY <3>1, <3>2, <3>4, ShownOfPrefix, LinePosOfPrefix
      <3>6. Len(todo') <= Len(log')
        BY <3>1, <3>2
      <3> QED BY <3>2, <3>3, <3>4, <3>5, <3>6 DEF NothingLost
    <2> QED BY <2>1, <2>2
  <1> QED BY <1>5, <1>7, <1>8 DEF IInv

LEMMA InvStep == IInv /\ [Next]_vars => IInv'
  <1> SUFFICES ASSUME IInv, [Next]_vars PROVE IInv'
    OBVIOUS
  <1>t. TypeOK'
    BY TypeStep DEF IInv
  <1>1. CASE WriteByte
    BY <1>1, ByteStep
  <1>2. ASSUME NEW s \in Lines, WriteStr(s) PROVE IInv'
    <2>1. todo = <<>> /\ todo' \in Seq(Byte \ {"\r"}) /\ log' = log \o todo'
      BY <1>2, UartAssumption DEF WriteStr, Say
    <2>2. Emitted' = Emitted /\ UNCHANGED <<half, ring, dump, lastWords>>
      BY <1>2 DEF WriteStr, Emitted, line, tail
    <2>3. DrainInv'
      BY <1>2 DEF WriteStr, DrainInv
    <2> QED BY <1>t, <2>1, <2>2, <2>3, QuietStep DEF IInv, DumpIsLastWords
  <1>3. CASE PrintEscaped
    <2>1. Head(left) \in Byte
      BY <1>3, HeadTailProperties DEF PrintEscaped, IInv, TypeOK
    <2>2. Escaped(Head(left)) \in Seq(Byte \ {"\r"})
      BY <2>1, EscapedType
    <2>3. todo = <<>> /\ todo' \in Seq(Byte \ {"\r"}) /\ log' = log \o todo'
      BY <1>3, <2>2 DEF PrintEscaped, Say
    <2>4. Emitted' = Emitted /\ UNCHANGED <<half, ring, dump, lastWords>>
      BY <1>3 DEF PrintEscaped, Emitted, line, tail
    <2>5. DrainInv'
      BY <1>3 DEF PrintEscaped, DrainInv
    <2> QED BY <1>t, <2>3, <2>4, <2>5, QuietStep DEF IInv, DumpIsLastWords
  <1>4. CASE BeginReport \/ EndReport \/ FallIntoHeartbeat \/ StartDrain \/ Drained \/ Arm \/ Jump
    <2>1. Emitted' = Emitted /\ UNCHANGED <<todo, log, half, ring, dump, lastWords>>
      BY <1>4 DEF BeginReport, EndReport, FallIntoHeartbeat, StartDrain, Drained, Arm, Jump,
                  Emitted, line, tail
    <2>2. CASE BeginReport \/ EndReport \/ FallIntoHeartbeat \/ StartDrain \/ Arm \/ Jump
      <3>1. DrainInv'
        BY <2>2 DEF BeginReport, EndReport, FallIntoHeartbeat, StartDrain, Arm, Jump, IInv,
                    DrainInv, line
      <3> QED BY <1>t, <2>1, <3>1, QuietStep DEF IInv, DumpIsLastWords
    <2>3. CASE Drained
      <3>1. fifo \in Seq(Byte) /\ Len(fifo) = 0
        BY <2>3 DEF Drained, IInv, TypeOK
      <3>2. fifo = <<>>
        BY <3>1, EmptySeq
      <3>3. DrainInv'
        BY <2>3, <3>2 DEF Drained, IInv, DrainInv, line
      <3> QED BY <1>t, <2>1, <3>3, QuietStep DEF IInv, DumpIsLastWords
    <2> QED BY <1>4, <2>2, <2>3
  <1>5. CASE Panic
    <2>1. Emitted' = Emitted /\ UNCHANGED <<todo, log, half, ring>>
      BY <1>5 DEF Panic, Emitted, line
    <2>2. dump' = ring /\ lastWords' = Emitted
      BY <1>5 DEF Panic, Emitted
    <2>3. DumpIsLastWords'
      BY <2>2 DEF IInv, ByteInv, DumpIsLastWords
    <2>4. DrainInv'
      BY <1>5 DEF Panic, DrainInv
    <2> QED BY <1>t, <2>1, <2>3, <2>4, QuietStep
  <1>6. CASE Transmitter
    <2>1. Emitted' = Emitted
      BY <1>6, TransmitterKeeps DEF IInv
    <2>2. UNCHANGED <<phase, todo, log, half, ring, dump, lastWords>>
      BY <1>6 DEF Transmitter, Load, Send, hart, tail
    <2>3. fifo = <<>> => UNCHANGED fifo
      BY <1>6 DEF Transmitter, Load, Send
    <2>4. DrainInv'
      BY <2>2, <2>3 DEF IInv, DrainInv
    <2> QED BY <1>t, <2>1, <2>2, <2>4, QuietStep DEF IInv, DumpIsLastWords
  <1>7. CASE LoseClock
    <2>1. Emitted' = Emitted /\ UNCHANGED <<phase, fifo, todo, log, half, ring, dump, lastWords>>
      BY <1>7 DEF LoseClock, Emitted, hart, line, tail
    <2>2. DrainInv'
      BY <2>1 DEF IInv, DrainInv
    <2> QED BY <1>t, <2>1, <2>2, QuietStep DEF IInv, DumpIsLastWords
  <1>8. CASE Reset
    <2>1. /\ todo' = <<>> /\ log' = <<>> /\ ring' = <<>> /\ Emitted' = <<>> /\ ~half'
          /\ fifo' = <<>> /\ UNCHANGED <<dump, lastWords>>
      BY <1>8 DEF Reset, Emitted, tail
    <2>2. LastOf(<<>>, RingLen) = <<>>
      BY Parameters DEF LastOf
    <2>3. LineEnds'
      BY <2>1 DEF LineEnds
    <2>4. DumpIsLastWords'
      BY <2>1 DEF IInv, DumpIsLastWords
    <2>5. ByteInv' /\ DrainInv'
      BY <2>1, <2>2 DEF ByteInv, DrainInv
    <2>6. NothingLost'
      <3>1. Written' = 0 /\ Len(Emitted') = 0
        BY <2>1 DEF Written
      <3>2. LinePos(log', 0) = 0 /\ Shown(Emitted', log', 0)
        BY LinePosNext DEF Shown
      <3> QED BY <2>1, <3>1, <3>2 DEF NothingLost
    <2> QED BY <1>t, <2>3, <2>4, <2>5, <2>6 DEF IInv
  <1>9. CASE AppErasesDump
    <2>1. Emitted' = Emitted /\ UNCHANGED <<phase, fifo, todo, log, half, ring>>
      BY <1>9 DEF AppErasesDump, Emitted, hart, line
    <2>2. dump' = <<>> /\ lastWords' = <<>> /\ LastOf(<<>>, RingLen) = <<>>
      BY <1>9, Parameters DEF AppErasesDump, LastOf
    <2>3. DumpIsLastWords'
      BY <2>2 DEF DumpIsLastWords
    <2>4. DrainInv'
      BY <2>1 DEF IInv, DrainInv
    <2> QED BY <1>t, <2>1, <2>3, <2>4, QuietStep
  <1>10. CASE UNCHANGED vars
    <2>1. Emitted' = Emitted /\ UNCHANGED <<phase, fifo, todo, log, half, ring, dump, lastWords>>
      BY <1>10 DEF vars, Emitted
    <2>2. DrainInv'
      BY <2>1 DEF IInv, DrainInv
    <2> QED BY <1>t, <2>1, <2>2, QuietStep DEF IInv, DumpIsLastWords
  <1> QED BY <1>1, <1>2, <1>3, <1>4, <1>5, <1>6, <1>7, <1>8, <1>9, <1>10
          DEF Next, Main, Idle

\* The invariant holds in every reachable state.
LEMMA Invariance == Spec => []IInv
  BY InitInv, InvStep, PTL DEF Spec

\* "\r" and "\n" come in pairs on the line, also in a tail that is printed
\* again (LineEnds).
THEOREM LinesEnd == Spec => []LineEnds
  <1>1. IInv => LineEnds
    BY DEF IInv
  <1> QED BY Invariance, <1>1, PTL

\* The tail in a crash dump is what the panicking boot printed last
\* (DumpIsLastWords).
THEOREM DumpCorrect == Spec => []DumpIsLastWords
  <1>1. IInv => DumpIsLastWords
    BY DEF IInv
  <1> QED BY Invariance, <1>1, PTL

\* Nothing main prints is lost, doubled or reordered on its way to the line,
\* whatever the FIFO holds when it is printed (NothingLost).
THEOREM LogReachesLine == Spec => []NothingLost
  <1>1. IInv => NothingLost
    BY DEF IInv
  <1> QED BY Invariance, <1>1, PTL

\* When the watchdog is armed the FIFO is empty and all of the log but the
\* byte being sent is on the line (FlushedWhenArmed).
THEOREM FlushedAtArm == Spec => []FlushedWhenArmed
  <1>1. IInv => FlushedWhenArmed
    <2> SUFFICES ASSUME IInv, phase \in {"jump", "app"}
                 PROVE  fifo = <<>> /\ LinePos(log, Len(log)) <= Len(wire) + 1
      BY DEF FlushedWhenArmed
    <2>1. fifo = <<>> /\ todo = <<>>
      BY DEF IInv, DrainInv
    <2>2. /\ wire \in Seq(Byte) /\ shift \in Seq(Byte) /\ Len(shift) <= 1
          /\ Len(wire) \in Nat /\ Len(shift) \in Nat /\ Len(log) \in Nat
      BY LenProperties DEF IInv, TypeOK
    <2>3. Len(Emitted) = Len(wire) + Len(shift)
      BY <2>1, <2>2, ConcatProperties, ConcatEmptySeq DEF Emitted
    <2>4. Written = Len(log) /\ ~half
      BY <2>1, <2>2 DEF IInv, ByteInv, Written
    <2>5. Len(Emitted) = LinePos(log, Len(log))
      <3>1. Len(Emitted) = LinePos(log, Len(log)) + 0
        BY <2>4 DEF IInv, NothingLost
      <3>2. LinePos(log, Len(log)) \in Nat
        BY <2>2, LinePosNext
      <3> QED BY <3>1, <3>2
    <2> QED BY <2>1, <2>2, <2>3, <2>5
  <1> QED BY Invariance, <1>1, PTL
=============================================================================
