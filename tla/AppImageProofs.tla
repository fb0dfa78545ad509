--------------------------- MODULE AppImageProofs ---------------------------
(***************************************************************************)
(* Verification covers what is loaded, for images of every size that fits  *)
(* the code's own limits, every chunk length and every flash content.      *)
(***************************************************************************)
EXTENDS AppImage, TLAPS

\* The parameters without the product in the assumption on Width.
LEMMA Parameters ==
    /\ Base \in Nat /\ MaxLen \in Nat /\ MaxSegments \in Nat /\ Width \in Nat
    /\ CHUNK_LEN \in Nat \ {0} /\ CHUNK_LEN % 4 = 0
    /\ SegmentHeader \subseteq [load_addr : 0..(Width - 1), data_len : 0..(Width - 1)]
  BY AppImageAssumption

-----------------------------------------------------------------------------
(* Arithmetic of the size computation.                                     *)

\* A u32 sum that stays below 2^32 is the sum.
LEMMA AddExact ==
    ASSUME NEW a \in Nat, NEW b \in Nat, a + b < Width
    PROVE  add(a, b) = a + b
  BY AppImageAssumption DEF add

\* Rounding up to a multiple of 16 adds less than 16.
LEMMA RoundUp16Bounds ==
    ASSUME NEW n \in Nat
    PROVE  /\ RoundUp16(n) \in Nat
           /\ RoundUp16(n) % 16 = 0
           /\ n <= RoundUp16(n)
           /\ RoundUp16(n) <= n + 15
  BY DEF RoundUp16

\* The segments accepted so far, and one more, fit into the u32 with room for
\* checksum, padding and digest.
LEMMA SegmentsFit ==
    ASSUME NEW n \in 0..MaxSegments
    PROVE  /\ Room(n) \in Nat
           /\ Base + 24 + Room(n) + 64 < Width
           /\ Room(n + 1) = Room(n) + 8 + MaxLen
  <1> DEFINE S == 8 + MaxLen
  <1>1. S \in Nat
    BY AppImageAssumption
  <1>2. /\ n * S \in Nat
        /\ n * S <= MaxSegments * S
        /\ (n + 1) * S = n * S + S
    BY <1>1, AppImageAssumption
  <1>3. Base + 24 + MaxSegments * S + 64 < Width
    BY AppImageAssumption DEF IMAGE_HEADER_SIZE, SEGMENT_HEADER_SIZE
  <1>4. QED
    BY <1>1, <1>2, <1>3, Parameters DEF Room, SEGMENT_HEADER_SIZE

-----------------------------------------------------------------------------
(* The invariant is inductive.                                             *)

\* A read of a header adds that header to what is known of flash and keeps
\* every header read before, so the chain of measured headers stands.
LEMMA ReadKeepsChain ==
    ASSUME TypeOK, NEW h \in SegmentHeader, ReadSegmentHeader(h)
    PROVE  /\ DOMAIN flash' = DOMAIN flash \cup {pos}
           /\ flash'[pos] = h
           /\ \A a \in DOMAIN flash : flash'[a] = flash[a]
           /\ DOMAIN flash' \subseteq 0..(Width - 1)
           /\ \A a \in DOMAIN flash' : flash'[a] \in SegmentHeader
  BY DEF TypeOK, ReadSegmentHeader

\* An image that has not been looked at satisfies the invariant.
LEMMA InitIInv == Init => IInv
  <1> SUFFICES ASSUME Init PROVE IInv
    OBVIOUS
  <1>1. 24 < Width /\ Base + 24 < Width
    BY Parameters, SegmentsFit
  <1>2. TypeOK
    BY <1>1, Parameters DEF Init, TypeOK, ImageHeader, Error, IMAGE_HEADER_SIZE
  <1>3. QED
    BY <1>2 DEF Init, IInv, SizeInv, MeasuredInv, Measured, LoadInv, CopyInv, LoadedIsHashed,
       VerifyNeverUnaligned, LoadMeetsVerifiedHeaders

\* The parts of the invariant that speak of copies and errors.
SafetyInv == LoadedIsHashed /\ VerifyNeverUnaligned /\ LoadMeetsVerifiedHeaders

\* One iteration of the measuring loop: no sum wraps and the chain grows.
LEMMA SizeSegmentStep == IInv /\ SizeSegment => IInv'
  <1> SUFFICES ASSUME IInv, SizeSegment PROVE IInv'
    OBVIOUS
  <1> USE Parameters DEF IInv
  <1>1. PICK h \in SegmentHeader :
          /\ ReadSegmentHeader(h)
          /\ h.data_len <= MaxLen
          /\ total' = add(total, SEGMENT_HEADER_SIZE + h.data_len)
          /\ pos' = add(pos, SEGMENT_HEADER_SIZE + h.data_len)
          /\ starts' = [j \in 0..(i + 1) |-> IF j <= i THEN starts[j] ELSE pos']
    BY DEF SizeSegment
  <1>2. /\ pc = "size" /\ pc' = "size" /\ i' = i + 1 /\ i < header.segment_count
        /\ header' = header /\ digest_ok' = digest_ok /\ read' = read
        /\ err' = err /\ copied' = copied
    BY DEF SizeSegment
  <1>3. /\ i \in 0..MaxSegments /\ i + 1 \in 0..MaxSegments
        /\ header.segment_count \in 0..MaxSegments
        /\ h.data_len \in Nat
    BY <1>2 DEF TypeOK, ImageHeader
  <1>4. /\ total' = total + 8 + h.data_len
        /\ pos' = pos + 8 + h.data_len
        /\ total' <= 24 + Room(i + 1)
        /\ pos' = Base + total' /\ pos' < Width
        /\ total \in Nat /\ pos \in Nat /\ total' \in Nat /\ pos' \in Nat
    <2>1. /\ total \in Nat /\ pos = Base + total
          /\ total <= 24 + Room(i)
      BY <1>2 DEF SizeInv, TypeOK, IMAGE_HEADER_SIZE
    <2>2. /\ Room(i) \in Nat /\ Room(i + 1) = Room(i) + 8 + MaxLen
          /\ Base + 24 + Room(i + 1) + 64 < Width
      BY <1>3, SegmentsFit
    <2>3. 8 + h.data_len \in Nat /\ h.data_len <= MaxLen
      BY <1>1, <1>3
    <2>4. pos + (8 + h.data_len) < Width /\ total + (8 + h.data_len) < Width
      BY <2>1, <2>2, <2>3
    <2>5. add(total, 8 + h.data_len) = total + (8 + h.data_len)
      BY <2>1, <2>3, <2>4, AddExact
    <2>6. add(pos, 8 + h.data_len) = pos + (8 + h.data_len)
      BY <2>1, <2>3, <2>4, AddExact
    <2>7. total' = total + (8 + h.data_len) /\ pos' = pos + (8 + h.data_len)
      BY <1>1, <2>5, <2>6 DEF SEGMENT_HEADER_SIZE
    <2>8. QED
      BY <1>3, <2>1, <2>2, <2>3, <2>4, <2>7
  <1>5. TypeOK'
    <2>1. i' \in 0..header'.segment_count
      BY <1>2, <1>3 DEF TypeOK
    <2>2. pos' \in 0..(Width - 1) /\ total' \in 0..(Width - 1)
      BY <1>4
    <2>3. QED
      BY <1>1, <1>2, <2>1, <2>2, ReadKeepsChain DEF TypeOK
  <1>6. Chain(i)' /\ starts'[i'] = pos'
    <2>1. Chain(i) /\ starts[i] = pos
      BY <1>2 DEF SizeInv
    <2>2. starts' \in [0..(i + 1) -> Nat]
      <3>1. \A j \in 0..(i + 1) : j <= i => starts[j] \in Nat
        BY <1>3, <2>1 DEF Chain
      <3>2. \A j \in 0..(i + 1) : (IF j <= i THEN starts[j] ELSE pos') \in Nat
        BY <1>4, <3>1
      <3>3. QED
        BY <1>1, <3>2
    <2>3. starts'[i + 1] = pos' /\ \A j \in 0..i : starts'[j] = starts[j]
      BY <1>1, <1>3
    <2>4. ASSUME NEW j \in 0..i
          PROVE  /\ starts'[j] \in DOMAIN flash'
                 /\ flash'[starts'[j]].data_len <= MaxLen
                 /\ starts'[j + 1] = starts'[j] + 8 + flash'[starts'[j]].data_len
      <3> HIDE DEF IInv
      <3>0. /\ pos \in DOMAIN flash' /\ flash'[pos] = h
            /\ \A a \in DOMAIN flash : a \in DOMAIN flash' /\ flash'[a] = flash[a]
        BY <1>1, ReadKeepsChain DEF IInv
      <3>1. CASE j = i
        <4>1. starts'[j] = pos /\ starts'[j + 1] = pos + 8 + h.data_len
          BY <1>3, <1>4, <2>1, <2>3, <3>1
        <4>2. QED
          BY <1>1, <3>0, <4>1
      <3>2. CASE j # i
        <4>1. j \in 0..(i - 1) /\ j + 1 \in 0..i
          BY <1>3, <3>2
        <4>2. /\ starts[j] \in DOMAIN flash
              /\ flash[starts[j]].data_len <= MaxLen
              /\ starts[j + 1] = starts[j] + 8 + flash[starts[j]].data_len
          BY <2>1, <4>1 DEF Chain, SEGMENT_HEADER_SIZE
        <4>3. starts'[j] = starts[j] /\ starts'[j + 1] = starts[j + 1]
          BY <2>3, <4>1
        <4>4. QED
          BY <3>0, <4>2, <4>3
      <3>3. QED
        BY <3>1, <3>2
    <2>5. QED
      <3>1. starts'[0] = Base + IMAGE_HEADER_SIZE
        BY <1>3, <2>1, <2>3 DEF Chain
      <3>2. i' = i + 1 /\ i' - 1 = i
        BY <1>2, <1>3
      <3>3. ASSUME NEW j \in 0..(i + 1) PROVE starts'[j] >= Base
        <4>1. CASE j = i + 1
          BY <1>4, <2>3, <4>1
        <4>2. CASE j # i + 1
          <5>1. j \in 0..i
            BY <1>3, <4>2
          <5>2. QED
            BY <2>1, <2>3, <5>1 DEF Chain
        <4>3. QED
          BY <4>1, <4>2
      <3>4. QED
        BY <2>2, <2>3, <2>4, <3>1, <3>2, <3>3 DEF Chain, SEGMENT_HEADER_SIZE
  <1>7. SizeInv'
    <2>1. ASSUME NEW j \in 0..(i + 1) PROVE starts'[j] <= pos'
      <3>1. CASE j = i + 1
        BY <1>2, <1>4, <1>6, <3>1
      <3>2. CASE j # i + 1
        <4>1. j \in 0..i /\ starts'[j] = starts[j]
          BY <1>1, <1>3, <3>2
        <4>2. starts[j] <= pos /\ starts[j] \in Nat
          BY <1>2, <4>1 DEF SizeInv, Chain
        <4>3. QED
          BY <1>3, <1>4, <4>1, <4>2
      <3>3. QED
        BY <3>1, <3>2
    <2>2. total' >= 24
      BY <1>2, <1>3, <1>4 DEF SizeInv, IMAGE_HEADER_SIZE
    <2>3. QED
      BY <1>2, <1>4, <1>6, <2>1, <2>2 DEF SizeInv, IMAGE_HEADER_SIZE
  <1>8. MeasuredInv' /\ LoadInv' /\ CopyInv'
    BY <1>2 DEF MeasuredInv, Measured, LoadInv, CopyInv
  <1>9. SafetyInv'
    BY <1>2 DEF LoadInv, SafetyInv, LoadedIsHashed, VerifyNeverUnaligned,
       LoadMeetsVerifiedHeaders
  <1>10. QED
    BY <1>5, <1>7, <1>8, <1>9 DEF SafetyInv

\* The measuring loop ends: the hashed range will end between the last segment
\* and the digest.
LEMMA SizeDoneStep == IInv /\ SizeDone => IInv'
  <1> SUFFICES ASSUME IInv, SizeDone PROVE IInv'
    OBVIOUS
  <1> USE Parameters DEF IInv
  <1> DEFINE n == header.segment_count
  <1>1. /\ pc = "size" /\ pc' = "hash" /\ i = n
        /\ total' = add(RoundUp16(add(total, 1)), HASH_LEN)
        /\ flash' = flash /\ header' = header /\ digest_ok' = digest_ok /\ i' = i
        /\ pos' = pos /\ read' = read /\ err' = err /\ starts' = starts
        /\ copied' = copied
    BY DEF SizeDone
  <1>2. /\ total \in Nat /\ pos = Base + total /\ pos = starts[n] /\ Chain(n)
        /\ Base + total + 64 < Width
        /\ \A j \in 0..n : starts[j] <= starts[n]
    <2>1. n \in 0..MaxSegments
      BY DEF TypeOK, ImageHeader
    <2>2. Base + 24 + Room(n) + 64 < Width /\ Room(n) \in Nat
      BY <2>1, SegmentsFit
    <2>3. QED
      BY <1>1, <2>2 DEF SizeInv, TypeOK, IMAGE_HEADER_SIZE
  <1>3. total' = RoundUp16(total + 1) + 32
    <2>1. add(total, 1) = total + 1
      BY <1>2, AddExact
    <2>2. /\ RoundUp16(total + 1) \in Nat
          /\ RoundUp16(total + 1) + 32 < Width
      BY <1>2, RoundUp16Bounds
    <2>3. QED
      BY <1>1, <2>1, <2>2, AddExact DEF HASH_LEN
  <1>4. /\ total' \in Nat /\ Base + total' < Width
        /\ (total' - 32) % 16 = 0
        /\ total < total' - 32 /\ total' - 32 <= total + 16
    <2> DEFINE R == RoundUp16(total + 1)
    <2>1. R \in Nat /\ R % 16 = 0 /\ total + 1 <= R /\ R <= total + 16
      BY <1>2, RoundUp16Bounds
    <2> HIDE DEF R
    <2>2. total' = R + 32
      BY <1>3 DEF R
    <2>3. total' \in Nat /\ total' - 32 = R
      BY <2>1, <2>2
    <2>4. (total' - 32) % 16 = 0
      BY <2>1, <2>3
    <2>5. total \in Nat /\ Base + total + 64 < Width
      BY <1>2
    <2>6. QED
      BY <2>1, <2>2, <2>4, <2>5
  <1>5. TypeOK'
    BY <1>1, <1>4 DEF TypeOK
  <1>6. Chain(header.segment_count)'
    BY <1>1, <1>2 DEF Chain
  <1>7. MeasuredInv'
    <2>1. read = 0
      BY <1>1 DEF LoadInv
    <2>2. /\ payload_len' = total' - 32 /\ starts[n] - Base = total
          /\ read' <= payload_len' /\ read' % 4 = 0
      BY <1>1, <1>2, <1>4, <2>1 DEF payload_len, HASH_LEN
    <2>3. QED
      BY <1>1, <1>2, <1>4, <1>6, <2>2 DEF MeasuredInv, Measured, Chain
  <1>8. SizeInv' /\ LoadInv' /\ CopyInv'
    BY <1>1 DEF SizeInv, LoadInv, CopyInv
  <1>9. SafetyInv'
    BY <1>1 DEF LoadInv, SafetyInv, LoadedIsHashed, VerifyNeverUnaligned,
       LoadMeetsVerifiedHeaders
  <1>10. QED
    BY <1>5, <1>7, <1>8, <1>9 DEF SafetyInv

\* One iteration of the hashing loop: the chunk is a multiple of 4 and does not
\* reach past the payload.
LEMMA HashChunkStep == IInv /\ HashChunk => IInv'
  <1> SUFFICES ASSUME IInv, HashChunk PROVE IInv'
    OBVIOUS
  <1> USE Parameters DEF IInv
  <1>1. /\ pc = "hash" /\ read < payload_len
        /\ flash' = flash /\ header' = header /\ digest_ok' = digest_ok /\ i' = i
        /\ pos' = pos /\ total' = total /\ starts' = starts /\ copied' = copied
    BY DEF HashChunk
  <1>2. CASE header.hash_appended
    <2>1. /\ payload_len % 16 = 0 /\ read % 4 = 0 /\ payload_len = total - 32
          /\ total \in Nat /\ read \in Nat
      BY <1>1, <1>2 DEF MeasuredInv, Measured, TypeOK, payload_len, HASH_LEN
    <2>2. want \in Nat /\ want % 4 = 0 /\ read + want <= payload_len
      BY <1>1, <2>1 DEF want
    <2>3. /\ read' = read + want /\ pc' = pc /\ err' = err
          /\ read' % 4 = 0 /\ read' <= payload_len /\ read' \in Nat
      BY <2>1, <2>2 DEF HashChunk
    <2>4. TypeOK'
      BY <1>1, <2>1, <2>3 DEF TypeOK
    <2>5. MeasuredInv'
      BY <1>1, <2>3 DEF MeasuredInv, Measured, Chain, payload_len
    <2>6. SizeInv' /\ LoadInv' /\ CopyInv'
      BY <1>1, <2>3 DEF SizeInv, LoadInv, CopyInv
    <2>7. SafetyInv'
      BY <1>1, <2>3 DEF LoadInv, SafetyInv, LoadedIsHashed, VerifyNeverUnaligned,
         LoadMeetsVerifiedHeaders
    <2>8. QED
      BY <2>4, <2>5, <2>6, <2>7 DEF SafetyInv
  <1>3. CASE ~header.hash_appended
    BY <1>1, <1>3 DEF LoadInv
  <1>4. QED
    BY <1>2, <1>3

\* The digest matched: loading starts over at the first segment header.
LEMMA DigestOkStep == IInv /\ DigestOk => IInv'
  <1> SUFFICES ASSUME IInv, DigestOk PROVE IInv'
    OBVIOUS
  <1> USE Parameters DEF IInv
  <1>1. /\ pc = "hash" /\ pc' = "load" /\ read >= payload_len /\ digest_ok
        /\ i' = 0 /\ pos' = Base + 24
        /\ flash' = flash /\ header' = header /\ digest_ok' = digest_ok
        /\ total' = total /\ read' = read /\ err' = err /\ starts' = starts
        /\ copied' = copied
    BY DEF DigestOk, IMAGE_HEADER_SIZE
  <1>2. header.hash_appended /\ copied = {} /\ err = "none" /\ MeasuredInv /\ Measured
    BY <1>1 DEF LoadInv, Measured
  <1>3. read = payload_len
    BY <1>1, <1>2 DEF MeasuredInv, TypeOK, payload_len, HASH_LEN
  <1>4. Chain(header.segment_count) /\ starts[0] = Base + 24
    BY <1>2 DEF MeasuredInv, Chain, IMAGE_HEADER_SIZE
  <1>5. TypeOK'
    <2>1. Base + 24 < Width
      BY SegmentsFit
    <2>2. QED
      BY <1>1, <2>1 DEF TypeOK, ImageHeader
  <1>6. MeasuredInv'
    BY <1>1, <1>2, <1>3 DEF MeasuredInv, Measured, Chain, payload_len
  <1>7. SizeInv' /\ LoadInv' /\ CopyInv' /\ SafetyInv'
    BY <1>1, <1>2, <1>4 DEF SizeInv, LoadInv, CopyInv, SafetyInv, LoadedIsHashed,
       VerifyNeverUnaligned, LoadMeetsVerifiedHeaders
  <1>8. QED
    BY <1>5, <1>6, <1>7 DEF SafetyInv

\* In an image that was measured, the header the load walk reads is the one the
\* measuring walk read in its place, and its data ends inside the payload.
LEMMA LoadMeetsChain ==
    ASSUME IInv, pc = "load", header.hash_appended, i < header.segment_count,
           NEW h \in SegmentHeader, ReadSegmentHeader(h)
    PROVE  /\ h.data_len \in Nat /\ h.data_len <= MaxLen
           /\ pos >= Base /\ read \in Nat
           /\ pos = starts[i] /\ pos + 8 + h.data_len = starts[i + 1]
           /\ pos + 8 + h.data_len <= Base + read
           /\ Base + read < Width
  <1> USE Parameters DEF IInv
  <1> DEFINE n == header.segment_count
  <1>1. n \in Nat /\ i \in 0..(n - 1) /\ i + 1 \in 0..n /\ read \in Nat /\ total \in Nat
        /\ pos \in Nat
    BY DEF TypeOK, ImageHeader
  <1>2. /\ Chain(n) /\ pos = starts[i]
        /\ starts[n] - Base < payload_len /\ read = payload_len
        /\ starts[i + 1] <= starts[n] /\ Base + total < Width
    BY <1>1 DEF MeasuredInv, Measured, LoadInv
  <1>3. /\ pos \in DOMAIN flash /\ flash[pos].data_len <= MaxLen
        /\ starts[i + 1] = pos + 8 + flash[pos].data_len
        /\ starts[i + 1] \in Nat /\ starts[n] \in Nat
    <2>1. /\ starts \in [0..n -> Nat]
          /\ \A j \in 0..(n - 1) :
                /\ starts[j] \in DOMAIN flash
                /\ flash[starts[j]].data_len <= MaxLen
                /\ starts[j + 1] = starts[j] + 8 + flash[starts[j]].data_len
      BY <1>2 DEF Chain, SEGMENT_HEADER_SIZE
    <2>2. starts[i + 1] \in Nat /\ starts[n] \in Nat
      BY <1>1, <2>1
    <2>3. QED
      BY <1>1, <1>2, <2>1, <2>2
  <1>4. h = flash[pos] /\ h.data_len \in Nat
    BY <1>3 DEF ReadSegmentHeader
  <1>5. pos >= Base
    BY <1>1, <1>2 DEF Chain
  <1>6. QED
    BY <1>1, <1>2, <1>3, <1>4, <1>5 DEF payload_len, HASH_LEN

\* One iteration of the loading loop copies verified bytes only.
LEMMA LoadSegmentStep == IInv /\ LoadSegment => IInv'
  <1> SUFFICES ASSUME IInv, LoadSegment PROVE IInv'
    OBVIOUS
  <1> USE Parameters DEF IInv
  <1>1. PICK h \in SegmentHeader :
          /\ ReadSegmentHeader(h)
          /\ copied' = copied \cup {CopyFrom(h)}
          /\ pos' = add(pos, SEGMENT_HEADER_SIZE + h.data_len)
    BY DEF LoadSegment
  <1>2. /\ pc = "load" /\ pc' = "load" /\ i < header.segment_count /\ i' = i + 1
        /\ header' = header /\ digest_ok' = digest_ok /\ total' = total
        /\ read' = read /\ err' = err /\ starts' = starts
    BY DEF LoadSegment
  <1>3. TypeOK'
    <2>1. pos' \in 0..(Width - 1)
      BY <1>1 DEF add, TypeOK, SEGMENT_HEADER_SIZE
    <2>2. i' \in 0..header'.segment_count
      BY <1>2 DEF TypeOK, ImageHeader
    <2>3. QED
      BY <1>1, <1>2, <2>1, <2>2, ReadKeepsChain DEF TypeOK
  <1>4. SizeInv' /\ VerifyNeverUnaligned' /\ LoadMeetsVerifiedHeaders'
    BY <1>2 DEF SizeInv, LoadInv, VerifyNeverUnaligned, LoadMeetsVerifiedHeaders
  <1>5. MeasuredInv'
    <2>1. \A a \in DOMAIN flash : a \in DOMAIN flash' /\ flash'[a] = flash[a]
      BY <1>1, ReadKeepsChain
    <2>2. Measured => Chain(header.segment_count)'
      BY <1>2, <2>1 DEF MeasuredInv, Chain
    <2>3. QED
      BY <1>2, <2>2 DEF MeasuredInv, Measured, payload_len
  <1>6. CASE header.hash_appended
    <2>1. /\ h.data_len \in Nat /\ pos \in Nat /\ pos >= Base /\ read \in Nat
          /\ pos = starts[i] /\ pos + 8 + h.data_len = starts[i + 1]
          /\ pos + 8 + h.data_len <= Base + read
          /\ Base + read < Width
      BY <1>1, <1>2, <1>6, LoadMeetsChain DEF TypeOK
    <2>2. add(pos, 8) = pos + 8 /\ add(pos, 8 + h.data_len) = pos + (8 + h.data_len)
      BY <2>1, AddExact
    <2>3. LoadedIsHashed'
      <3>1. CopyFrom(h).from = pos + 8 /\ CopyFrom(h).len = h.data_len
        BY <2>2 DEF CopyFrom, SEGMENT_HEADER_SIZE
      <3>2. \A c \in copied : c.from >= Base /\ c.from + c.len <= Base + read
        BY <1>6 DEF LoadedIsHashed
      <3>3. digest_ok
        BY <1>2, <1>6 DEF MeasuredInv, Measured
      <3>4. QED
        BY <1>1, <1>2, <2>1, <3>1, <3>2, <3>3 DEF LoadedIsHashed
    <2>4. pos' = starts'[i']
      BY <1>1, <1>2, <2>1, <2>2 DEF SEGMENT_HEADER_SIZE
    <2>5. LoadInv'
      BY <1>2, <2>4 DEF LoadInv
    <2>6. CopyInv'
      <3>1. /\ \A a \in DOMAIN flash : flash'[a] = flash[a]
            /\ flash'[pos] = h
        BY <1>1, ReadKeepsChain
      <3>2. i \in Nat /\ i < header.segment_count /\ header.segment_count \in Nat
        BY <1>2 DEF TypeOK, ImageHeader
      <3>3. ASSUME NEW j \in 0..i, j = i PROVE CopyOf(j)' = CopyFrom(h)
        <4>1. CopyFrom(h) = [from |-> pos + 8, len |-> h.data_len, to |-> h.load_addr]
          BY <2>2 DEF CopyFrom, SEGMENT_HEADER_SIZE
        <4>2. QED
          BY <1>2, <2>1, <3>1, <3>3, <4>1 DEF CopyOf, SEGMENT_HEADER_SIZE
      <3>4. ASSUME NEW j \in 0..(i - 1) PROVE CopyOf(j)' = CopyOf(j)
        <4>1. j \in 0..(header.segment_count - 1)
          BY <3>2
        <4>2. starts[j] \in DOMAIN flash
          BY <1>2, <1>6, <4>1 DEF MeasuredInv, Measured, Chain
        <4>3. QED
          BY <1>2, <3>1, <4>2 DEF CopyOf
      <3>5. copied = {CopyOf(j) : j \in 0..(i - 1)}
        BY <1>2, <1>6 DEF CopyInv
      <3>6. copied' = {CopyOf(j)' : j \in 0..i}
        <4>1. 0..i = 0..(i - 1) \cup {i}
          BY <3>2
        <4>2. \A j \in 0..i : CopyOf(j)' = IF j = i THEN CopyFrom(h) ELSE CopyOf(j)
          BY <3>3, <3>4, <4>1
        <4>3. i \notin 0..(i - 1)
          BY <3>2
        <4>4. QED
          BY <1>1, <3>5, <4>1, <4>2, <4>3
      <3>7. i' - 1 = i
        BY <1>2, <3>2
      <3>8. QED
        BY <1>2, <3>6, <3>7 DEF CopyInv
    <2>7. QED
      BY <1>3, <1>4, <1>5, <2>3, <2>5, <2>6
  <1>7. CASE ~header.hash_appended
    BY <1>2, <1>3, <1>4, <1>5, <1>7 DEF LoadInv, CopyInv, LoadedIsHashed
  <1>8. QED
    BY <1>6, <1>7

\* A refused segment was refused for its alignment if the image was measured.
LEMMA LoadSegmentRefusedStep == IInv /\ LoadSegmentRefused => IInv'
  <1> SUFFICES ASSUME IInv, LoadSegmentRefused PROVE IInv'
    OBVIOUS
  <1> USE Parameters DEF IInv
  <1>1. PICK h \in SegmentHeader :
          ReadSegmentHeader(h) /\ LoadError(h) # "none" /\ Refuse(LoadError(h))
    BY DEF LoadSegmentRefused
  <1>2. /\ pc = "load" /\ pc' = "refused" /\ err' = LoadError(h)
        /\ header' = header /\ digest_ok' = digest_ok /\ i' = i /\ pos' = pos
        /\ total' = total /\ read' = read /\ starts' = starts /\ copied' = copied
        /\ i < header.segment_count
    BY <1>1 DEF LoadSegmentRefused, Refuse
  <1>3. err' \in Error \ {"VerifyUnaligned"}
    BY <1>2 DEF LoadError, Error
  <1>4. TypeOK'
    BY <1>1, <1>2, <1>3, ReadKeepsChain DEF TypeOK
  <1>5. LoadMeetsVerifiedHeaders'
    <2>1. CASE header.hash_appended
      <3>1. h.data_len \in Nat /\ h.data_len <= MaxLen
        BY <1>1, <1>2, <2>1, LoadMeetsChain
      <3>2. QED
        BY <1>2, <3>1 DEF LoadMeetsVerifiedHeaders, LoadError
    <2>2. CASE ~header.hash_appended
      BY <1>2, <2>2 DEF LoadMeetsVerifiedHeaders
    <2>3. QED
      BY <2>1, <2>2
  <1>6. QED
    BY <1>2, <1>3, <1>4, <1>5 DEF SizeInv, MeasuredInv, Measured, LoadInv, CopyInv,
       LoadedIsHashed, VerifyNeverUnaligned

\* Every step of measuring, hashing and loading preserves the invariant.
LEMMA NextIInv == IInv /\ [Next]_vars => IInv'
  <1> SUFFICES ASSUME IInv, [Next]_vars PROVE IInv'
    OBVIOUS
  <1> USE Parameters DEF IInv
  <1> USE DEF SizeInv, MeasuredInv, Measured, LoadInv, CopyInv, LoadedIsHashed,
              VerifyNeverUnaligned, LoadMeetsVerifiedHeaders
  <1>1. CASE BeginVerify
    <2>1. /\ pc = "header" /\ pc' = IF header.hash_appended THEN "size" ELSE "load"
          /\ flash' = flash /\ header' = header /\ digest_ok' = digest_ok /\ i' = i
          /\ pos' = pos /\ total' = total /\ read' = read /\ err' = err
          /\ starts' = starts /\ copied' = copied
      BY <1>1 DEF BeginVerify
    <2>2. /\ i = 0 /\ pos = Base + 24 /\ total = 24 /\ starts = [j \in {0} |-> pos]
          /\ read = 0 /\ copied = {} /\ err = "none"
      BY <2>1 DEF IMAGE_HEADER_SIZE
    <2>3. TypeOK'
      BY <2>1 DEF TypeOK
    <2>4. Chain(0)' /\ starts'[0] = pos'
      BY <2>1, <2>2 DEF Chain, IMAGE_HEADER_SIZE
    <2>5. Room(0) \in Nat
      BY SegmentsFit
    <2>6. SizeInv'
      BY <2>1, <2>2, <2>4, <2>5 DEF IMAGE_HEADER_SIZE
    <2>7. QED
      BY <2>1, <2>2, <2>3, <2>6
  <1>2. CASE SizeSegment
    BY <1>2, SizeSegmentStep
  <1>3. CASE SizeTooLarge
    <2>1. TypeOK'
      BY <1>3, ReadKeepsChain DEF SizeTooLarge, Refuse, TypeOK, Error
    <2>2. QED
      BY <1>3, <2>1 DEF SizeTooLarge, Refuse
  <1>4. CASE SizeDone
    BY <1>4, SizeDoneStep
  <1>5. CASE HashChunk
    BY <1>5, HashChunkStep
  <1>6. CASE DigestOk
    BY <1>6, DigestOkStep
  <1>7. CASE Mismatch
    BY <1>7 DEF Mismatch, Refuse, TypeOK, Error
  <1>8. CASE LoadSegment
    BY <1>8, LoadSegmentStep
  <1>9. CASE LoadSegmentRefused
    BY <1>9, LoadSegmentRefusedStep
  <1>10. CASE LoadDone
    <2>1. TypeOK'
      BY <1>10 DEF LoadDone, TypeOK
    <2>2. MeasuredInv'
      BY <1>10 DEF LoadDone, Chain, payload_len
    <2>3. CopyInv'
      BY <1>10 DEF LoadDone, CopyOf
    <2>4. QED
      BY <1>10, <2>1, <2>2, <2>3 DEF LoadDone
  <1>11. CASE FlashFails
    BY <1>11 DEF FlashFails, Refuse, TypeOK, Error
  <1>12. CASE Derail
    BY <1>12 DEF Derail, TypeOK
  <1>13. CASE UNCHANGED vars
    <2>1. TypeOK'
      BY <1>13 DEF vars, TypeOK
    <2>2. SizeInv' /\ MeasuredInv'
      BY <1>13 DEF vars, Chain, payload_len
    <2>3. CopyInv'
      BY <1>13 DEF vars, CopyOf
    <2>4. QED
      BY <1>13, <2>1, <2>2, <2>3 DEF vars
  <1>14. CASE Ended
    BY <1>13, <1>14 DEF Ended
  <1>15. QED
    BY <1>1, <1>2, <1>3, <1>4, <1>5, <1>6, <1>7, <1>8, <1>9, <1>10, <1>11, <1>12,
       <1>13, <1>14 DEF Next

\* The inductive invariant holds throughout every boot.
THEOREM Invariance == Spec => []IInv
  BY InitIInv, NextIInv, PTL DEF Spec

\* Every byte copied out of an image with a digest was hashed, and the digest
\* matched, before it was copied.
THEOREM OnlyHashedBytesAreLoaded == Spec => []LoadedIsHashed
  <1>1. IInv => LoadedIsHashed
    BY DEF IInv
  <1>2. QED
    BY <1>1, Invariance, PTL

\* The image that is entered is complete.
THEOREM CompleteAtTheJump == Spec => []EntersCompleteImage
  <1>1. IInv => EntersCompleteImage
    BY DEF IInv, TypeOK, ImageHeader, CopyInv, EntersCompleteImage
  <1>2. QED
    BY <1>1, Invariance, PTL

\* The digest is looked for in the right place.
THEOREM DigestIsWhereItIsWritten == Spec => []DigestFollowsChecksum
  <1>1. IInv => DigestFollowsChecksum
    BY DEF IInv, MeasuredInv, Measured, DigestFollowsChecksum
  <1>2. QED
    BY <1>1, Invariance, PTL

\* Hashing never asks flash::read for a length it refuses.
THEOREM HashingStaysAligned == Spec => []VerifyNeverUnaligned
  <1>1. IInv => VerifyNeverUnaligned
    BY DEF IInv
  <1>2. QED
    BY <1>1, Invariance, PTL

\* The load walk never meets a header the measuring walk would have refused.
THEOREM WalksAgree == Spec => []LoadMeetsVerifiedHeaders
  <1>1. IInv => LoadMeetsVerifiedHeaders
    BY DEF IInv
  <1>2. QED
    BY <1>1, Invariance, PTL

\* Type correctness (TypeOK): neither walk goes past the last segment, and what it
\* has read of the flash stays what it was, for every image within the limits.
THEOREM TypeCorrect == Spec => []TypeOK
  <1>1. IInv => TypeOK
    BY DEF IInv
  <1>2. QED
    BY <1>1, Invariance, PTL

-----------------------------------------------------------------------------
(* What verification promises.                                             *)

\* When hashing is done, the segments that were measured lie in what was hashed.
LEMMA PlanIsHashed ==
    ASSUME IInv, Measured, pc # "hash" \/ read >= payload_len,
           NEW j \in 0..(header.segment_count - 1)
    PROVE  CopyOf(j).from >= Base /\ CopyOf(j).from + CopyOf(j).len <= Base + read
  <1> DEFINE n == header.segment_count
  <1>1. /\ n \in Nat /\ j \in 0..n /\ j + 1 \in 0..n /\ j \in 0..(n - 1) /\ n \in 0..n
        /\ read \in Nat /\ total \in Nat /\ Base \in Nat
    BY Parameters DEF IInv, TypeOK, ImageHeader
  <1>2. /\ Chain(n) /\ starts[n] - Base < payload_len /\ payload_len = read
        /\ starts[j + 1] <= starts[n]
    BY <1>1 DEF IInv, MeasuredInv, payload_len, HASH_LEN
  <1>3. /\ starts[j] \in Nat /\ starts[j + 1] \in Nat /\ starts[n] \in Nat
        /\ starts[j] >= Base
        /\ starts[j] \in DOMAIN flash
        /\ starts[j + 1] = starts[j] + 8 + flash[starts[j]].data_len
    BY <1>1, <1>2 DEF Chain, SEGMENT_HEADER_SIZE
  <1>4. flash[starts[j]].data_len \in Nat
    BY <1>3, Parameters DEF IInv, TypeOK
  <1>5. CopyOf(j).from = starts[j] + 8 /\ CopyOf(j).len = flash[starts[j]].data_len
    BY DEF CopyOf, SEGMENT_HEADER_SIZE
  <1>6. QED
    BY <1>1, <1>2, <1>3, <1>4, <1>5

\* While the image is being loaded the plan does not change, although flash is
\* read again.
LEMMA PlanStays ==
    ASSUME IInv, pc \in {"load", "jump"}, pc' \in {"load", "jump"},
           UNCHANGED <<header, starts>>,
           \A a \in DOMAIN flash : flash'[a] = flash[a]
    PROVE  Plan' = Plan
  <1> DEFINE n == header.segment_count
  <1>1. CASE header.hash_appended
    <2>1. ASSUME NEW j \in 0..(n - 1) PROVE CopyOf(j)' = CopyOf(j)
      <3>1. starts[j] \in DOMAIN flash
        BY <1>1 DEF IInv, MeasuredInv, Measured, Chain
      <3>2. QED
        BY <3>1 DEF CopyOf
    <2>2. Plan = {CopyOf(j) : j \in 0..(n - 1)} /\ Plan' = {CopyOf(j)' : j \in 0..(n - 1)}
      BY <1>1 DEF Plan
    <2>3. QED
      BY <2>1, <2>2
  <1>2. CASE ~header.hash_appended
    BY <1>2 DEF Plan
  <1>3. QED
    BY <1>1, <1>2

\* A read that fails, a digest that does not match and a header that is refused
\* all end in the refusal of the image.
LEMMA RefuseSimulation ==
    ASSUME IInv, NEW e, Refuse(e), pc \in {"size", "hash", "load"}
    PROVE  V!Refuse
  <1>1. /\ pc' = "refused"
        /\ UNCHANGED <<header, digest_ok, read, copied>>
    BY DEF Refuse
  <1>2. Plan' = {}
    BY <1>1 DEF Plan
  <1>3. QED
    BY <1>1, <1>2 DEF V!Refuse, Stage

\* Every step of the two walks is a step of the promise, or hidden from it.
LEMMA StepSimulation == IInv /\ [Next]_vars => [V!Next]_(V!vvars)
  <1> SUFFICES ASSUME IInv, [Next]_vars PROVE V!Next \/ UNCHANGED V!vvars
    OBVIOUS
  <1> USE DEF Stage
  <1>1. CASE BeginVerify
    <2>1. /\ pc = "header" /\ pc' = IF header.hash_appended THEN "size" ELSE "load"
          /\ UNCHANGED <<header, digest_ok, read, copied>>
      BY <1>1 DEF BeginVerify
    <2>2. CASE header.hash_appended
      <3>1. Plan = {} /\ Plan' = {}
        BY <2>1, <2>2 DEF Plan
      <3>2. QED
        BY <2>1, <2>2, <3>1 DEF V!vvars
    <2>3. CASE ~header.hash_appended
      <3>1. Plan' = {}
        BY <2>1, <2>3 DEF Plan
      <3>2. V!Trust
        BY <2>1, <2>3, <3>1 DEF V!Trust
      <3>3. QED
        BY <3>2 DEF V!Next
    <2>4. QED
      BY <2>2, <2>3
  <1>2. CASE SizeSegment \/ SizeDone
    <2>1. /\ pc = "size" /\ pc' \in {"size", "hash"}
          /\ UNCHANGED <<header, digest_ok, read, copied>>
      BY <1>2 DEF SizeSegment, SizeDone
    <2>2. Plan = {} /\ Plan' = {}
      BY <2>1 DEF Plan
    <2>3. QED
      BY <2>1, <2>2 DEF V!vvars
  <1>3. CASE SizeTooLarge \/ Mismatch \/ LoadSegmentRefused \/ FlashFails
    <2>1. PICK e \in Error : Refuse(e) /\ pc \in {"size", "hash", "load"}
      BY <1>3 DEF SizeTooLarge, Mismatch, LoadSegmentRefused, FlashFails, LoadError, Error
    <2>2. QED
      BY <2>1, RefuseSimulation DEF V!Next
  <1>4. CASE HashChunk
    <2>1. /\ pc = "hash" /\ read < payload_len
          /\ UNCHANGED <<header, digest_ok, copied>>
          /\ header.hash_appended
      BY <1>4 DEF HashChunk, IInv, LoadInv
    <2>2. /\ payload_len % 16 = 0 /\ read % 4 = 0 /\ read \in Nat /\ payload_len = total - 32
          /\ total \in Nat
      BY <2>1 DEF IInv, TypeOK, MeasuredInv, Measured, payload_len, HASH_LEN
    <2>3. want % 4 = 0 /\ want \in Nat /\ want > 0
      BY <2>1, <2>2, Parameters DEF want
    <2>4. read' = read + want /\ pc' = pc
      BY <1>4, <2>3 DEF HashChunk
    <2>5. Plan = {} /\ Plan' = {}
      BY <2>1, <2>4 DEF Plan
    <2>6. read' > read
      BY <2>2, <2>3, <2>4
    <2>7. V!Hash
      BY <2>1, <2>4, <2>5, <2>6 DEF V!Hash
    <2>8. QED
      BY <2>7 DEF V!Next
  <1>5. CASE DigestOk
    <2>1. /\ pc = "hash" /\ pc' = "load" /\ read >= payload_len /\ digest_ok
          /\ UNCHANGED <<flash, header, digest_ok, read, starts, copied>>
      BY <1>5 DEF DigestOk
    <2>2. Measured
      BY <2>1 DEF Measured, IInv, LoadInv
    <2>3. Plan' = {CopyOf(j) : j \in 0..(header.segment_count - 1)}
      BY <2>1, <2>2 DEF Plan, CopyOf, Measured
    <2>4. \A c \in Plan' : c.from >= Base /\ c.from + c.len <= Base + read
      BY <2>1, <2>2, <2>3, PlanIsHashed
    <2>5. V!Trust
      BY <2>1, <2>4 DEF V!Trust
    <2>6. QED
      BY <2>5 DEF V!Next
  <1>6. CASE LoadSegment
    <2>1. PICK h \in SegmentHeader :
            ReadSegmentHeader(h) /\ copied' = copied \cup {CopyFrom(h)}
      BY <1>6 DEF LoadSegment
    <2>2. /\ pc = "load" /\ pc' = "load" /\ i < header.segment_count
          /\ UNCHANGED <<header, digest_ok, read, starts>>
      BY <1>6 DEF LoadSegment
    <2>3. Plan' = Plan
      BY <2>1, <2>2, ReadKeepsChain, PlanStays DEF IInv
    <2>4. header.hash_appended => CopyFrom(h) \in Plan
      <3> SUFFICES ASSUME header.hash_appended PROVE CopyFrom(h) \in Plan
        OBVIOUS
      <3>1. /\ h.data_len \in Nat /\ pos = starts[i] /\ pos \in Nat
            /\ pos + 8 + h.data_len <= Base + read /\ Base + read < Width /\ read \in Nat
        BY <2>1, <2>2, LoadMeetsChain DEF IInv, TypeOK
      <3>2. add(pos, 8) = pos + 8
        <4>1. pos + 8 < Width
          BY <3>1, Parameters
        <4>2. QED
          BY <3>1, <4>1, AddExact
      <3>3. i \in 0..(header.segment_count - 1)
        BY <2>2 DEF IInv, TypeOK, ImageHeader
      <3>4. h = flash[starts[i]]
        BY <2>1, <2>2, <3>1, <3>3 DEF ReadSegmentHeader, IInv, MeasuredInv, Measured, Chain
      <3>5. CopyFrom(h) = CopyOf(i)
        BY <3>1, <3>2, <3>4 DEF CopyFrom, CopyOf, SEGMENT_HEADER_SIZE
      <3>6. QED
        BY <2>2, <3>3, <3>5 DEF Plan
    <2>5. V!Copy
      BY <2>1, <2>2, <2>3, <2>4 DEF V!Copy
    <2>6. QED
      BY <2>5 DEF V!Next
  <1>7. CASE LoadDone
    <2>1. /\ pc = "load" /\ pc' = "jump" /\ i = header.segment_count
          /\ UNCHANGED <<flash, header, digest_ok, read, starts, copied>>
      BY <1>7 DEF LoadDone
    <2>2. Plan' = Plan
      BY <2>1, PlanStays
    <2>3. header.hash_appended => copied = Plan
      BY <2>1 DEF IInv, CopyInv, Plan
    <2>4. V!Enter
      BY <2>1, <2>2, <2>3 DEF V!Enter
    <2>5. QED
      BY <2>4 DEF V!Next
  <1>8. CASE Derail
    <2>1. /\ pc \in {"load", "jump"} /\ pc' = "undefined"
          /\ UNCHANGED <<header, digest_ok, read, copied>>
          /\ \E c \in copied : c.len > 0 /\ c.to < OwnHi /\ c.to + c.len > OwnLo
      BY <1>8 DEF Derail, Overlaps
    <2>2. Plan' = {}
      BY <2>1 DEF Plan
    <2>3. V!Lose
      BY <2>1, <2>2 DEF V!Lose
    <2>4. QED
      BY <2>3 DEF V!Next
  <1>9. CASE Ended \/ UNCHANGED vars
    BY <1>9 DEF Ended, vars, V!vvars, Plan, CopyOf
  <1>10. QED
    BY <1>1, <1>2, <1>3, <1>4, <1>5, <1>6, <1>7, <1>8, <1>9 DEF Next

\* The two walks over the headers, the hashing and the loading implement what
\* verification promises (ImplementsVerifiedLoad), for every image within the
\* code's limits and every content of flash.
THEOREM LoadImplementsPromise == Spec => ImplementsVerifiedLoad
  <1>1. Init => V!Init
    BY DEF Init, ImageHeader, V!Init, Stage, Plan
  <1>2. IInv /\ [Next]_vars => [V!Next]_(V!vvars)
    BY StepSimulation
  <1>3. QED
    BY <1>1, <1>2, Invariance, PTL DEF Spec, ImplementsVerifiedLoad, V!Spec
=============================================================================
