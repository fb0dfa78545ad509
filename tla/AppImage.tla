------------------------------ MODULE AppImage ------------------------------
(***************************************************************************)
(* src/verify.rs and src/app.rs: one image is measured                     *)
(* (compute_image_total_size), hashed (verify_app_sha256) and copied to    *)
(* RAM (load_segments), as main calls them.  Measuring and copying walk    *)
(* the segment headers in flash independently of each other; the loops are *)
(* unrolled into one action per iteration.  Addresses and lengths are u32  *)
(* and wrap at Width.                                                      *)
(***************************************************************************)
EXTENDS Integers

CONSTANTS
    Base,           \* flash_offset, the start of the chosen partition
    SegmentHeader,  \* the segment headers flash may hold: load_addr, data_len
    MaxLen,         \* the largest data_len both walks accept, 0x80_0000
    MaxSegments,    \* the largest segment_count, 255 in a u8
    CHUNK_LEN,      \* bytes hashed per read, 1024
    Width,          \* 2^32
    OwnLo, OwnHi    \* the RAM the bootloader runs in, memory.x

IMAGE_HEADER_SIZE == 24
SEGMENT_HEADER_SIZE == 8
HASH_LEN == 32

ImageHeader == [segment_count : 0..MaxSegments, hash_appended : BOOLEAN]

ASSUME AppImageAssumption ==
    /\ Base \in Nat /\ MaxLen \in Nat /\ MaxSegments \in Nat /\ Width \in Nat
    /\ OwnLo \in Nat /\ OwnHi \in Nat
    /\ CHUNK_LEN \in Nat \ {0} /\ CHUNK_LEN % 4 = 0
    /\ SegmentHeader \subseteq [load_addr : 0..(Width - 1), data_len : 0..(Width - 1)]
    \* 255 * (8 + 0x80_0000) leaves half of the u32 range to Base.
    /\ Base + IMAGE_HEADER_SIZE + MaxSegments * (SEGMENT_HEADER_SIZE + MaxLen) + 64 < Width

VARIABLES
    flash,      \* the segment headers read so far, by address: flash holds one
                \* value per address, chosen when it is first looked at
    header,     \* what read_header returned
    digest_ok,  \* the appended digest is that of the bytes before it
    pc,         \* the loop main is in, or how it ended
    i,          \* segments walked
    pos,        \* address of the next segment header
    total,      \* the size computed so far
    read,       \* bytes hashed
    err,        \* why the image was refused
    \* History variables, read by no guard.
    starts,     \* starts[j]: where the measuring walk found header j
    copied      \* the copies made: flash range and destination

vars == <<flash, header, digest_ok, pc, i, pos, total, read, err, starts, copied>>

Error == {"none", "VerifyFlash", "VerifyTooLarge", "VerifyUnaligned", "Mismatch",
          "LoadFlash", "LoadTooLarge", "UnalignedSegment", "LoadUnaligned"}

\* Both walks stop at segment_count, and addresses and sizes are u32.
TypeOK ==
    /\ header \in ImageHeader
    /\ digest_ok \in BOOLEAN
    /\ pc \in {"header", "size", "hash", "load", "jump", "refused", "undefined"}
    /\ i \in 0..header.segment_count
    /\ pos \in 0..(Width - 1)
    /\ total \in 0..(Width - 1)
    /\ read \in 0..(Width - 1)
    /\ err \in Error
    /\ DOMAIN flash \subseteq 0..(Width - 1)
    /\ \A a \in DOMAIN flash : flash[a] \in SegmentHeader

add(a, b) == (a + b) % Width

Init ==
    /\ flash = [a \in {} |-> 0]
    /\ header \in ImageHeader
    /\ digest_ok \in BOOLEAN
    /\ pc = "header"
    /\ i = 0
    /\ pos = Base + IMAGE_HEADER_SIZE
    /\ total = IMAGE_HEADER_SIZE
    /\ read = 0
    /\ err = "none"
    /\ starts = [j \in {0} |-> Base + IMAGE_HEADER_SIZE]
    /\ copied = {}

\* The 8-byte read at pos: flash does not change between the two walks.
ReadSegmentHeader(h) ==
    /\ h \in SegmentHeader
    /\ pos \in DOMAIN flash => h = flash[pos]
    /\ flash' = [a \in DOMAIN flash \cup {pos} |-> IF a = pos THEN h ELSE flash[a]]

Refuse(e) ==
    /\ pc' = "refused"
    /\ err' = e
    /\ UNCHANGED <<header, digest_ok, i, pos, total, read, starts, copied>>

-----------------------------------------------------------------------------
\* main verifies an image that says it has a digest, and loads any other.
BeginVerify ==
    /\ pc = "header"
    /\ pc' = IF header.hash_appended THEN "size" ELSE "load"
    /\ UNCHANGED <<flash, header, digest_ok, i, pos, total, read, err, starts, copied>>

SizeSegmentUnchecked ==     \* mutant: data_len is not bounded
    /\ pc = "size" /\ i < header.segment_count
    /\ \E h \in SegmentHeader :
          /\ ReadSegmentHeader(h)
          /\ total' = add(total, SEGMENT_HEADER_SIZE + h.data_len)
          /\ pos' = add(pos, SEGMENT_HEADER_SIZE + h.data_len)
          /\ starts' = [j \in 0..(i + 1) |-> IF j <= i THEN starts[j] ELSE pos']
    /\ i' = i + 1
    /\ UNCHANGED <<header, digest_ok, pc, read, err, copied>>

\* compute_image_total_size, one iteration.
SizeSegment ==
    /\ pc = "size" /\ i < header.segment_count
    /\ \E h \in SegmentHeader :
          /\ ReadSegmentHeader(h)
          /\ h.data_len <= MaxLen
          /\ total' = add(total, SEGMENT_HEADER_SIZE + h.data_len)
          /\ pos' = add(pos, SEGMENT_HEADER_SIZE + h.data_len)
          /\ starts' = [j \in 0..(i + 1) |-> IF j <= i THEN starts[j] ELSE pos']
    /\ i' = i + 1
    /\ UNCHANGED <<header, digest_ok, pc, read, err, copied>>

SizeTooLarge ==
    /\ pc = "size" /\ i < header.segment_count
    /\ \E h \in SegmentHeader : ReadSegmentHeader(h) /\ h.data_len > MaxLen
    /\ Refuse("VerifyTooLarge")

RoundNothing(n) == n        \* mutant: the checksum is not padded

RoundShort(n) ==            \* mutant: the 1-byte checksum is forgotten
    16 * ((n + 14) \div 16)

\* (total + 15) & !15
RoundUp16(n) == 16 * ((n + 15) \div 16)

\* The checksum byte, its padding, and the digest.
SizeDone ==
    /\ pc = "size" /\ i = header.segment_count
    /\ total' = add(RoundUp16(add(total, 1)), HASH_LEN)
    /\ pc' = "hash"
    /\ UNCHANGED <<flash, header, digest_ok, i, pos, read, err, starts, copied>>

payload_len == total - HASH_LEN

want == IF CHUNK_LEN < payload_len - read THEN CHUNK_LEN ELSE payload_len - read

\* flash::read refuses a length that is not a multiple of 4.
HashChunk ==
    /\ pc = "hash" /\ read < payload_len
    /\ IF want % 4 = 0
       THEN read' = read + want /\ UNCHANGED <<pc, err>>
       ELSE pc' = "refused" /\ err' = "VerifyUnaligned" /\ UNCHANGED read
    /\ UNCHANGED <<flash, header, digest_ok, i, pos, total, starts, copied>>

DigestOk ==
    /\ pc = "hash" /\ read >= payload_len
    /\ digest_ok
    /\ pc' = "load"
    /\ i' = 0
    /\ pos' = Base + IMAGE_HEADER_SIZE
    /\ UNCHANGED <<flash, header, digest_ok, total, read, err, starts, copied>>

Mismatch ==
    /\ pc = "hash" /\ read >= payload_len
    /\ ~digest_ok
    /\ Refuse("Mismatch")
    /\ UNCHANGED flash

-----------------------------------------------------------------------------
CopyFrom(h) == [from |-> add(pos, SEGMENT_HEADER_SIZE), len |-> h.data_len, to |-> h.load_addr]

LoadSegmentSkewed ==        \* mutant: pos is advanced past data only
    /\ pc = "load" /\ i < header.segment_count
    /\ \E h \in SegmentHeader :
          /\ ReadSegmentHeader(h)
          /\ h.data_len <= MaxLen /\ h.data_len % 4 = 0 /\ h.load_addr % 4 = 0
          /\ copied' = copied \cup {CopyFrom(h)}
          /\ pos' = add(pos, h.data_len)
    /\ i' = i + 1
    /\ UNCHANGED <<header, digest_ok, pc, total, read, err, starts>>

LoadSegmentInclusive ==     \* mutant: for i in 0..=segment_count
    /\ pc = "load" /\ i <= header.segment_count
    /\ \E h \in SegmentHeader :
          /\ ReadSegmentHeader(h)
          /\ h.data_len <= MaxLen /\ h.data_len % 4 = 0 /\ h.load_addr % 4 = 0
          /\ copied' = copied \cup {CopyFrom(h)}
          /\ pos' = add(pos, SEGMENT_HEADER_SIZE + h.data_len)
    /\ i' = i + 1
    /\ UNCHANGED <<header, digest_ok, pc, total, read, err, starts>>

\* load_segments, one iteration: flash::read refuses an unaligned destination.
LoadSegment ==
    /\ pc = "load" /\ i < header.segment_count
    /\ \E h \in SegmentHeader :
          /\ ReadSegmentHeader(h)
          /\ h.data_len <= MaxLen /\ h.data_len % 4 = 0 /\ h.load_addr % 4 = 0
          /\ copied' = copied \cup {CopyFrom(h)}
          /\ pos' = add(pos, SEGMENT_HEADER_SIZE + h.data_len)
    /\ i' = i + 1
    /\ UNCHANGED <<header, digest_ok, pc, total, read, err, starts>>

\* The checks in the order load_segments and flash::read make them.
LoadError(h) ==
    IF h.data_len > MaxLen THEN "LoadTooLarge"
    ELSE IF h.data_len % 4 # 0 THEN "UnalignedSegment"
    ELSE IF h.load_addr % 4 # 0 THEN "LoadUnaligned"
    ELSE "none"

LoadSegmentRefused ==
    /\ pc = "load" /\ i < header.segment_count
    /\ \E h \in SegmentHeader :
          /\ ReadSegmentHeader(h)
          /\ LoadError(h) # "none"
          /\ Refuse(LoadError(h))

LoadDoneShort ==            \* mutant: the last segment is not loaded
    /\ pc = "load" /\ i + 1 >= header.segment_count
    /\ pc' = "jump"
    /\ UNCHANGED <<flash, header, digest_ok, i, pos, total, read, err, starts, copied>>

LoadDone ==
    /\ pc = "load" /\ i = header.segment_count
    /\ pc' = "jump"
    /\ UNCHANGED <<flash, header, digest_ok, i, pos, total, read, err, starts, copied>>

\* The ROM reports an error for any of the reads.
FlashFails ==
    /\ \/ pc \in {"size", "hash"} /\ Refuse("VerifyFlash")
       \/ pc = "load" /\ i < header.segment_count /\ Refuse("LoadFlash")
    /\ UNCHANGED flash

Overlaps(c) == c.len > 0 /\ c.to < OwnHi /\ c.to + c.len > OwnLo

\* A copy went over the bootloader's own code or stack: nothing checks for it,
\* and from then on execution may go anywhere.
Derail ==
    /\ pc \in {"load", "jump"}
    /\ \E c \in copied : Overlaps(c)
    /\ pc' = "undefined"
    /\ UNCHANGED <<flash, header, digest_ok, i, pos, total, read, err, starts, copied>>

\* heartbeat(), the app, or lost.
Ended ==
    /\ pc \in {"jump", "refused", "undefined"}
    /\ UNCHANGED vars

Next ==
    \/ BeginVerify
    \/ SizeSegment \/ SizeTooLarge \/ SizeDone
    \/ HashChunk \/ DigestOk \/ Mismatch
    \/ LoadSegment \/ LoadSegmentRefused \/ LoadDone
    \/ FlashFails \/ Derail
    \/ Ended

Spec == Init /\ [][Next]_vars

-----------------------------------------------------------------------------
(***************************************************************************)
(* Properties.                                                             *)
(***************************************************************************)

\* Corruption is detected before the jump: every byte that load_segments
\* copies out of an image with a digest lies in the range that
\* verify_app_sha256 hashed and found to match, although the two walk the
\* image separately and the range comes from u32 sums over its headers.
LoadedIsHashed ==
    (header.hash_appended /\ copied # {}) =>
        /\ digest_ok
        /\ \A c \in copied : c.from >= Base /\ c.from + c.len <= Base + read

\* Hashing stops at the digest: the 32 bytes compared as the digest are the
\* first 16-aligned ones behind the checksum byte of the last segment.
DigestFollowsChecksum ==
    (pc = "load" /\ header.hash_appended) =>
        LET end == starts[header.segment_count] - Base IN
        /\ read = payload_len
        /\ payload_len % 16 = 0
        /\ end < payload_len /\ payload_len <= end + 16

\* src/verify.rs: "every chunk len is automatically 4-byte aligned for ROM
\* SPI flash read", also for images whose segments are not.
VerifyNeverUnaligned == err # "VerifyUnaligned"

\* What passed verification is not refused as too large by the load: the load
\* walk meets the headers the measuring walk accepted, no others.
LoadMeetsVerifiedHeaders == (header.hash_appended /\ read > 0) => err # "LoadTooLarge"

\* The copy of the j-th measured segment, whole and to where its header says.
CopyOf(j) ==
    LET h == flash[starts[j]]
    IN  [from |-> starts[j] + SEGMENT_HEADER_SIZE, len |-> h.data_len, to |-> h.load_addr]

\* A load error in the middle leaves a half-loaded image, which main must not
\* enter: at the jump every segment the digest covers is in RAM.
EntersCompleteImage ==
    (pc = "jump" /\ header.hash_appended) =>
        \A j \in 0..(header.segment_count - 1) : CopyOf(j) \in copied

-----------------------------------------------------------------------------
(***************************************************************************)
(* What verification promises, with the walks hidden: trust begins when    *)
(* loading does.                                                           *)
(***************************************************************************)
Stage ==
    CASE pc \in {"header", "size", "hash"} -> "checking"
      [] pc = "load" -> "loading"
      [] pc = "jump" -> "entered"
      [] pc = "refused" -> "refused"
      [] pc = "undefined" -> "lost"

\* The copies the measured headers ask for.
Plan ==
    {CopyOf(j) : j \in {k \in 0..(header.segment_count - 1) :
                            header.hash_appended /\ pc \in {"load", "jump"}}}

V == INSTANCE VerifiedLoad WITH
        signed <- header.hash_appended, good <- digest_ok,
        stage <- Stage, hashed <- read, plan <- Plan, loaded <- copied

\* Measuring, hashing and loading implement that promise: what the measuring
\* walk found is what the load walk copies, no more and no less, and not
\* before the digest over it matched.
ImplementsVerifiedLoad == V!Spec

-----------------------------------------------------------------------------
(***************************************************************************)
(* The inductive invariant (AppImageProofs proves it).                     *)
(***************************************************************************)
\* The headers the measuring walk passed, chained from the image header.
Chain(n) ==
    /\ starts \in [0..n -> Nat]
    /\ starts[0] = Base + IMAGE_HEADER_SIZE
    /\ \A j \in 0..n : starts[j] >= Base
    /\ \A j \in 0..(n - 1) :
          /\ starts[j] \in DOMAIN flash
          /\ flash[starts[j]].data_len <= MaxLen
          /\ starts[j + 1] = starts[j] + SEGMENT_HEADER_SIZE + flash[starts[j]].data_len

\* An upper bound on what n segments add to the size.
Room(n) == n * (SEGMENT_HEADER_SIZE + MaxLen)

SizeInv ==
    pc = "size" =>
        /\ Chain(i)
        /\ pos = starts[i]
        /\ pos = Base + total
        /\ total >= IMAGE_HEADER_SIZE
        /\ total <= IMAGE_HEADER_SIZE + Room(i)
        /\ \A j \in 0..i : starts[j] <= pos

\* The image has been measured.
Measured == header.hash_appended /\ pc \in {"hash", "load", "jump"}

MeasuredInv ==
    Measured =>
        LET n == header.segment_count IN
        /\ Chain(n)
        /\ payload_len % 16 = 0
        /\ starts[n] - Base < payload_len
        /\ payload_len <= starts[n] - Base + 16
        /\ \A j \in 0..n : starts[j] <= starts[n]
        /\ Base + total < Width
        /\ read <= payload_len /\ read % 4 = 0
        /\ pc # "hash" => digest_ok /\ read = payload_len

LoadInv ==
    /\ pc \in {"header", "size"} => read = 0
    /\ pc \in {"header", "size", "hash"} => copied = {} /\ err = "none"
    /\ pc \in {"load", "jump"} => err = "none"
    /\ pc = "header" => /\ i = 0
                        /\ pos = Base + IMAGE_HEADER_SIZE
                        /\ total = IMAGE_HEADER_SIZE
                        /\ starts = [j \in {0} |-> pos]
    /\ pc \in {"size", "hash"} => header.hash_appended
    /\ pc = "load" /\ header.hash_appended => pos = starts[i]

\* The segments the load walk has passed are in RAM, and nothing else.
CopyInv ==
    (pc \in {"load", "jump"} /\ header.hash_appended) =>
        /\ copied = {CopyOf(j) : j \in 0..(i - 1)}
        /\ pc = "jump" => i = header.segment_count

IInv ==
    /\ TypeOK /\ SizeInv /\ MeasuredInv /\ LoadInv /\ CopyInv
    /\ LoadedIsHashed /\ VerifyNeverUnaligned /\ LoadMeetsVerifiedHeaders
=============================================================================
