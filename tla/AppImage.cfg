CONSTANTS
    Base = 16
    SegmentHeader <- MCSegmentHeader
    MaxLen = 12
    MaxSegments = 3
    CHUNK_LEN = 64
    Width = 256
    OwnLo = 96
    OwnHi = 128
SPECIFICATION Spec
INVARIANT TypeOK
INVARIANT LoadedIsHashed
INVARIANT DigestFollowsChecksum
INVARIANT VerifyNeverUnaligned
INVARIANT LoadMeetsVerifiedHeaders
INVARIANT EntersCompleteImage
PROPERTY ImplementsVerifiedLoad
