SPECIFICATION Spec
CONSTANTS
    Bytes <- MCBytes
    HighByte = 4
    NibbleBase = 4
    ByteFreq <- MCByteFreq
    WordBytes = 2
    Lanes = 2
    ExactLimit = 2
    RangeLimit = 2
    FewBytes = 2
    MAX_RANGE_SETS = 2
    TeddyBytes = 2
    SKIP_FREQ_THRESHOLD = 20
    RARE_BYTE_FREQ_LIMIT = 20
    RANGE_FREQ_THRESHOLD = 22
    TEDDY_MAX_FREQ_SUM = 10
    TEDDY_WEAK_POSITION_FREQ = 5
    TEDDY_MEMCHR_MAX_FREQ = 3
    TEDDY_MEMCHR_MAX_FREQ_F = 4
    RevShare <- MCRevShare
    Requests <- MCRequests
CHECK_DEADLOCK FALSE
INVARIANTS
    NothingSkipped
    FoundThere
    AllFound
    ReadsInside
