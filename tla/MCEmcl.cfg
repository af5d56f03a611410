SPECIFICATION MCSpec
CONSTANTS
    RingSize = 2
    RequestSizes = {1, 2}
    RangeSize = 1
    MaxTransactionId = 3
    MaxRanges = 1
    MaxIncoming = 1
    AllocationCanFail = FALSE
INVARIANTS RequestsNotLost NoStrandedPacket MemoryExact GpadlsExact FlagsScanned
CHECK_DEADLOCK FALSE
