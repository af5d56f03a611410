SPECIFICATION Spec
CONSTANTS
    RingSize = 2
    RequestSizes = {1}
    RangeSize = 1
    MaxTransactionId = 2
    MaxRanges = 0
    MaxIncoming = 0
    AllocationCanFail = FALSE
PROPERTIES StopFreesEntries
