SPECIFICATION FairSpec
CONSTANTS
    RingSize = 2
    RequestSizes = {2}
    RangeSize = 1
    MaxTransactionId = 1
    MaxRanges = 0
    MaxIncoming = 2
    AllocationCanFail = FALSE
PROPERTIES EveryRequestCompletes
