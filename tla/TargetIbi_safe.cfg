SPECIFICATION Spec
CONSTANTS
    QueueDepth = 4
    Lengths = {0, 5}
    Messages = 2
    IBI_RETRY_NUM = 1
    THdDat = 1
    Gap = 3
    Addresses <- MCAddresses
    IbiEnValues = {TRUE, FALSE}
    AddrValidValues = {TRUE, FALSE}
INVARIANTS FreshStart NoUnderrun OneSpeaker
PROPERTIES FailureReported LeavesWhole
