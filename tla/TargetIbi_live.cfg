SPECIFICATION FairSpec
CONSTANTS
    QueueDepth = 4
    Lengths = {0}
    Messages = 1
    IBI_RETRY_NUM = 7
    THdDat = 0
    Gap = 2
    Addresses <- OnlyBroadcast
    IbiEnValues = {TRUE}
    AddrValidValues = {TRUE, FALSE}
PROPERTY IbiServed
