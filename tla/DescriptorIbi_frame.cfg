SPECIFICATION DescriptorFairSpec
CONSTANTS
    QueueDepth = 4
    Lengths = {0, 1, 4, 5, 11, 12}
    Messages = 4
INVARIANTS Framed
PROPERTY FinallyOffered
