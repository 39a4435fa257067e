SPECIFICATION Spec
CONSTANTS
    DataDepth = 2
    DescDepth = 2
    Plans <- MCPlans
    ShortGap = 3
    LongGap = 4
INVARIANTS MessagesIntact LossReported
