SPECIFICATION Spec
CONSTANTS
    Depth = 5
    TxDepth = 2
    Programs <- MCPrograms
INVARIANTS ThresholdsKept CrossingNoticed AssertionsHold
PROPERTIES EventsServed
