SPECIFICATION Spec
CONSTANTS
    Depth = 3
    Word = {d1, d2}
    Zero = Zero
    Recovery = TRUE
INVARIANTS AckHasOwner PopHasOwner
PROPERTIES LostOnlyByReset ReadAnswered ImplementsReadPort
