------------------------- MODULE RecoveryTransferMC -------------------------
EXTENDS RecoveryTransfer

Respond == Plan("response", 0, 0, TRUE)
Own(n) == Plan("own", 0, n, TRUE)
Elsewhere == {Plan("other", 0, 0, TRUE), Plan("broadcast", 0, 0, TRUE)}

\* DEVICE_RESET of 3 bytes, INDIRECT_FIFO_CTRL of 6 bytes in two words,
\* INDIRECT_FIFO_DATA of 5 bytes, and a code that is no command.
WritePlans ==
    {Plan("write", 37, 3, TRUE), Plan("write", 37, 3, FALSE),
     Plan("write", 45, 6, TRUE), Plan("write", 47, 5, TRUE),
     Plan("write", 99, 1, TRUE), Own(2)} \union Elsewhere

\* A write without a payload, and other writes.
EmptyPlans ==
    {Plan("write", 37, 0, TRUE), Plan("write", 37, 3, TRUE)} \union Elsewhere

\* Reads and writes one after the other, one of the writes with a wrong PEC.
MixedPlans ==
    {Plan("write", 37, 3, TRUE), Plan("write", 37, 1, FALSE),
     Plan("read", 39, 0, TRUE), Respond, Own(1)} \union Elsewhere

\* Outside recovery mode: reads and writes that are allowed, refused for a
\* wrong PEC, or refused for the mode.
ModePlans ==
    {Plan("write", 37, 3, TRUE), Plan("write", 37, 1, FALSE),
     Plan("write", 45, 5, TRUE), Plan("read", 36, 0, TRUE),
     Plan("read", 39, 0, FALSE), Plan("read", 40, 0, TRUE), Respond, Own(1),
     Plan("other", 0, 0, TRUE)}
=============================================================================
