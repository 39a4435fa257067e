--------------------------- MODULE PrivateWriteMC ---------------------------
(* Model values for PrivateWrite. *)
EXTENDS PrivateWrite

\* Messages of no byte, of one word and of more, two with a wrong T-bit, the 7E
\* header alone, and a transfer to another target.
MCPlans == {Plan("ours", 0, 0), Plan("ours", 4, 0), Plan("ours", 5, 0),
            Plan("ours", 3, 2), Plan("ours", 5, 5), Plan("rsvd", 0, 0),
            Plan("other", 0, 0)}
=============================================================================
