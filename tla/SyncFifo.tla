------------------------------ MODULE SyncFifo ------------------------------
(***************************************************************************)
(* The synchronous FIFO (caliptra_prim_fifo_sync with Pass = 0) that every *)
(* queue of the core is built on.  It lives in a submodule that is not     *)
(* part of the repository, so it is modelled from its instantiations in    *)
(* read_queue.sv, write_queue.sv and recovery_handler.sv: a registered     *)
(* FIFO whose outputs depend on its contents only, in which the            *)
(* synchronous clear wins over a push and a pop of the same clock.         *)
(***************************************************************************)
EXTENDS Naturals, Sequences

\* The outputs, functions of the contents q.
RValid(q) == q # <<>>
WReady(q, depth) == Len(q) < depth
Full(q, depth) == Len(q) = depth

\* One clock: clr_i, the offered words (<<>> when wvalid_i is low, <<w>> when
\* it is high) and rready_i.
FifoStep(q, depth, clr, offered, rready) ==
    IF clr THEN <<>>
    ELSE (IF rready /\ RValid(q) THEN Tail(q) ELSE q)
         \o (IF WReady(q, depth) THEN offered ELSE <<>>)
=============================================================================
