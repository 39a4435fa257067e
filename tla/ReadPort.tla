------------------------------ MODULE ReadPort ------------------------------
(***************************************************************************)
(* What a register port in front of a receive queue promises to software:  *)
(* a word leaves the queue only as the answer to the one outstanding read, *)
(* in the order in which words were written, or because the queue is       *)
(* cleared; a read never returns a word that was not at the head.          *)
(***************************************************************************)
EXTENDS Naturals, Sequences

CONSTANTS Depth,    \* entries of the queue
          Word      \* the words that are queued

VARIABLES queue,    \* the queued words
          busy,     \* a read is outstanding
          answer    \* <<w>> in the clock in which w is the answer, else <<>>

vars == <<queue, busy, answer>>

Written == {<<>>} \union {<<w>> : w \in Word}

Init == queue = <<>> /\ busy = FALSE /\ answer = <<>>

\* A clock in which no word is handed over: words may arrive while there is
\* room, a read may be accepted, and a read of an empty queue may be refused
\* without ever becoming outstanding.
Accept ==
    /\ \E w \in Written :
          /\ Len(queue \o w) <= Depth
          /\ queue' = queue \o w
    /\ busy' \in {busy, TRUE}
    /\ answer' = <<>>

\* The outstanding read takes the head.
Answer ==
    /\ busy
    /\ queue # <<>>
    /\ answer' = <<Head(queue)>>
    /\ busy' = FALSE
    /\ \E w \in Written : queue' = Tail(queue) \o w

Clear ==
    /\ queue' = <<>>
    /\ busy' \in {busy, TRUE}
    /\ answer' = <<>>

Next == Accept \/ Answer \/ Clear
Spec == Init /\ [][Next]_vars
=============================================================================
