-------------------------- MODULE RxDescPortProofs --------------------------
(***************************************************************************)
(* Invariance proofs for the RX descriptor port, for every queue depth,    *)
(* every set of descriptors and with or without recovery traffic.          *)
(***************************************************************************)
EXTENDS RxDescPort, SequenceTheorems, TLAPS

\* One clock of the FIFO keeps a bounded sequence of words bounded: a word is
\* only appended when there was room before the clock.
LEMMA FifoStepType ==
    ASSUME NEW q \in Seq(Word), Len(q) <= Depth,
           NEW clr \in BOOLEAN, NEW rready \in BOOLEAN,
           NEW offered \in {<<>>} \union {<<w>> : w \in Word}
    PROVE  /\ FifoStep(q, Depth, clr, offered, rready) \in Seq(Word)
           /\ Len(FifoStep(q, Depth, clr, offered, rready)) <= Depth
<1>1. /\ Depth \in Nat /\ Len(q) \in Nat
      /\ <<>> \in Seq(Word) /\ Len(<<>>) = 0
  BY PortAssumption, EmptySeq
<1>2. PICK popped \in Seq(Word) :
        /\ Len(popped) <= Len(q)
        /\ popped = IF rready /\ RValid(q) THEN Tail(q) ELSE q
  <2>1. CASE rready /\ RValid(q)
    <3>1. Tail(q) \in Seq(Word) /\ Len(Tail(q)) = Len(q) - 1
      BY <2>1, HeadTailProperties DEF RValid
    <3>2. Len(Tail(q)) <= Len(q) BY <3>1, <1>1
    <3> QED BY <2>1, <3>1, <3>2, Zenon
  <2>2. CASE ~(rready /\ RValid(q))
    <3>1. Len(q) <= Len(q) BY <1>1
    <3> QED BY <2>2, <3>1, Zenon
  <2> QED BY <2>1, <2>2
<1>3. PICK pushed \in Seq(Word) :
        /\ Len(pushed) = 0 \/ (Len(pushed) = 1 /\ Len(q) < Depth)
        /\ pushed = IF WReady(q, Depth) THEN offered ELSE <<>>
  <2>1. CASE WReady(q, Depth) /\ offered # <<>>
    <3>1. PICK w \in Word : offered = <<w>> BY <2>1
    <3>2. offered \in Seq(Word) /\ Len(offered) = 1 BY <3>1
    <3>3. Len(q) < Depth BY <2>1 DEF WReady
    <3> QED BY <2>1, <3>2, <3>3, Zenon
  <2>2. CASE ~WReady(q, Depth) \/ offered = <<>>
    BY <2>2, <1>1, Zenon
  <2> QED BY <2>1, <2>2
<1>4. /\ popped \o pushed \in Seq(Word)
      /\ Len(popped \o pushed) = Len(popped) + Len(pushed)
  BY ConcatProperties
<1>5. Len(popped \o pushed) <= Depth
  <2>1. Len(popped) \in Nat /\ Len(pushed) \in Nat BY LenProperties
  <2>2. \A a, b, c, d \in Nat :
           a <= c /\ c <= d /\ (b = 0 \/ (b = 1 /\ c < d)) => a + b <= d
    OBVIOUS
  <2>3. Len(popped) + Len(pushed) <= Depth
    BY <2>1, <2>2, <1>1, <1>2, <1>3, Zenon
  <2> QED BY <2>3, <1>4, Zenon
<1>6. CASE clr BY <1>1, <1>6 DEF FifoStep
<1>7. CASE ~clr
  <2>1. FifoStep(q, Depth, clr, offered, rready) = popped \o pushed
    BY <1>7, <1>2, <1>3 DEF FifoStep
  <2> QED BY <2>1, <1>4, <1>5
<1> QED BY <1>6, <1>7

\* The inductive invariant: types, and both ownership facts, which depend on
\* each other (an acknowledge appears where a pop was pending).
IInv == TypeOK /\ AckHasOwner /\ PopHasOwner

LEMMA InitIInv == Init => IInv
<1>1. <<>> \in Seq(Word) /\ Len(<<>>) = 0 BY EmptySeq
<1>2. 0 <= Depth BY PortAssumption
<1> QED BY <1>1, <1>2 DEF Init, IInv, TypeOK, AckHasOwner, PopHasOwner

LEMMA NextIInv == IInv /\ [Next]_vars => IInv'
<1> SUFFICES ASSUME IInv, [Next]_vars PROVE IInv'
  OBVIOUS
<1>1. CASE UNCHANGED vars
  BY <1>1 DEF IInv, TypeOK, AckHasOwner, PopHasOwner, vars
<1>2. CASE Clock
  <2> PICK op \in Op, wdata \in {<<>>} \union {<<w>> : w \in Word},
           exec_clr \in BOOLEAN :
        /\ CpuInterface(op)
        /\ ResetBit(op)
        /\ ReadQueue(op, QueueRst(exec_clr))
        /\ Fifo(wdata, QueueRst(exec_clr))
        /\ recovery_pending' \in (IF Recovery THEN BOOLEAN ELSE {FALSE})
    BY <1>2 DEF Clock
  <2>1. TypeOK'
    <3>1. fifo' \in Seq(Word) /\ Len(fifo') <= Depth
      <4> DEFINE offered == IF recovery_pending THEN <<>> ELSE wdata
      <4>1. offered \in {<<>>} \union {<<w>> : w \in Word} OBVIOUS
      <4>2. QueueRst(exec_clr) \in BOOLEAN BY DEF QueueRst, IInv, TypeOK
      <4>3. fifo' = FifoStep(fifo, Depth, QueueRst(exec_clr), offered, fifo_rready)
        BY DEF Fifo
      <4> QED BY <4>1, <4>2, <4>3, FifoStepType DEF IInv, TypeOK
    <3>2. data_o' \in Word \union {Zero}
      BY DEF ReadQueue, RValid, IInv, TypeOK
    <3>3. /\ fifo_rready' \in BOOLEAN /\ ack_o' \in BOOLEAN
          /\ reg_rst_we' \in BOOLEAN
      BY DEF ReadQueue
    <3>4. external_pending' \in BOOLEAN /\ RX_DESC_RST' \in BOOLEAN
      BY DEF CpuInterface, ResetBit, IInv, TypeOK
    <3>5. recovery_pending' \in BOOLEAN BY PortAssumption
    <3> QED BY <3>1, <3>2, <3>3, <3>4, <3>5 DEF TypeOK
  <2>2. AckHasOwner'
    BY DEF AckHasOwner, PopHasOwner, IInv, TypeOK, ReadQueue, CpuInterface,
           rd_ack, AnswerEmpty, ReadStrobe
  <2>3. PopHasOwner'
    BY DEF AckHasOwner, PopHasOwner, IInv, TypeOK, ReadQueue, CpuInterface,
           rd_ack, AnswerEmpty, ReadStrobe, QueueReq
  <2> QED BY <2>1, <2>2, <2>3 DEF IInv
<1> QED BY <1>1, <1>2 DEF Next

LEMMA PortInvariance == Spec => []IInv
BY InitIInv, NextIInv, PTL DEF Spec

\* Every acknowledge belongs to the access that the CPU waits for (I3CCSR's
\* assertion).
THEOREM AcksOwned == Spec => []AckHasOwner
<1>1. IInv => AckHasOwner
  BY DEF IInv
<1> QED BY <1>1, PortInvariance, PTL

\* Every word that leaves the queue for software was asked for by an access
\* that still waits for it (read_queue.sv, tti.sv).
THEOREM PopsOwned == Spec => []PopHasOwner
<1>1. IInv => PopHasOwner
  BY DEF IInv
<1> QED BY <1>1, PortInvariance, PTL

\* An accepted read is forgotten only in a clock in which a queue reset or a
\* recovery transfer is in progress (read_queue.sv, R4SW).
THEOREM ReadDropped == Spec => LostOnlyByReset
<1>1. IInv /\ [Next]_vars =>
        [~Lost /\ Lost' => RX_DESC_RST \/ recovery_pending]_vars
  <2> SUFFICES ASSUME IInv, Next, ~Lost, ~RX_DESC_RST, ~recovery_pending
               PROVE ~Lost'
    BY DEF vars
  <2> PICK op \in Op, exec_clr \in BOOLEAN :
        /\ CpuInterface(op)
        /\ ReadQueue(op, QueueRst(exec_clr))
    BY DEF Next, Clock
  <2>1. ~QueueRst(exec_clr) BY DEF QueueRst
  <2> QED
    BY <2>1 DEF Lost, IInv, TypeOK, AckHasOwner, PopHasOwner, ReadQueue,
       CpuInterface, rd_ack, AnswerEmpty, ReadStrobe, QueueReq,
       rx_desc_queue_empty
<1> QED BY <1>1, InitIInv, NextIInv, PTL DEF Spec, LostOnlyByReset

-----------------------------------------------------------------------------
(***************************************************************************)
(* The refinement: a clock is an answer, a clear or an acceptance of the   *)
(* abstract port.                                                          *)
(***************************************************************************)
LEMMA InitPort == Init => Port!Init
BY DEF Init, Port!Init

LEMMA ClockPort ==
    ASSUME IInv, IInv', Clock
    PROVE  Port!Next
<1> PICK op \in Op, wdata \in {<<>>} \union {<<w>> : w \in Word},
         exec_clr \in BOOLEAN :
      /\ CpuInterface(op)
      /\ ReadQueue(op, QueueRst(exec_clr))
      /\ Fifo(wdata, QueueRst(exec_clr))
  BY DEF Clock
<1> DEFINE rst == QueueRst(exec_clr)
           pop == fifo_rready /\ RValid(fifo) /\ ~rst
           room == IF recovery_pending \/ ~WReady(fifo, Depth) THEN <<>> ELSE wdata
<1>1. room \in Port!Written
  BY DEF Port!Written
<1>2. /\ ack_o' = pop
      /\ data_o' = IF pop THEN Head(fifo) ELSE Zero
  BY DEF ReadQueue
<1>3. fifo' = IF rst THEN <<>>
              ELSE (IF fifo_rready /\ RValid(fifo) THEN Tail(fifo) ELSE fifo) \o room
  <2>1. (IF WReady(fifo, Depth) THEN IF recovery_pending THEN <<>> ELSE wdata
         ELSE <<>>) = room
    OBVIOUS
  <2> HIDE DEF room
  <2> QED BY <2>1 DEF Fifo, FifoStep
<1> HIDE DEF room, rst
<1>4. CASE pop
  <2>1. external_pending /\ ~ack_o
    BY <1>4 DEF IInv, AckHasOwner, PopHasOwner
  <2>2. fifo # <<>> /\ fifo' = Tail(fifo) \o room
    BY <1>3, <1>4 DEF RValid
  <2>3. ack_o' /\ data_o' = Head(fifo)
    BY <1>2, <1>4
  <2> QED BY <1>1, <2>1, <2>2, <2>3 DEF Port!Next, Port!Answer
<1>5. CASE ~pop
  <2>1. ~ack_o'
    BY <1>2, <1>5
  <2>2. (external_pending /\ ~ack_o)' \in {external_pending /\ ~ack_o, TRUE}
    <3>1. CASE external_pending /\ ~ack_o
      BY <2>1, <3>1 DEF CpuInterface, ReadStrobe, rd_ack, AnswerEmpty
    <3>2. CASE ~(external_pending /\ ~ack_o)
      BY <2>1, <3>2 DEF IInv, TypeOK
    <3> QED BY <3>1, <3>2
  <2>3. CASE rst
    <3>1. fifo' = <<>>
      BY <1>3, <2>3
    <3> QED BY <2>1, <2>2, <3>1 DEF Port!Next, Port!Clear
  <2>4. CASE ~rst
    <3>1. fifo' = fifo \o room
      BY <1>3, <1>5, <2>4
    <3>2. Len(fifo \o room) <= Depth
      BY <3>1 DEF IInv, TypeOK
    <3> QED BY <1>1, <2>1, <2>2, <3>1, <3>2 DEF Port!Next, Port!Accept
  <2> QED BY <2>3, <2>4
<1> QED BY <1>4, <1>5

\* The path through register block, tti.sv, R4SW and read_queue.sv implements
\* the abstract read port: words are answered once, in order, to the one read
\* that is outstanding.
THEOREM PortImplements == Spec => ImplementsReadPort
<1>1. IInv /\ IInv' /\ [Next]_vars => [Port!Next]_Port!vars
  <2>1. CASE UNCHANGED vars
    BY <2>1 DEF vars, Port!vars
  <2>2. ASSUME IInv, IInv', Next PROVE Port!Next
    BY <2>2, ClockPort DEF Next
  <2> QED BY <2>1, <2>2
<1> QED BY <1>1, InitIInv, NextIInv, InitPort, PTL
        DEF Spec, ImplementsReadPort, Port!Spec
=============================================================================
