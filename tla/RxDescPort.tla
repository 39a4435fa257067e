----------------------------- MODULE RxDescPort -----------------------------
(***************************************************************************)
(* The path on which software reads RX descriptors: the register block's   *)
(* external-access handshake (I3CCSR), the RX_DESC_QUEUE_PORT logic of     *)
(* tti.sv, the multiplexers R1MUX and R4SW of recovery_handler.sv, and     *)
(* read_queue.sv around the synchronous FIFO.  One step is one clock.      *)
(***************************************************************************)
EXTENDS SyncFifo

CONSTANTS Depth,        \* entries of the RX descriptor queue
          Word,         \* descriptors, opaque here
          Zero,         \* the all-zero word data_o shows when idle
          Recovery      \* TRUE: recovery transfers may take over the queue

ASSUME PortAssumption ==
    /\ Depth \in Nat \ {0}
    /\ Recovery \in BOOLEAN
    /\ Zero \notin Word

VARIABLES fifo,              \* contents of the queue
          fifo_rready,       \* read_queue: a word is wanted
          ack_o, data_o,     \* read_queue: registered answer
          reg_rst_we,        \* read_queue: the reset bit may be cleared
          RX_DESC_RST,       \* RESET_CONTROL.RX_DESC_RST
          external_pending,  \* I3CCSR: an external access is outstanding
          recovery_pending   \* recovery handler: the muxes point to recovery

vars == <<fifo, fifo_rready, ack_o, data_o, reg_rst_we, RX_DESC_RST,
          external_pending, recovery_pending>>

Init ==
    /\ fifo = <<>>
    /\ fifo_rready = FALSE
    /\ ack_o = FALSE
    /\ data_o = Zero
    /\ reg_rst_we = FALSE
    /\ RX_DESC_RST = FALSE
    /\ external_pending = FALSE
    /\ recovery_pending = FALSE

-----------------------------------------------------------------------------
\* The CPU side.  op is what the bus adapter presents in this clock; the
\* register block masks it while an external access is pending.
Op == {"none", "read", "reset"}
ReadStrobe(op) == op = "read" /\ ~external_pending

\* Mutant: the empty flag is not wired to the register port.
EmptyFlagTiedLow == FALSE

\* R1MUX shows "not empty" to tti.sv while recovery owns the queue.
rx_desc_queue_empty == ~recovery_pending /\ ~RValid(fifo)

\* Mutant: a read of an empty queue is swallowed.
EmptyNotAnswered(op) == FALSE
\* Mutant: the request reaches the queue although tti.sv has answered it.
ReqNotGatedByEmpty(op) == ReadStrobe(op) /\ ~recovery_pending

\* tti.sv: a read of an empty queue is answered at once with zero and is not
\* passed on; R4SW drops the request and the acknowledge in recovery.
AnswerEmpty(op) == ReadStrobe(op) /\ rx_desc_queue_empty
QueueReq(op) == ReadStrobe(op) /\ ~rx_desc_queue_empty /\ ~recovery_pending
rd_ack(op) == AnswerEmpty(op) \/ (ack_o /\ ~recovery_pending)

\* R4SW: the reset of the queue comes from software or from the executor.
QueueRst(exec_clr) == IF recovery_pending THEN exec_clr ELSE RX_DESC_RST

CpuInterface(op) ==
    external_pending' =
        IF ReadStrobe(op) /\ ~rd_ack(op) THEN TRUE
        ELSE external_pending /\ ~rd_ack(op)

\* A software write of the bit wins over the hardware clear.
ResetBit(op) ==
    RX_DESC_RST' = \/ op = "reset" /\ ~external_pending
                   \/ RX_DESC_RST /\ ~(reg_rst_we /\ ~recovery_pending)

\* Mutant: fifo_rready stays high after the word has been taken.
ReadQueueKeepsReady(op, rst) ==
    LET pop == fifo_rready /\ RValid(fifo) /\ ~rst
    IN  /\ fifo_rready' = (~rst /\ (fifo_rready \/ QueueReq(op)))
        /\ ack_o' = pop
        /\ data_o' = IF pop THEN Head(fifo) ELSE Zero
        /\ reg_rst_we' = (rst /\ ~RValid(fifo))

ReadQueue(op, rst) ==
    LET pop == fifo_rready /\ RValid(fifo) /\ ~rst
    IN  /\ fifo_rready' = (~rst /\ ~pop /\ (fifo_rready \/ QueueReq(op)))
        /\ ack_o' = pop
        /\ data_o' = IF pop THEN Head(fifo) ELSE Zero
        /\ reg_rst_we' = (rst /\ ~RValid(fifo))

\* A descriptor is pushed for one clock whether there is room or not.
Fifo(wdata, rst) ==
    fifo' = FifoStep(fifo, Depth, rst,
                     IF recovery_pending THEN <<>> ELSE wdata, fifo_rready)

Clock ==
    \E op \in Op, wdata \in {<<>>} \union {<<w>> : w \in Word},
       exec_clr \in BOOLEAN :
        /\ CpuInterface(op)
        /\ ResetBit(op)
        /\ ReadQueue(op, QueueRst(exec_clr))
        /\ Fifo(wdata, QueueRst(exec_clr))
        /\ recovery_pending' \in (IF Recovery THEN BOOLEAN ELSE {FALSE})

Next == Clock
Spec == Init /\ [][Next]_vars /\ WF_vars(Clock)

-----------------------------------------------------------------------------
TypeOK ==
    /\ fifo \in Seq(Word) /\ Len(fifo) <= Depth
    /\ fifo_rready \in BOOLEAN
    /\ ack_o \in BOOLEAN
    /\ data_o \in Word \union {Zero}
    /\ reg_rst_we \in BOOLEAN
    /\ RX_DESC_RST \in BOOLEAN
    /\ external_pending \in BOOLEAN
    /\ recovery_pending \in BOOLEAN

\* The access that the CPU waits for is no longer known to the queue.
Lost == external_pending /\ ~fifo_rready /\ ~ack_o

\* The assertion of the register block: no acknowledge strobe of the queue
\* without an access that waits for it, and never a second one.
AckHasOwner == ack_o => external_pending /\ ~fifo_rready

\* A descriptor is popped only for an access that waits for it.
PopHasOwner == fifo_rready => external_pending

\* An access is forgotten only in a clock in which a queue reset or a recovery
\* transfer is in progress: nothing else drops a read that was accepted.
LostOnlyByReset ==
    [][~Lost /\ Lost' => RX_DESC_RST \/ recovery_pending]_vars

\* An accepted read is answered, or one of those two has dropped it.
ReadAnswered == external_pending ~> (~external_pending \/ Lost)

\* The path implements the abstract read port, also when recovery transfers
\* come in between: a word leaves the queue in order, once, and only for the
\* one read that is outstanding (R4SW may then withhold it from that read).
Port == INSTANCE ReadPort WITH
            queue <- fifo,
            busy <- external_pending /\ ~ack_o,
            answer <- IF ack_o THEN <<data_o>> ELSE <<>>
ImplementsReadPort == Port!Spec
=============================================================================
