--------------------------- MODULE TtiInterrupts ---------------------------
(***************************************************************************)
(* The interrupts of the target transaction interface (tti.sv, interrupt.sv)*)
(* and the thresholds of its descriptor queues, in front of the RX          *)
(* descriptor port of RxDescPort, with the firmware agents of the tests     *)
(* (rx_agent, test_ibi_done, test_interrupt_force, the threshold tests) on  *)
(* the register side.  One step is one clock; the software is sequential    *)
(* and makes at most one access in a clock.                                 *)
(***************************************************************************)
EXTENDS Bus2Csr, Sequences

CONSTANTS Depth,       \* entries of the RX descriptor queue
          TxDepth,     \* entries of the TX descriptor queue
          Programs     \* what the software may be, see Program

\* An operation of a program: set a field (write_csr_field), check it (a field
\* read and an assertion), access a register, wait for a level of irq_o, or
\* rest until the thresholds have been written back.
Operation(do, reg, field, data) ==
    [do |-> do, reg |-> reg, field |-> field, data |-> data]
\* own: the interrupts that the program is about; again: where it loops, or 0.
Program(own, ops, again) == [own |-> own, ops |-> ops, again |-> again]

ASSUME DepthAssumption ==
    /\ Depth \in 2 .. 255 /\ TxDepth \in 2 .. 255
    /\ \A p \in Programs : p.ops # <<>> /\ p.again \in 0 .. Len(p.ops)

VARIABLES
    \* RxDescPort
    fifo, fifo_rready, ack_o, data_o, reg_rst_we, RX_DESC_RST,
    external_pending, recovery_pending,
    write_r,        \* rx_desc_queue_write_r
    irq_r, trg,     \* the edge detectors: sets of interrupts
    swmod_q, thld_we,  \* the write-back of the thresholds
    ready_thld_o,   \* the thresholds that the queues use
    csr,            \* the registers
    program, pc, got,  \* the software; got: the word of a read-modify-write
    requested,      \* the thresholds that the software asked for last
    crossed,        \* the level has reached the threshold, and nobody has read
                    \* a descriptor or written an interrupt register since
    unpaced         \* an event came while the program was not waiting for one

port == <<fifo, fifo_rready, ack_o, data_o, reg_rst_we, RX_DESC_RST,
          external_pending, recovery_pending>>
cells == <<write_r, irq_r, trg>>
thresholds == <<swmod_q, thld_we, ready_thld_o>>
software == <<program, pc, got>>
vars == <<port, cells, thresholds, csr, software, requested, crossed, unpaced>>

P == INSTANCE RxDescPort WITH Word <- {"desc"}, Zero <- "zero", Recovery <- FALSE

Regs == [INTERRUPT_STATUS |-> INTERRUPT_STATUS, INTERRUPT_ENABLE |-> INTERRUPT_ENABLE,
         INTERRUPT_FORCE |-> INTERRUPT_FORCE, QUEUE_THLD_CTRL |-> QUEUE_THLD_CTRL]

Thlds == {"TX_DESC_THLD", "RX_DESC_THLD"}
None == "none"

\* The interrupt cells xintr0 to xintr5, at the same bit of all three registers.
Cells == {"RX_DESC_STAT", "RX_DESC_THLD_STAT", "RX_DATA_THLD_STAT", "IBI_DONE",
          "TX_DESC_COMPLETE", "TX_DESC_STAT"}
CellBit(c) == INTERRUPT_STATUS.fields[c].bits
In(r) == {c \in Cells : CellBit(c) \subseteq csr[r]}
Status == In("INTERRUPT_STATUS")
Enabled == In("INTERRUPT_ENABLE")
Forced == In("INTERRUPT_FORCE")

irq_o == Status # {}

-----------------------------------------------------------------------------
(* The hardware. *)

\* A word of eight bits as a number, and the value of a threshold.
Number(w) ==
    LET bit(b) == IF b \in w THEN 2^b ELSE 0
    IN bit(0) + bit(1) + bit(2) + bit(3) + bit(4) + bit(5) + bit(6) + bit(7)
Thld(t) == Number(FieldOf(QUEUE_THLD_CTRL.fields[t], csr.QUEUE_THLD_CTRL))

\* populate_thld with LimitReadyThld, without ThldIsPow.
Entries(t) == IF t = "RX_DESC_THLD" THEN Depth ELSE TxDepth
Limited(t, n) == IF n >= Entries(t) THEN Entries(t) - 1 ELSE n

\* The mutant waits for one entry more.
ready_thld_trig_above ==
    /\ ready_thld_o["RX_DESC_THLD"] # 0
    /\ Len(fifo) > ready_thld_o["RX_DESC_THLD"]
ready_thld_trig ==
    /\ ready_thld_o["RX_DESC_THLD"] # 0
    /\ Len(fifo) >= ready_thld_o["RX_DESC_THLD"]

\* irq_i of the cells; the events of the other queues and of the bus are pulses.
irq_i(pulses) ==
    pulses \union (IF write_r THEN {"RX_DESC_STAT"} ELSE {})
           \union (IF write_r /\ ready_thld_trig THEN {"RX_DESC_THLD_STAT"} ELSE {})

\* clr_i: reads of the descriptor port, of RX_DATA_PORT and of STATUS.  The
\* mutant forgets the first.
clr_not_desc(reg) ==
    (IF reg = "RX_DATA_PORT" THEN {"RX_DATA_THLD_STAT"} ELSE {})
    \union (IF reg = "STATUS" THEN {"IBI_DONE"} ELSE {})
clr_i(reg) ==
    (IF P!rd_ack("none") THEN {"RX_DESC_STAT", "RX_DESC_THLD_STAT"} ELSE {})
    \union (IF reg = "RX_DATA_PORT" THEN {"RX_DATA_THLD_STAT"} ELSE {})
    \union (IF reg = "STATUS" THEN {"IBI_DONE"} ELSE {})

\* sts_we_o and sts_o: a trigger wins over a clear.  The mutant ignores the
\* enable.
StatusHw_ungated(reg) ==
    [c \in trg \union clr_i(reg) |-> IF c \in trg THEN CellBit(c) ELSE {}]
StatusHw(reg) ==
    LET set == trg \intersect Enabled
    IN [c \in set \union clr_i(reg) |-> IF c \in set THEN CellBit(c) ELSE {}]

\* Mutant: the write-back comes with the clock after the write.
thld_hw_early ==
    IF swmod_q
    THEN [t \in Thlds |-> Place(QUEUE_THLD_CTRL.fields[t], Bits(ready_thld_o[t]))]
    ELSE NoHw
thld_hw ==
    IF thld_we
    THEN [t \in Thlds |-> Place(QUEUE_THLD_CTRL.fields[t], Bits(ready_thld_o[t]))]
    ELSE NoHw

HwWrites(r, reg) ==
    CASE r = "INTERRUPT_STATUS" -> StatusHw(reg)
      [] r = "QUEUE_THLD_CTRL" -> thld_hw
      [] OTHER -> NoHw

\* One clock: access a of the software to register reg, a descriptor that ends
\* (wdata) and the events of other components.
Hardware(reg, a, wdata, pulses) ==
    LET op == IF reg = "RX_DESC_QUEUE_PORT" THEN "read" ELSE "none"
        written == wdata # <<>> /\ P!WReady(fifo, Depth)
        irq == irq_i(pulses) \union Forced
    IN /\ P!CpuInterface(op) /\ P!ResetBit(op)
       /\ P!ReadQueue(op, P!QueueRst(FALSE)) /\ P!Fifo(wdata, P!QueueRst(FALSE))
       /\ UNCHANGED recovery_pending
       /\ write_r' = written
       /\ irq_r' = irq
       /\ trg' = irq \ irq_r
       /\ swmod_q' = (reg = "QUEUE_THLD_CTRL" /\ a.op = "write")
       /\ thld_we' = swmod_q
       /\ ready_thld_o' = [t \in Thlds |-> Limited(t, Thld(t))]
       /\ csr' = [r \in DOMAIN Regs |->
                    RegNext(Regs[r], csr[r], IF r = reg THEN a ELSE NoAccess,
                            HwWrites(r, reg))]

-----------------------------------------------------------------------------
(* The software. *)

RxStats == {"RX_DESC_STAT", "RX_DESC_THLD_STAT"}
NoOperation == Operation(None, None, None, {})
Current == IF pc \in 1 .. Len(program.ops) THEN program.ops[pc] ELSE NoOperation
Failed == 0
Waiting == Current.do = "irq" /\ Current.data = {0}

\* Events of the interrupts that the program is about, not dealt with yet.
Outstanding ==
    \/ program.own \intersect (irq_r \union trg \union Status) # {}
    \/ program.own \intersect RxStats # {} /\ (write_r \/ fifo # <<>>)

Init ==
    /\ P!Init
    /\ write_r = FALSE /\ irq_r = {} /\ trg = {}
    /\ swmod_q = FALSE /\ thld_we = FALSE
    /\ csr = [r \in DOMAIN Regs |-> CHOOSE w \in ResetWords(Regs[r]) : TRUE]
    /\ ready_thld_o = [t \in Thlds |-> 1]  \* one clock after reset
    /\ program \in Programs /\ pc = 1 /\ got = {}
    /\ requested = [t \in DOMAIN QUEUE_THLD_CTRL.fields |-> {0}]
    /\ crossed = FALSE /\ unpaced = FALSE

\* A clock in which the software makes access a to register reg.  Descriptors
\* end messages (descriptor_rx), so they are never written in two clocks in a row.
Clock(reg, a) ==
    \E wdata \in {<<>>} \union (IF write_r THEN {} ELSE {<<"desc">>}),
       pulses \in SUBSET (program.own \ RxStats) :
        /\ Hardware(reg, a, wdata, pulses)
        /\ crossed' =
              IF ack_o \/ a.op = "write" \/ RX_DESC_RST THEN FALSE
              ELSE \/ crossed
                   \/ /\ write_r' /\ ready_thld_o'["RX_DESC_THLD"] # 0
                      /\ Len(fifo') >= ready_thld_o'["RX_DESC_THLD"]
                      /\ "RX_DESC_THLD_STAT" \in Enabled \ Forced
        /\ unpaced' =
              \/ unpaced
              \/ /\ \/ pulses # {}
                    \/ write_r' /\ program.own \intersect RxStats # {}
                 /\ ~Waiting \/ Outstanding

Advance == pc' = IF pc = Len(program.ops) /\ program.again # 0
                 THEN program.again ELSE pc + 1

\* An access takes its time on the bus, and so does the program between two.
Idle == /\ ~external_pending
        /\ Clock(None, NoAccess)
        /\ UNCHANGED <<software, requested>>

\* write_csr_field: the read, and then the write of the whole word.
SetRead ==
    /\ Current.do = "set" /\ got = {}
    /\ Clock(Current.reg, Read)
    /\ got' = {ReadData(Regs[Current.reg], csr[Current.reg])}
    /\ UNCHANGED <<program, pc, requested>>

SetWrite ==
    LET f == Regs[Current.reg].fields[Current.field]
    IN /\ Current.do = "set" /\ got # {}
       /\ Clock(Current.reg, Write(WithField(f, UNION got, Current.data)))
       /\ got' = {}
       /\ requested' = IF Current.reg = "QUEUE_THLD_CTRL"
                       THEN [requested EXCEPT ![Current.field] = Current.data]
                       ELSE requested
       /\ Advance
       /\ UNCHANGED program

\* read_csr_field and the assertion on it.
CheckField ==
    LET r == Regs[Current.reg]
    IN /\ Current.do = "check"
       /\ Clock(Current.reg, Read)
       /\ IF FieldOf(r.fields[Current.field], ReadData(r, csr[Current.reg])) = Current.data
          THEN Advance ELSE pc' = Failed
       /\ UNCHANGED <<program, got, requested>>

\* A read of the descriptor port ends with the acknowledge.
ReadPort ==
    LET reg == IF external_pending THEN None ELSE "RX_DESC_QUEUE_PORT"
        op == IF external_pending THEN "none" ELSE "read"
    IN /\ Current.do = "access" /\ Current.reg = "RX_DESC_QUEUE_PORT"
       /\ Clock(reg, IF external_pending THEN NoAccess ELSE Read)
       /\ IF P!rd_ack(op) THEN Advance ELSE UNCHANGED pc
       /\ UNCHANGED <<program, got, requested>>

\* A read of STATUS or of RX_DATA_PORT.
ReadOther ==
    /\ Current.do = "access" /\ Current.reg # "RX_DESC_QUEUE_PORT"
    /\ Clock(Current.reg, Read)
    /\ Advance
    /\ UNCHANGED <<program, got, requested>>

WaitIrq ==
    /\ Current.do = "irq" /\ irq_o = Waiting
    /\ Clock(None, NoAccess)
    /\ Advance
    /\ UNCHANGED <<program, got, requested>>

\* The assertion that irq_o is low.
StaysLow ==
    /\ Current.do = "low"
    /\ Clock(None, NoAccess)
    /\ IF irq_o THEN pc' = Failed ELSE Advance
    /\ UNCHANGED <<program, got, requested>>

\* ClockCycles(5): longer than the write-back takes.
Rest ==
    /\ Current.do = "rest" /\ ~swmod_q /\ ~thld_we
    /\ Clock(None, NoAccess)
    /\ Advance
    /\ UNCHANGED <<program, got, requested>>

Software == \/ SetRead \/ SetWrite \/ CheckField \/ ReadPort \/ ReadOther
            \/ WaitIrq \/ StaysLow \/ Rest
Next == Idle \/ Software

\* The clock runs and the software goes on; nothing has to happen on the bus
\* while the software does not wait for it.
Spec == /\ Init /\ [][Next]_vars
        /\ WF_vars(Idle /\ UNCHANGED unpaced) /\ WF_vars(Software)

-----------------------------------------------------------------------------
(* Properties. *)

\* A field write of QUEUE_THLD_CTRL changes the threshold that it names, up to
\* the depth of the queue, and no other: neither the read-modify-write nor the
\* write-back of two thresholds, which answers a write of any of the three,
\* brings an older value back (tti.sv, populate_thld).
ThresholdsKept ==
    ~swmod_q /\ ~thld_we =>
        /\ \A t \in Thlds : /\ Thld(t) = Limited(t, Number(requested[t]))
                            /\ ready_thld_o[t] = Thld(t)
        /\ FieldOf(QUEUE_THLD_CTRL.fields["IBI_THLD"], csr.QUEUE_THLD_CTRL)
              = requested["IBI_THLD"]

\* A descriptor that brings the level to the threshold is noticed: once its
\* write and its edge have passed, RX_DESC_THLD_STAT is set unless a descriptor
\* has been read since or the software has written a register (tti.sv aligns
\* the write strobe with the level for this).
CrossingNoticed ==
    crossed /\ ~write_r /\ "RX_DESC_THLD_STAT" \notin trg
        => "RX_DESC_THLD_STAT" \in Status

\* No assertion of a test fails, as long as every event comes when the program
\* waits for one and has dealt with the one before.
AssertionsHold == ~unpaced => pc # Failed

\* Such a program serves every event: it reads the descriptor or the status,
\* sees the interrupt go and waits for the next.
EventsServed ==
    program.again # 0 /\ program.own # {} /\ Outstanding
        ~> unpaced \/ (Waiting /\ ~Outstanding)
=============================================================================
