----------------------------- MODULE BypassBoot -----------------------------
(***************************************************************************)
(* The streaming boot over AXI: with REC_INTF_BYPASS the recovery handler  *)
(* takes the firmware image from the TTI TX data queue, the executor moves *)
(* it into the indirect FIFO, and software reads it from there.  Two       *)
(* processors share the one register port of I3CCSR: the MCU, which pushes *)
(* images word by word, and the root of trust (RoT), which reads them.     *)
(* One step is one clock.  Recovery mode is on throughout.                 *)
(***************************************************************************)
EXTENDS SyncFifo, Integers

CONSTANTS
    Depth,       \* words of the indirect FIFO and of a chunk (64)
    TxDepth,     \* words of the TTI TX data queue
    Images,      \* lengths of images, in words
    Pause,       \* clocks between dependent accesses of one processor
    WaitsFor     \* "EMPTY" or "FULL": which status bit the MCU polls

\* The executor counts a chunk down in a register of 16 bits.
ASSUME BypassAssumption ==
    /\ Depth \in Nat /\ Depth >= 2 /\ Depth < 65536
    /\ TxDepth \in Nat \ {0, 1}
    /\ Images \subseteq Nat \ {0} /\ Pause \in Nat
    /\ WaitsFor \in {"EMPTY", "FULL"}

VARIABLES
    tx_wdata, tx_ack, tx_queue,    \* write_queue: the TTI TX data queue
    exec, dcnt, rreq,              \* recovery_executor
    exec_ready,                    \* exec_tti_rx_data_ready
    ind_queue, ind_rready, ind_ack,    \* read_queue: the indirect FIFO
    allow_write, allow_read,       \* allow_indirect_write and _read
    full_r, empty_r, FULL, EMPTY,  \* INDIRECT_FIFO_STATUS_0
    WRITE_INDEX, READ_INDEX,
    payload_available,
    PAYLOAD_DONE,                  \* REC_INTF_CFG.REC_PAYLOAD_DONE
    activate,                      \* [swmod, value] of ACTIVATE_REC_IMG = 0xF
    reset,                         \* [swmod, value, clear] of RESET = 1
    external_pending,
    \* software
    mcu, rot,                      \* what each is doing
    mcu_left, mcu_chunk, mcu_next, \* words to send of the image, of the chunk,
    rot_left, rot_chunk, rot_next, \* and to read, and the number of the next
                                   \* (of rot, to arrive)
    calm                           \* clocks since each last used the port

txVars == <<tx_wdata, tx_ack, tx_queue>>
execVars == <<exec, dcnt, rreq, exec_ready>>
indVars == <<ind_queue, ind_rready, ind_ack, allow_write, allow_read, full_r,
             empty_r, FULL, EMPTY, WRITE_INDEX, READ_INDEX>>
csrVars == <<payload_available, PAYLOAD_DONE, activate, reset, external_pending>>
swVars == <<mcu, rot, mcu_left, mcu_chunk, mcu_next, rot_left, rot_chunk,
            rot_next, calm>>
vars == <<txVars, execVars, indVars, csrVars, swVars>>

Users == {"mcu", "rot"}
\* Words are told apart by their number in the stream of all images.
Numbers == 2 * Depth + 1

Init ==
    /\ tx_wdata = <<>> /\ tx_ack = FALSE /\ tx_queue = <<>>
    /\ exec = "FifoWrite" /\ dcnt = Depth /\ rreq = FALSE /\ exec_ready = TRUE
    /\ ind_queue = <<>> /\ ind_rready = FALSE /\ ind_ack = <<>>
    /\ allow_write = TRUE /\ allow_read = FALSE
    /\ full_r = FALSE /\ empty_r = TRUE /\ FULL = FALSE /\ EMPTY = TRUE
    /\ WRITE_INDEX = 0 /\ READ_INDEX = 0
    /\ payload_available = FALSE /\ PAYLOAD_DONE = FALSE
    /\ activate = [swmod |-> FALSE, value |-> FALSE]
    /\ reset = [swmod |-> FALSE, value |-> FALSE, clear |-> FALSE]
    /\ external_pending = FALSE
    /\ mcu = "begin" /\ mcu_left = 0 /\ mcu_chunk = 0 /\ mcu_next = 0
    /\ rot = "awaits" /\ rot_left = 0 /\ rot_chunk = 0 /\ rot_next = 0
    /\ calm = [u \in Users |-> Pause]

-----------------------------------------------------------------------------
ind_full == Len(ind_queue) = Depth
ind_empty == ind_queue = <<>>

\* An access in this clock: who does what, and the word that is written.
None == [user |-> "none", op |-> "none", word |-> 0]

\* tti.sv: a write to a full queue is acknowledged at once and dropped; in
\* bypass mode "full" is the indirect FIFO's.
TxDropped(a) == a.op = "TX_DATA_PORT" /\ ind_full
TxReq(a) == a.op = "TX_DATA_PORT" /\ ~ind_full /\ allow_write

TxQueue(a) ==
    LET push == tx_wdata # <<>> /\ WReady(tx_queue, TxDepth)
    IN  /\ tx_wdata' = IF push THEN <<>>
                       ELSE IF TxReq(a) THEN <<a.word>> ELSE tx_wdata
        /\ tx_ack' = push
        /\ tx_queue' = FifoStep(tx_queue, TxDepth, FALSE, tx_wdata, exec_ready)

\* R3MUX: the executor takes "a word is there" for an acknowledge.
rack == RValid(tx_queue)

\* Mutant: the queue is ready for one clock only.
ExecReadyOnce == exec_ready' = rreq
ExecReady == exec_ready' = (rreq \/ (exec_ready /\ ~rack))

\* Mutant: PAYLOAD_DONE does not end a short chunk.
ChunkEndsFull == rack /\ dcnt = 1
ChunkEnds == (rack /\ dcnt = 1) \/ (PAYLOAD_DONE /\ ~ind_empty)
bypass_xfer_done == exec = "FifoWrite" /\ ChunkEnds

\* One less, in the 16 bits of dcnt.
Down(d) == (d + 65535) % 65536

\* The command that bypass mode holds before the executor writes a chunk to
\* INDIRECT_FIFO_DATA, again and again.
Executor ==
    /\ exec' = CASE exec = "Idle" -> "FifoWrite"
                 [] exec = "FifoWrite" -> IF ChunkEnds THEN "Done" ELSE exec
                 [] exec = "Done" -> "Idle"
    /\ dcnt' = CASE exec = "Idle" -> Depth
                 [] exec = "FifoWrite" /\ rack -> Down(dcnt)
                 [] OTHER -> dcnt
    /\ rreq' = CASE exec = "Idle" -> TRUE
                 [] exec = "FifoWrite" -> rack /\ dcnt # 1
                 [] OTHER -> FALSE

ind_wvalid == exec = "FifoWrite" /\ rack
\* The register port of INDIRECT_FIFO_DATA.
RdEmpty(a) == a.op = "INDIRECT_FIFO_DATA" /\ empty_r
RdReq(a) == a.op = "INDIRECT_FIFO_DATA" /\ ~empty_r /\ allow_read

IndirectFifo(a) ==
    LET pop == ind_rready /\ RValid(ind_queue) /\ ~reset.value
    IN  /\ ind_queue' = FifoStep(ind_queue, Depth, reset.value,
                                 IF ind_wvalid THEN <<Head(tx_queue)>> ELSE <<>>,
                                 ind_rready)
        /\ ind_rready' = (~reset.value /\ ~pop /\ (ind_rready \/ RdReq(a)))
        /\ ind_ack' = IF pop THEN <<Head(ind_queue)>> ELSE <<>>

\* Mutant: the permissions do not change when a short chunk is complete.
PermissionsFullOnly ==
    /\ allow_write' = (ind_empty \/ (allow_write /\ ~ind_full))
    /\ allow_read' = (~ind_empty /\ (allow_read \/ ind_full))
\* The FIFO is filled and emptied in turns.
Permissions ==
    /\ allow_write' =
          (ind_empty \/ (allow_write /\ ~(ind_full \/ payload_available)))
    /\ allow_read' =
          (~ind_empty /\ (allow_read \/ ind_full \/ payload_available))

\* Mutant: a word that is read is counted when it is requested.
IndicesEarly ==
    /\ WRITE_INDEX' = IF reset.value THEN 0
                      ELSE IF ind_wvalid THEN (WRITE_INDEX + 1) % Depth
                      ELSE WRITE_INDEX
    /\ READ_INDEX' = IF reset.value THEN 0
                     ELSE IF ind_rready THEN (READ_INDEX + 1) % Depth
                     ELSE READ_INDEX
Indices ==
    /\ WRITE_INDEX' = IF reset.value THEN 0
                      ELSE IF ind_wvalid THEN (WRITE_INDEX + 1) % Depth
                      ELSE WRITE_INDEX
    /\ READ_INDEX' = IF reset.value THEN 0
                     ELSE IF ind_ack # <<>> THEN (READ_INDEX + 1) % Depth
                     ELSE READ_INDEX

StatusBits ==
    /\ full_r' = ind_full /\ empty_r' = ind_empty
    /\ FULL' = IF ind_full # full_r THEN ind_full ELSE FULL
    /\ EMPTY' = IF ind_empty # empty_r THEN ind_empty ELSE EMPTY

\* Mutant: the pin rises with the last word that is still to come.
PayloadPinEarly ==
    payload_available' = ((exec = "FifoWrite" /\ dcnt = 1) \/ PAYLOAD_DONE
                          \/ activate.value
                          \/ (payload_available /\ ~ind_empty))
PayloadPin ==
    payload_available' = (bypass_xfer_done \/ PAYLOAD_DONE \/ activate.value
                          \/ (payload_available /\ ~ind_empty))

\* Software writes; the executor clears PAYLOAD_DONE, and writes of the W1C
\* bypass register reach RECOVERY_CTRL and INDIRECT_FIFO_CTRL a clock later.
ControlBits(a) ==
    /\ PAYLOAD_DONE' =
          CASE a.op = "PAYLOAD_DONE" -> TRUE
            [] a.op = "REC_INTF_CFG" -> FALSE
            [] OTHER -> PAYLOAD_DONE /\ ~(ind_full \/ (activate.value /\ ~ind_empty))
    /\ activate' = [swmod |-> a.op = "ACTIVATE",
                    value |-> activate.swmod
                              \/ (activate.value /\ a.op # "RECOVERY_CTRL")]
    /\ reset' = [swmod |-> a.op = "RESET",
                 value |-> reset.swmod \/ (reset.value /\ ~reset.clear),
                 clear |-> reset.value]

External == {"TX_DATA_PORT", "INDIRECT_FIFO_DATA"}
acked(a) == tx_ack \/ ind_ack # <<>> \/ TxDropped(a) \/ RdEmpty(a)
CpuInterface(a) ==
    external_pending' = IF a.op \in External /\ ~acked(a) THEN TRUE
                        ELSE external_pending /\ ~acked(a)

Hardware(a) ==
    /\ TxQueue(a) /\ ExecReady /\ Executor /\ IndirectFifo(a)
    /\ Permissions /\ Indices /\ StatusBits /\ PayloadPin /\ ControlBits(a)
    /\ CpuInterface(a)

-----------------------------------------------------------------------------
\* Software.  An access needs the port, and a processor needs a few clocks
\* from the end of an access to one that depends on it; the accesses to a
\* data port may follow each other at once, as in a burst.
Access(user, op, word) == [user |-> user, op |-> op, word |-> word]
Ready(user) == ~external_pending /\ calm[user] = Pause

Clock(a) ==
    /\ Hardware(a)
    /\ calm' = [u \in Users |-> IF u = a.user \/ (external_pending /\ calm[u] = 0)
                               THEN 0
                               ELSE IF calm[u] < Pause THEN calm[u] + 1 ELSE Pause]
    /\ rot_next' = IF ind_ack # <<>> THEN (rot_next + 1) % Numbers ELSE rot_next

Min2(a, b) == IF a < b THEN a ELSE b
rotKept == UNCHANGED <<rot, rot_left, rot_chunk>>
mcuKept == UNCHANGED <<mcu, mcu_left, mcu_chunk, mcu_next>>

Tick == Clock(None) /\ rotKept /\ mcuKept

\* Bypass on, which clears PAYLOAD_DONE of the image before.
BeginImage ==
    /\ mcu = "begin" /\ rot = "awaits" /\ Ready("mcu")
    /\ Clock(Access("mcu", "REC_INTF_CFG", 0))
    /\ mcu' = "reset"
    /\ rotKept /\ UNCHANGED <<mcu_left, mcu_chunk, mcu_next>>

ResetFifo ==
    /\ mcu = "reset" /\ Ready("mcu")
    /\ Clock(Access("mcu", "RESET", 0))
    /\ mcu' = "size"
    /\ rotKept /\ UNCHANGED <<mcu_left, mcu_chunk, mcu_next>>

\* The size of the image, which the RoT reads too.
WriteSize ==
    /\ mcu = "size" /\ Ready("mcu")
    /\ Clock(Access("mcu", "STATUS", 0))
    /\ \E n \in Images : mcu_left' = n /\ rot_left' = n
    /\ mcu' = "poll" /\ rot' = "reads"
    /\ UNCHANGED <<mcu_chunk, mcu_next, rot_chunk>>

MayPush == IF WaitsFor = "EMPTY" THEN EMPTY ELSE ~FULL

\* Wait for room: an empty FIFO takes a chunk, one that is not full a word.
PollStatus ==
    /\ mcu = "poll" /\ Ready("mcu")
    /\ Clock(Access("mcu", "STATUS", 0))
    /\ mcu' = IF MayPush THEN "push" ELSE "poll"
    /\ mcu_chunk' = IF ~MayPush THEN 0
                    ELSE IF WaitsFor = "EMPTY" THEN Min2(Depth, mcu_left) ELSE 1
    /\ rotKept /\ UNCHANGED <<mcu_left, mcu_next>>

PushWord ==
    /\ \/ mcu = "push" /\ Ready("mcu")
       \/ mcu = "burst" /\ ~external_pending
    /\ Clock(Access("mcu", "TX_DATA_PORT", mcu_next))
    /\ mcu_left' = mcu_left - 1 /\ mcu_chunk' = mcu_chunk - 1
    /\ mcu_next' = (mcu_next + 1) % Numbers
    /\ mcu' = IF mcu_left = 1 THEN "done"
              ELSE IF mcu_chunk = 1 THEN "poll" ELSE "burst"
    /\ rotKept

PayloadDone ==
    /\ mcu = "done" /\ Ready("mcu")
    /\ Clock(Access("mcu", "PAYLOAD_DONE", 0))
    /\ mcu' = "activate"
    /\ rotKept /\ UNCHANGED <<mcu_left, mcu_chunk, mcu_next>>

Activate ==
    /\ mcu = "activate" /\ Ready("mcu")
    /\ Clock(Access("mcu", "ACTIVATE", 0))
    /\ mcu' = "begin"
    /\ rotKept /\ UNCHANGED <<mcu_left, mcu_chunk, mcu_next>>

\* The RoT sees the pin, or FULL, and reads the rest of the image or a chunk.
SeePayload ==
    /\ rot = "reads" /\ rot_left > 0 /\ Ready("rot")
    /\ payload_available \/ FULL
    /\ Clock(Access("rot", "STATUS", 0))
    /\ rot' = "pull" /\ rot_chunk' = Min2(Depth, rot_left)
    /\ mcuKept /\ UNCHANGED rot_left

ReadWord ==
    /\ \/ rot = "pull" /\ Ready("rot")
       \/ rot = "burst" /\ ~external_pending
    /\ Clock(Access("rot", "INDIRECT_FIFO_DATA", 0))
    /\ rot_left' = rot_left - 1 /\ rot_chunk' = rot_chunk - 1
    /\ rot' = IF rot_chunk = 1 THEN "reads" ELSE "burst"
    /\ mcuKept

\* The RoT has the image and sees that it is to be activated.
ClearActivate ==
    /\ rot = "reads" /\ rot_left = 0 /\ activate.value /\ Ready("rot")
    /\ Clock(Access("rot", "RECOVERY_CTRL", 0))
    /\ rot' = "awaits"
    /\ mcuKept /\ UNCHANGED <<rot_left, rot_chunk>>

McuStep == BeginImage \/ ResetFifo \/ WriteSize \/ PollStatus \/ PushWord
           \/ PayloadDone \/ Activate
RotStep == SeePayload \/ ReadWord \/ ClearActivate
Next == Tick \/ McuStep \/ RotStep
Spec == Init /\ [][Next]_vars

\* The clock runs on, and both processors go on; i3c_axi_sub_arb gives reads
\* and writes turns, so neither is kept from the port for ever.
FairSpec == Spec /\ WF_vars(Tick) /\ SF_vars(McuStep) /\ SF_vars(RotStep)

-----------------------------------------------------------------------------
TypeOK ==
    /\ Len(tx_wdata) <= 1 /\ Len(tx_queue) <= TxDepth
    /\ exec \in {"Idle", "FifoWrite", "Done"} /\ dcnt \in 0 .. Depth
    /\ Len(ind_queue) <= Depth /\ Len(ind_ack) <= 1
    /\ WRITE_INDEX \in 0 .. Depth - 1 /\ READ_INDEX \in 0 .. Depth - 1
    /\ mcu_left >= 0 /\ rot_left >= 0
    /\ mcu_chunk \in 0 .. Depth /\ rot_chunk \in 0 .. Depth

\* The RoT reads the words of the image in order, none lost and none twice,
\* and once it has an image it has all of it (a write that finds the FIFO full
\* and a read that finds it empty are acknowledged like any other).
StreamInOrder ==
    /\ ind_ack # <<>> => ind_ack[1] = rot_next
    /\ rot = "awaits" => rot_next = mcu_next

\* An access to a data port that the register block waits for is under way in
\* one of the queues: it will be acknowledged.
PortAnswers ==
    external_pending => tx_wdata # <<>> \/ tx_ack \/ ind_rready \/ ind_ack # <<>>

\* The indices of INDIRECT_FIFO_STATUS tell how many words are in the FIFO.
IndicesTrack ==
    ~reset.value =>
        (WRITE_INDEX - READ_INDEX) % Depth = (Len(ind_queue) + Len(ind_ack)) % Depth

\* When the pin rises for the RoT, the chunk is complete: no word of it is
\* still on its way.
PayloadComplete ==
    [][payload_available' /\ ~payload_available /\ ~activate.value =>
          tx_wdata = <<>> /\ mcu \notin {"push", "burst"}]_vars

\* Every image reaches the RoT.
ImageArrives == rot = "reads" ~> rot = "awaits"
=============================================================================
