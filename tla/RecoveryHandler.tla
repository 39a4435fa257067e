-------------------------- MODULE RecoveryHandler --------------------------
(***************************************************************************)
(* recovery_handler.sv in I3C mode, between the target FSM and the TTI     *)
(* queues: receiver, executor and transmitter, the RX data queue with its  *)
(* converter and read port, the TX descriptor block, the PEC calculators,  *)
(* and the multiplexers that connect them to the bus side or to software.  *)
(* One step is one clock.  What happens in it is a record e: start, stop,  *)
(* done (a bus flow finished), byte and hdr (what was received), perr (a   *)
(* parity error), sw_req (software reads RX_DATA).                         *)
(*   The TTI TX queues are empty, and the RX data queue has room.          *)
(***************************************************************************)
EXTENDS TargetFsm, RecoveryReceiver, RecoveryTransmitter, RecoveryExecutor,
        DescriptorTx, SyncFifo

CONSTANT RxDepth  \* words of the TTI RX data queue

VARIABLES virtual_sel,       \* virtual_device_sel_o
          xfer_in_progress,
          last_byte,
          rx_valid,          \* rx_fifo_wvalid_o
          parity_err,
          last_q,            \* a private write ended one clock ago
          tx_end_xfer,
          exec_pending,      \* recovery_exec_pending
          mode_enter,        \* recovery_mode_enter_shreg, as a number
          conv,              \* the bytes in the 8toN converter, and is it full
          rx_queue, port,    \* the TTI RX data queue and its read port
          exec_cmd,          \* the command, registered for the executor
          rx_crc             \* recovery_pec on the RX side

handlerVars ==
    <<virtual_sel, xfer_in_progress, last_byte, rx_valid, parity_err, last_q,
      tx_end_xfer, exec_pending, mode_enter, conv, rx_queue, port, exec_cmd,
      rx_crc>>
allVars == <<fsmVars, recvVars, xmitVars, execVars, txdVars, handlerVars>>

NoCommand == [valid |-> FALSE, is_rd |-> FALSE, cmd |-> 0, f |-> 0, len |-> 0,
              error |-> FALSE]

HandlerInit ==
    /\ FsmInit /\ ReceiverInit /\ TransmitterInit /\ ExecutorInit
    /\ DescriptorTxInit
    /\ virtual_sel = FALSE /\ xfer_in_progress = FALSE /\ last_byte = NoByte
    /\ rx_valid = FALSE /\ parity_err = FALSE /\ last_q = FALSE
    /\ tx_end_xfer = FALSE /\ exec_pending = FALSE /\ mode_enter = 2
    /\ conv = [bytes |-> <<>>, full |-> FALSE] /\ rx_queue = <<>>
    /\ port = [rready |-> FALSE, ack |-> <<>>]
    /\ exec_cmd = NoCommand /\ rx_crc = 0

-----------------------------------------------------------------------------
\* A virtual transfer or the execution of its command is going on.
recovery_pending == (xfer_in_progress /\ virtual_sel) \/ exec_pending

\* R2MUX
to_receiver == recovery_pending /\ queue_select
data_queue_wvalid == ~to_receiver /\ rx_valid
data_queue_flow == data_queue_wvalid /\ ~conv.full
conv_flush == IF to_receiver THEN queue_flush ELSE last_q
rx_wready == IF to_receiver THEN data_ready ELSE ~conv.full

\* T1MUX and T2MUX.
tx_rvalid == recovery_pending /\ data_valid([res_dvalid |-> res_dvalid])
tx_desc_avail == recovery_pending /\ desc_valid
tx_depth == IF recovery_pending THEN 31 ELSE 0

\* The target FSM.
fsm_in(e) ==
    [Quiet EXCEPT
        !.start = e.start, !.stop = e.stop,
        !.rx_done = e.done /\ (fsm_rx_byte \/ fsm_rx_bit), !.rx_data = e.hdr,
        !.tx_done = e.done /\ (fsm_tx_byte \/ fsm_tx_bit),
        !.tx_desc_avail = tx_desc_avail,
        !.tx_more = ((tx_pending /\ tx_rvalid) \/ tx_byte_last) /\ ~tx_end_xfer]
fsm_next(e) == state_d(fsm_in(e))
checks_header == fsm \in {"CheckFByte", "CheckSByte"}
tx_pr_start == checks_header /\ addressed /\ bus_addr.rnw
tx_pr_abort(e) == fsm \in {"TxPReadData", "TxPReadTbit"} /\ (e.start \/ e.stop)
tx_fifo_rready(e) == fsm # "TxPReadData" /\ fsm_next(e) = "TxPReadData"
rx_byte_last(e) == fsm = "RxPWriteData" /\ fsm_next(e) \in {"RxFByte", "Idle"}

\* Mutant: a transfer counts as over in the clock in which it ends.
XferLatchEarly(e) ==
    xfer_in_progress' = CASE fsm_next(e) = "Idle" -> FALSE
                          [] fsm_next(e) # "Idle" /\ checks_header -> addressed
                          [] OTHER -> xfer_in_progress

XferLatch(e) ==
    xfer_in_progress' = CASE fsm = "Idle" -> FALSE
                          [] checks_header -> addressed
                          [] OTHER -> xfer_in_progress

Latches(e) ==
    /\ XferLatch(e)
    /\ virtual_sel' = IF checks_header /\ ~is_rsvd_byte_match
                      THEN bus_addr.addr = "virtual" ELSE virtual_sel
    /\ last_byte' = IF e.done /\ fsm_rx_byte THEN e.byte ELSE last_byte
    /\ parity_err' = \/ e.done /\ fsm_rx_bit /\ e.perr
                     \/ parity_err /\ fsm # "Idle"
    /\ rx_valid' = /\ ~(rx_valid /\ rx_wready)
                   /\ \/ rx_valid
                      \/ /\ fsm = "RxPWriteTbit" /\ fsm_next(e) # "RxPWriteTbit"
                         /\ ~parity_err
    /\ last_q' = rx_byte_last(e)
    /\ tx_end_xfer' = IF e.done /\ fsm_tx_bit THEN tx_byte_last ELSE tx_end_xfer

-----------------------------------------------------------------------------
\* CRC of the first n bytes of transfer f, while they come in order.
Crc(f, n) == 1000 * f + n
Broken == 999
Feed(crc, b) ==
    IF crc = Crc(b.f, b.k - 1) \/ (crc = 0 /\ b.k = 1) THEN Crc(b.f, b.k)
    ELSE Broken

\* The header reaches the PEC when it is announced or, when it is the one that
\* selected the virtual target, from the RX path two clocks later.
RxPec(e) ==
    rx_crc' = CASE e.start \/ ~virtual_sel -> 0
                [] virtual_sel /\ ~e.start /\ checks_header -> Feed(0, last_byte)
                [] virtual_sel /\ ~e.start /\ ~checks_header
                   /\ (mode_enter = 1 \/ pec_enable([valid |-> to_receiver /\ rx_valid,
                                                     qflow |-> data_queue_flow])) ->
                      Feed(rx_crc, last_byte)
                [] OTHER -> rx_crc

\* Mutant: only a write frees the queues when it is done.
ExecPendingKept ==
    exec_pending' = (recv_cmd_valid \/ (exec_pending /\ ~(cmd_done /\ ~recv_is_rd)))

ExecPending ==
    exec_pending' = (recv_cmd_valid \/ (exec_pending /\ ~cmd_done))

Registers ==
    /\ mode_enter' = IF virtual_sel THEN mode_enter \div 2 ELSE 2
    /\ exec_cmd' = [valid |-> recv_cmd_valid, is_rd |-> recv_is_rd,
                    cmd |-> hdr.cmd.v, f |-> hdr.cmd.f, len |-> cmd_len,
                    error |-> cmd_error]

\* width_converter_8toN: a flush declares a started word full.
conv_pop == conv.full /\ WReady(rx_queue, RxDepth)
Converter ==
    conv' = [bytes |-> IF data_queue_flow THEN Append(conv.bytes, last_byte)
                       ELSE IF conv_pop THEN <<>> ELSE conv.bytes,
             full |-> \/ conv_flush /\ (conv.full \/ conv.bytes # <<>>)
                      \/ data_queue_flow /\ Len(conv.bytes) = 3
                      \/ conv.full /\ ~conv_pop]

\* R3MUX
rx_req(e) == IF recovery_pending THEN rreq ELSE e.sw_req
\* Mutant: an error leaves the payload in the queue.
rx_clrNever == FALSE
rx_clr == recovery_pending /\ rx_data_queue_clr
exec_rack == IF recovery_pending THEN port.ack ELSE <<>>
sw_rack == IF recovery_pending THEN <<>> ELSE port.ack

RxDataQueue(e) ==
    /\ rx_queue' = FifoStep(rx_queue, RxDepth, rx_clr,
                            IF conv.full THEN <<conv.bytes>> ELSE <<>>,
                            port.rready)
    /\ port' = IF rx_clr THEN [rready |-> FALSE, ack |-> <<>>]
               ELSE IF port.rready /\ RValid(rx_queue)
               THEN [rready |-> FALSE, ack |-> <<Head(rx_queue)>>]
               ELSE [rready |-> port.rready \/ rx_req(e), ack |-> <<>>]

-----------------------------------------------------------------------------
recv_in(e) ==
    [on |-> virtual_sel, valid |-> to_receiver /\ rx_valid, byte |-> last_byte,
     qflow |-> data_queue_flow, start |-> e.start, stop |-> e.stop,
     pending |-> recovery_pending, done |-> cmd_done, crc |-> rx_crc]
txd_in(e) ==
    [start |-> tx_pr_start, abort |-> tx_pr_abort(e),
     byte_ready |-> tx_fifo_rready(e), enter |-> mode_enter = 1,
     desc_rvalid |-> tx_desc_avail, desc_len |-> desc_data,
     rvalid |-> tx_rvalid, empty |-> TRUE, depth |-> tx_depth]
xmit_in(e) ==
    [on |-> virtual_sel, start |-> e.start, abort |-> e.stop,
     res_valid |-> res_valid, res_len |-> csr_length,
     res_dvalid |-> res_dvalid, res_data |-> res_data, res_dlast |-> res_dlast,
     desc_ready |-> recovery_pending /\ desc_rready(txd_in(e)),
     data_ready |-> recovery_pending /\ tx_queue_rready(txd_in(e))]
exec_in(e) ==
    [on |-> virtual_sel, cmd |-> exec_cmd, rack |-> exec_rack,
     res_ready |-> res_ready, res_dready |-> res_dready(xmit_in(e)),
     abort |-> e.stop]

Handler(e) ==
    /\ FsmStep(fsm_in(e)) /\ Latches(e)
    /\ Receiver(recv_in(e)) /\ Transmitter(xmit_in(e)) /\ DescTx(txd_in(e))
    /\ Executor(exec_in(e))
    /\ RxPec(e) /\ ExecPending /\ Registers /\ Converter /\ RxDataQueue(e)
=============================================================================
