-------------------------- MODULE RecoveryReceiver --------------------------
(***************************************************************************)
(* recovery_receiver.sv: cuts the bytes of a private write to the virtual  *)
(* target into a recovery command, lets the payload through to the TTI RX  *)
(* data queue, and checks the PEC.  A byte is a record: the transfer f it  *)
(* belongs to, its place k in it, and its value v.  The inputs of a clock  *)
(* are a record i: on (the virtual target is selected), valid and byte,    *)
(* qflow (a byte goes into the queue), start, stop, pending, done and crc. *)
(***************************************************************************)
EXTENDS Naturals, Sequences

VARIABLES recv,           \* state_q
          bus_start_r,    \* a START came before the FSM was finished
          data_ready,     \* data_ready_o
          queue_select,   \* data_queue_select_o
          queue_flush,    \* data_queue_flush_o
          payload_left,   \* dcnt
          hdr,            \* cmd_cmd_o, len_lsb, len_msb, pec_recv
          pec_calc,
          recv_cmd_valid, recv_is_rd

recvVars == <<recv, bus_start_r, data_ready, queue_select, queue_flush,
              payload_left, hdr, pec_calc, recv_cmd_valid, recv_is_rd>>

RecvStates == {"Idle", "RxCmd", "RxLenL", "RxLenH", "RxData", "RxPec",
               "CmdIsRd", "Cmd", "Busy"}
NoByte == [f |-> 0, k |-> 0, v |-> 0]

ReceiverInit ==
    /\ recv = "Idle" /\ bus_start_r = FALSE /\ data_ready = FALSE
    /\ queue_select = TRUE /\ queue_flush = FALSE /\ payload_left = 0
    /\ hdr = [cmd |-> NoByte, lsb |-> 0, msb |-> 0, pec |-> 0]
    /\ pec_calc = 0 /\ recv_cmd_valid = FALSE /\ recv_is_rd = FALSE

rx_flow(i) == i.valid /\ data_ready
cmd_len == hdr.msb * 256 + hdr.lsb
cmd_error == pec_calc # hdr.pec

-----------------------------------------------------------------------------
OnFlow(i, next) == IF rx_flow(i) THEN next ELSE IF i.stop THEN "Idle" ELSE recv
LastPayload(i) == i.qflow /\ payload_left = 1

recv_d(i) ==
    CASE recv = "Idle" -> IF i.start \/ bus_start_r \/ i.pending
                          THEN "RxCmd" ELSE recv
      [] recv = "RxCmd" -> OnFlow(i, "RxLenL")
      [] recv = "RxLenL" -> OnFlow(i, "RxLenH")
      [] recv = "RxLenH" -> IF ~rx_flow(i) /\ i.start THEN "CmdIsRd"
                            ELSE OnFlow(i, "RxData")
      [] recv = "RxData" -> IF LastPayload(i) \/ payload_left = 0 THEN "RxPec"
                            ELSE IF i.stop THEN "Idle" ELSE recv
      [] recv = "RxPec" -> OnFlow(i, "Cmd")
      [] recv = "CmdIsRd" -> "Cmd"
      [] recv = "Cmd" -> "Busy"
      [] recv = "Busy" -> IF i.done THEN "Idle" ELSE recv

StartLatch(i) ==
    bus_start_r' = /\ i.on /\ recv \in {"CmdIsRd", "Cmd", "Busy"}
                   /\ i.start \/ bus_start_r

\* Mutant: the payload ends one byte late.
QueueMuxLate(i) ==
    queue_select' = IF ~i.on THEN TRUE
                    ELSE IF recv = "RxData" THEN i.qflow /\ payload_left = 0
                    ELSE queue_select

\* The mux to the queue is touched in RxData only.
QueueMux(i) ==
    queue_select' = IF ~i.on THEN TRUE
                    ELSE IF recv = "RxData" THEN LastPayload(i)
                    ELSE queue_select

\* Mutant: a partly filled last word stays in the width converter.
QueueFlushNever(i) == queue_flush' = ~i.on
\* Flush a partly filled last word.
QueueFlush(i) == queue_flush' = (~i.on \/ (recv = "Cmd" /\ hdr.lsb % 4 # 0))

DataReady(i) ==
    data_ready' = /\ i.on
                  /\ \/ recv = "RxCmd"
                     \/ data_ready /\ ~(recv = "RxPec" /\ rx_flow(i))

PayloadCount(i) ==
    payload_left' =
        CASE recv = "RxLenL" /\ rx_flow(i) ->
                (payload_left \div 256) * 256 + (i.byte.v % 256)
          [] recv = "RxLenH" /\ rx_flow(i) ->
                (i.byte.v % 256) * 256 + (payload_left % 256)
          [] recv = "RxData" /\ i.qflow -> (payload_left + 65535) % 65536
          [] OTHER -> payload_left

\* Command header & PEC capture; the PEC of a read stands where a write has
\* the length.
Header(i) ==
    hdr' =
        CASE ~i.on -> [cmd |-> NoByte, lsb |-> 0, msb |-> 0, pec |-> 0]
          [] i.on /\ recv = "RxCmd" /\ rx_flow(i) -> [hdr EXCEPT !.cmd = i.byte]
          [] i.on /\ recv = "RxLenL" /\ rx_flow(i) ->
                [hdr EXCEPT !.lsb = i.byte.v]
          [] i.on /\ recv = "RxLenH" /\ rx_flow(i) ->
                [hdr EXCEPT !.msb = i.byte.v]
          [] i.on /\ recv = "RxPec" /\ rx_flow(i) ->
                [hdr EXCEPT !.pec = i.byte.v]
          [] i.on /\ recv = "CmdIsRd" ->
                [hdr EXCEPT !.lsb = 0, !.msb = 0, !.pec = hdr.lsb]
          [] OTHER -> hdr

\* Mutant: the PEC of a read command is not captured.
PecCaptureWriteOnly(i) ==
    pec_calc' = IF ~i.on THEN 0
                ELSE IF recv = "RxPec" /\ rx_flow(i) THEN i.crc ELSE pec_calc

PecCapture(i) ==
    pec_calc' = IF ~i.on THEN 0
                ELSE IF recv \in {"RxPec", "RxLenL"} /\ rx_flow(i) THEN i.crc
                ELSE pec_calc

CommandOut(i) ==
    /\ recv_cmd_valid' = (i.on /\ recv = "Cmd")
    /\ recv_is_rd' = (i.on /\ (recv = "CmdIsRd"
                               \/ (recv_is_rd /\ recv # "Idle")))

\* One clock.
Receiver(i) ==
    /\ recv' = IF i.on THEN recv_d(i) ELSE "Idle"
    /\ StartLatch(i) /\ DataReady(i) /\ QueueMux(i) /\ QueueFlush(i)
    /\ PayloadCount(i) /\ Header(i) /\ PecCapture(i) /\ CommandOut(i)

\* recovery_pec is enabled for the bytes that the receiver takes and for
\* those that go into the queue.
pec_enable(i) == IF queue_select THEN rx_flow(i) ELSE i.qflow
=============================================================================
