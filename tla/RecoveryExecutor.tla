-------------------------- MODULE RecoveryExecutor --------------------------
(***************************************************************************)
(* recovery_executor.sv, I3C mode: carries out a command.  A write moves   *)
(* words from the TTI RX data queue into CSRs or into the indirect FIFO, a *)
(* read offers the bytes of CSRs to the transmitter.  The inputs of a      *)
(* clock are a record i: on, cmd (the registered command), rack (<<word>>  *)
(* when the queue answers), res_ready and res_dready from the transmitter, *)
(* abort (STOP).                                                           *)
(***************************************************************************)
EXTENDS Naturals, Sequences

CONSTANT RecoveryMode  \* DEVICE_STATUS says 3: every command is allowed

VARIABLES exec,        \* state_q
          dcnt, bcnt,
          csr_sel, csr_end, csr_length,
          csr_data,    \* which CSR the registered read data is
          rreq,        \* tti_rx_rreq_o
          res_valid, res_dlast,
          status_protocol

execVars == <<exec, dcnt, bcnt, csr_sel, csr_end, csr_length, csr_data, rreq,
              res_valid, res_dlast, status_protocol>>

ExecStates == {"Idle", "CsrWrite", "CsrRead", "CsrReadLen", "CsrReadData",
               "FifoWrite", "Done", "Error"}

FifoData == 47
Invalid == 255

\* First CSR, last CSR, and length in bytes of a command.
CsrsOf(c) ==
    CASE c = 34 -> <<0, 3, 15>>    [] c = 35 -> <<4, 9, 24>>
      [] c = 36 -> <<11, 12, 7>>   [] c = 37 -> <<13, 13, 3>>
      [] c = 38 -> <<14, 14, 3>>   [] c = 39 -> <<15, 15, 2>>
      [] c = 40 -> <<16, 16, 4>>   [] c = 45 -> <<17, 18, 6>>
      [] c = 46 -> <<19, 23, 20>>  [] c = 47 -> <<24, 24, 4>>
      [] OTHER -> <<Invalid, Invalid, 4>>
Writeable == {13, 14, 17, 18}

ExecutorInit ==
    /\ exec = "Idle" /\ dcnt = 0 /\ bcnt = 0 /\ csr_end = 0
    /\ csr_sel \in Writeable \union {Invalid}  \* not reset
    /\ csr_length = 0 /\ csr_data = 0 /\ rreq = FALSE /\ res_valid = FALSE
    /\ res_dlast = FALSE /\ status_protocol = "OK"

-----------------------------------------------------------------------------
cmd_done == exec = "Done"
rx_data_queue_clr == exec = "Error"
res_dvalid == exec = "CsrReadData"
res_data == <<"csr", csr_data, bcnt>>
\* The CSR that takes the answer of the queue: the write enables look at
\* nothing but the answer and the selected CSR.
csr_written(rack) == IF rack # <<>> THEN {csr_sel} \intersect Writeable ELSE {}

begins(i) == exec = "Idle" /\ i.cmd.valid
taken(i) == exec = "CsrReadData" /\ i.res_dready

\* Mutant: a command with a wrong PEC is carried out.
refusedIgnorePec(i) == \/ ~RecoveryMode /\ i.cmd.cmd > 39
                       \/ i.cmd.cmd > 47 \/ i.cmd.cmd < 34
\* Wrong PEC, not allowed outside recovery mode, or no such command.
refused(i) == \/ i.cmd.error
              \/ ~RecoveryMode /\ i.cmd.cmd > 39
              \/ i.cmd.cmd > 47 \/ i.cmd.cmd < 34

exec_d(i) ==
    CASE exec = "Idle" ->
            IF ~i.cmd.valid THEN exec
            ELSE IF refused(i) THEN "Error"
            ELSE IF i.cmd.is_rd THEN "CsrRead"
            ELSE IF i.cmd.cmd = FifoData THEN "FifoWrite" ELSE "CsrWrite"
      [] exec \in {"CsrWrite", "FifoWrite"} ->
            IF i.rack # <<>> /\ dcnt = 1 THEN "Done" ELSE exec
      [] exec = "CsrRead" -> IF i.res_ready THEN "CsrReadLen" ELSE exec
      [] exec = "CsrReadLen" -> "CsrReadData"
      [] exec = "CsrReadData" ->
            IF i.abort THEN "Error"
            ELSE IF taken(i) /\ dcnt = 1 THEN "Done" ELSE exec
      [] exec = "Error" -> "Done"
      [] exec = "Done" -> "Idle"

\* Mutant: a partly filled last word is not counted.
WordsFloor(len) == len \div 4
Words(len) == (len + 3) \div 4

Counters(i) ==
    /\ dcnt' = CASE begins(i) -> Words(i.cmd.len)
                 [] exec \in {"CsrWrite", "FifoWrite"} /\ i.rack # <<>> ->
                       (dcnt + 65535) % 65536
                 [] exec = "CsrReadLen" -> csr_length
                 [] taken(i) -> (dcnt + 65535) % 65536
                 [] OTHER -> dcnt
    /\ bcnt' = CASE exec = "Idle" -> 0
                 [] taken(i) -> (bcnt + 1) % 4
                 [] OTHER -> bcnt

\* Mutant: the next CSR is selected a byte early.
NextCsrEarly(i) == \/ exec = "CsrWrite" /\ i.rack # <<>>
                   \/ taken(i) /\ bcnt = 2
\* A word was written, or the last byte of a word was read.
NextCsr(i) == \/ exec = "CsrWrite" /\ i.rack # <<>>
              \/ taken(i) /\ bcnt = 3

\* A longer access stays on the last CSR of the command.
Select(i) ==
    /\ csr_sel' = CASE begins(i) -> CsrsOf(i.cmd.cmd)[1]
                    [] NextCsr(i) /\ csr_sel < csr_end -> csr_sel + 1
                    [] OTHER -> csr_sel
    /\ csr_end' = CASE begins(i) -> CsrsOf(i.cmd.cmd)[2]
                    [] ~begins(i) /\ exec \in {"Idle", "CsrWrite", "CsrReadData"} ->
                          csr_end
                    [] OTHER -> Invalid
    /\ csr_length' = IF begins(i) THEN CsrsOf(i.cmd.cmd)[3] ELSE csr_length
    /\ csr_data' = csr_sel

\* The queue is asked for one word at a time.
Request(i) ==
    rreq' = CASE exec = "Idle" -> i.cmd.valid /\ ~i.cmd.error /\ i.cmd.len # 0
              [] exec \in {"CsrWrite", "FifoWrite"} -> i.rack # <<>> /\ dcnt # 1
              [] OTHER -> FALSE

Response(i) ==
    /\ res_valid' = (exec = "CsrReadLen" /\ (i.res_ready \/ res_valid))
    /\ res_dlast' = (exec = "CsrReadData" /\ dcnt = 1)

Status(i) ==
    status_protocol' = IF exec # "Idle" THEN status_protocol
                       ELSE IF i.cmd.valid /\ i.cmd.error THEN "CRC" ELSE "OK"

\* One clock.
Executor(i) ==
    /\ exec' = IF i.on THEN exec_d(i) ELSE "Idle"
    /\ Counters(i) /\ Select(i) /\ Request(i) /\ Response(i) /\ Status(i)
=============================================================================
