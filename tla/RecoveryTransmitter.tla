------------------------ MODULE RecoveryTransmitter ------------------------
(***************************************************************************)
(* recovery_transmitter.sv: makes the response to a read command, length,  *)
(* CSR bytes and PEC, and the TX descriptor for it.  A byte on its way is  *)
(* a tag <<kind, a, b>>.  The inputs of a clock are a record i: on,        *)
(* res_valid, res_len, res_dvalid, res_data and res_dlast from the         *)
(* executor, abort (STOP), desc_ready and data_ready from descriptor_tx.   *)
(***************************************************************************)
EXTENDS Naturals, Sequences

VARIABLES xmit,   \* state_q
          len_q,  \* the length latched; desc_data_o is len_q + 3
          tx_crc  \* recovery_pec: bytes covered since START

xmitVars == <<xmit, len_q, tx_crc>>

XmitStates == {"Idle", "TxDesc", "TxLenL", "TxLenH", "TxData", "TxPEC", "Flush"}

TransmitterInit == xmit = "Idle" /\ len_q = 0 /\ tx_crc = 0

-----------------------------------------------------------------------------
res_ready == xmit = "Idle"
res_dready(i) == xmit = "Flush" \/ (xmit = "TxData" /\ i.data_ready)
desc_valid == xmit = "TxDesc"
\* Mutant: the PEC byte is not accounted for.
desc_dataNoPec == len_q + 2
desc_data == len_q + 3

data_valid(i) == \/ xmit \in {"TxLenL", "TxLenH", "TxPEC"}
                 \/ xmit = "TxData" /\ i.res_dvalid
data_byte(i) == CASE xmit = "TxLenL" -> <<"len", 0, len_q>>
                  [] xmit = "TxLenH" -> <<"len", 1, 0>>
                  [] xmit = "TxPEC" -> <<"pec", tx_crc, 0>>
                  [] OTHER -> i.res_data

Step(i, ready, next) == IF i.abort THEN "Idle" ELSE IF ready THEN next ELSE xmit

xmit_d(i) ==
    CASE xmit = "Idle" -> IF i.res_valid THEN "TxDesc" ELSE xmit
      [] xmit = "TxDesc" -> Step(i, i.desc_ready, "TxLenL")
      [] xmit = "TxLenL" -> Step(i, i.data_ready, "TxLenH")
      [] xmit = "TxLenH" -> Step(i, i.data_ready, "TxData")
      [] xmit = "TxData" -> IF i.abort THEN "Flush"
                            ELSE IF i.data_ready /\ data_valid(i) /\ i.res_dlast
                            THEN "TxPEC" ELSE xmit
      [] xmit = "TxPEC" -> IF i.data_ready THEN "Idle" ELSE xmit
      [] xmit = "Flush" -> IF i.res_dvalid THEN xmit ELSE "Idle"

\* Mutant: the PEC block also takes the PEC byte of the response before.
TxPecNoClear(i) ==
    tx_crc' = IF xmit \in {"TxLenL", "TxLenH", "TxData"} /\ data_valid(i)
                 /\ i.data_ready THEN tx_crc + 1 ELSE tx_crc

TxPec(i) ==
    tx_crc' = IF i.start \/ ~i.on THEN 0
              ELSE IF xmit \in {"TxLenL", "TxLenH", "TxData"} /\ data_valid(i)
                      /\ i.data_ready THEN tx_crc + 1 ELSE tx_crc

\* One clock.
Transmitter(i) ==
    /\ xmit' = IF i.on THEN xmit_d(i) ELSE "Idle"
    /\ len_q' = IF res_ready /\ i.res_valid THEN i.res_len ELSE len_q
    /\ TxPec(i)
=============================================================================
