----------------------------- MODULE TargetFsm -----------------------------
(***************************************************************************)
(* The primary state machine of the target, i3c_target_fsm.sv.  Its inputs *)
(* of one clock are a record i (Quiet is a clock in which nothing happens).*)
(* A header byte is a record: whose address it carries, and the RnW bit.   *)
(***************************************************************************)
EXTENDS Integers, Sequences

VARIABLES fsm,      \* state_q
          bus_addr  \* bus_addr_q and bus_rnw_q: the header received last

fsmVars == <<fsm, bus_addr>>

FsmStates ==
    {"Idle", "RxFByte", "CheckFByte", "TxAckFByte", "RxSByte",
     "RxSByteRepeated", "CheckSByte", "TxAckSByte", "RxPWriteData",
     "RxPWriteTbit", "TxPReadData", "TxPReadTbit", "Wait", "DoIBI", "DoneIBI",
     "DoCCC", "DoneCCC", "DoRstAction", "HDRMode", "WaitHDRExitOrIdle"}

\* Addresses as the comparators tell them apart: 7E, this target, the virtual
\* target, one of the bytes of error TE0, and any other.
Broadcast == [addr |-> "rsvd", rnw |-> FALSE]
Headers == {Broadcast}
           \union [addr : {"ours", "virtual", "te0", "other"}, rnw : BOOLEAN]
NoHeader == [addr |-> "other", rnw |-> FALSE]

Quiet == [start |-> FALSE, stop |-> FALSE, rx_done |-> FALSE,
          rx_data |-> NoHeader, tx_done |-> FALSE, reset_detect |-> FALSE,
          ibi_request |-> FALSE, ibi_done |-> FALSE,
          ccc_done |-> FALSE, ccc_invalid |-> FALSE, ccc_next |-> FALSE,
          tx_desc_avail |-> FALSE, tx_more |-> FALSE,
          bus_idle |-> FALSE, hdr_exit |-> FALSE, in_hdr |-> FALSE]

FsmInit == fsm = "Idle" /\ bus_addr = NoHeader

-----------------------------------------------------------------------------
is_rsvd_byte_match == bus_addr = Broadcast
is_incorrect_addr_match == bus_addr.addr = "te0"
addressed == bus_addr.addr \in {"ours", "virtual"}

\* ibi_begin_o, and the reason to enter DoIBI: i.ibi_request stands for
\* ibi_pending_i /\ ibi_enable_i /\ bus_free_i.
ibi_begin(i) == fsm = "Idle" /\ ~i.reset_detect /\ i.ibi_request
ccc_valid == fsm = "DoCCC"

\* Requests to the bus flows.
fsm_rx_byte == fsm \in {"RxFByte", "RxSByte", "RxSByteRepeated", "RxPWriteData"}
fsm_rx_bit == fsm = "RxPWriteTbit"
fsm_tx_byte == fsm = "TxPReadData"
fsm_tx_bit == fsm \in {"TxAckFByte", "TxAckSByte", "TxPReadTbit"}

\* After the ACK the header decides between the two data loops.
DataLoop == IF ~addressed THEN "Wait"
            ELSE IF bus_addr.rnw THEN "TxPReadData" ELSE "RxPWriteData"

\* A read is acknowledged only when there is something to send.
Accept(i) == i.tx_desc_avail \/ ~bus_addr.rnw

\* The next state before the HDR and STOP overrides.
OnHeader(i) ==
    CASE fsm = "CheckFByte" ->
            IF is_incorrect_addr_match THEN "WaitHDRExitOrIdle"
            ELSE IF (is_rsvd_byte_match \/ addressed) /\ Accept(i)
                 THEN "TxAckFByte" ELSE "Wait"
      [] fsm = "TxAckFByte" ->
            IF ~i.tx_done THEN fsm
            ELSE IF is_rsvd_byte_match THEN "RxSByte" ELSE DataLoop
      [] fsm = "RxSByte" ->
            IF i.start THEN "RxSByteRepeated"
            ELSE IF i.rx_done THEN "DoCCC" ELSE fsm
      [] fsm = "RxSByteRepeated" -> IF i.rx_done THEN "CheckSByte" ELSE fsm
      [] fsm = "CheckSByte" ->
            IF addressed /\ Accept(i) THEN "TxAckSByte" ELSE "Wait"
      [] fsm = "TxAckSByte" -> IF i.tx_done THEN DataLoop ELSE fsm

OnData(i) ==
    CASE fsm = "RxPWriteData" -> IF i.start THEN "RxFByte"
                                 ELSE IF i.rx_done THEN "RxPWriteTbit" ELSE fsm
      [] fsm = "RxPWriteTbit" -> IF i.rx_done THEN "RxPWriteData" ELSE fsm
      [] fsm = "TxPReadData" -> IF i.start THEN "RxFByte"
                                ELSE IF i.tx_done THEN "TxPReadTbit" ELSE fsm
      [] fsm = "TxPReadTbit" -> IF i.start THEN "RxFByte"
                                ELSE IF ~i.tx_done THEN fsm
                                ELSE IF i.tx_more THEN "TxPReadData" ELSE "Wait"

OnControl(i) ==
    CASE fsm = "Idle" -> IF i.reset_detect THEN "DoRstAction"
                         ELSE IF i.ibi_request THEN "DoIBI"
                         ELSE IF i.start THEN "RxFByte" ELSE fsm
      [] fsm = "RxFByte" -> IF i.rx_done THEN "CheckFByte" ELSE fsm
      [] fsm = "Wait" -> IF i.start THEN "RxFByte" ELSE fsm
      [] fsm = "DoIBI" -> IF i.ibi_done THEN "DoneIBI" ELSE fsm
      [] fsm = "DoCCC" -> IF i.ccc_done /\ i.ccc_invalid THEN "WaitHDRExitOrIdle"
                          ELSE IF i.ccc_done THEN "DoneCCC"
                          ELSE IF i.ccc_next THEN "RxSByte" ELSE fsm
      [] fsm \in {"DoneIBI", "DoneCCC", "DoRstAction"} -> "Idle"
      [] fsm = "HDRMode" -> IF i.in_hdr THEN fsm ELSE "Idle"
      [] fsm = "WaitHDRExitOrIdle" ->
            IF i.hdr_exit \/ i.bus_idle THEN "Idle" ELSE fsm

Transition(i) ==
    IF fsm \in {"CheckFByte", "TxAckFByte", "RxSByte", "RxSByteRepeated",
                "CheckSByte", "TxAckSByte"} THEN OnHeader(i)
    ELSE IF fsm \in {"RxPWriteData", "RxPWriteTbit", "TxPReadData",
                     "TxPReadTbit"} THEN OnData(i)
    ELSE OnControl(i)

\* Mutant: a STOP is noticed only by the states that wait for one.
state_dNoStop(i) == IF i.in_hdr THEN "HDRMode" ELSE Transition(i)

\* HDR mode parks the FSM, and a STOP ends any transfer outside HDR and TE0.
state_d(i) ==
    IF i.stop /\ ~i.in_hdr /\ fsm # "WaitHDRExitOrIdle" THEN "Idle"
    ELSE IF i.in_hdr THEN "HDRMode" ELSE Transition(i)

\* update_bus_addr_matcher
Matcher(i) ==
    bus_addr' = IF fsm \in {"RxFByte", "RxSByte", "RxSByteRepeated"} /\ i.rx_done
                THEN i.rx_data
                ELSE IF fsm = "Idle" THEN NoHeader ELSE bus_addr

FsmStep(i) == fsm' = state_d(i) /\ Matcher(i)

FsmTypeOK == fsm \in FsmStates /\ bus_addr \in Headers
=============================================================================
