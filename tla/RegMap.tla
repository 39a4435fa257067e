------------------------------- MODULE RegMap -------------------------------
(***************************************************************************)
(* The register map of a target configuration (common/reg_map.py), the     *)
(* software view of I3CCSR.  A word is the set of its one bits, so that a   *)
(* mask is an interval and a field is the part of a word inside it; numbers *)
(* of at most 31 bits become words with Bits.                               *)
(***************************************************************************)
EXTENDS Integers, FiniteSets

WordBits == 0 .. 31
Bits(n) == {b \in 0 .. 30 : (n \div 2^b) % 2 = 1}

\* A field of the map; "mask" is low .. high.  reset = Unset: no "reset" key.
Unset == -1
Field(low, high, reset, sw, hw) ==
    [low |-> low, bits |-> low .. high, reset |-> reset, sw |-> sw, hw |-> hw,
     woclr |-> FALSE, rclr |-> FALSE, hwclr |-> FALSE]
woclr(f) == [f EXCEPT !.woclr = TRUE]
rclr(f) == [f EXCEPT !.rclr = TRUE]
hwclr(f) == [f EXCEPT !.hwclr = TRUE]
Csr(base, fields) == [base_addr |-> base, fields |-> fields]

-----------------------------------------------------------------------------
\* SECFWRECOVERYIF
SECFWRECOVERYIF_EXTCAP_HEADER == Csr(256,
    [CAP_ID |-> Field(0, 7, 192, "r", "r"),
     CAP_LENGTH |-> Field(8, 23, 32, "r", "r")])
PROT_CAP_0 == Csr(260,
    [REC_MAGIC_STRING_0 |-> Field(0, 31, 542131023, "r", "r")])
PROT_CAP_1 == Csr(264,
    [REC_MAGIC_STRING_1 |-> Field(0, 31, 1447249234, "r", "r")])
PROT_CAP_2 == Csr(268,
    [REC_PROT_VERSION |-> Field(0, 15, 0, "rw", "rw"),
     AGENT_CAPS |-> Field(16, 31, 0, "rw", "rw")])
PROT_CAP_3 == Csr(272,
    [NUM_OF_CMS_REGIONS |-> Field(0, 7, 0, "rw", "rw"),
     MAX_RESP_TIME |-> Field(8, 15, 0, "rw", "rw"),
     HEARTBEAT_PERIOD |-> Field(16, 23, 0, "rw", "rw")])
DEVICE_ID_0 == Csr(276,
    [DESC_TYPE |-> Field(0, 7, 0, "rw", "rw"),
     VENDOR_SPECIFIC_STR_LENGTH |-> Field(8, 15, 0, "rw", "rw"),
     DATA |-> Field(16, 31, 0, "rw", "rw")])
DEVICE_ID_1 == Csr(280, [DATA |-> Field(0, 31, 0, "rw", "rw")])
DEVICE_ID_2 == Csr(284, [DATA |-> Field(0, 31, 0, "rw", "rw")])
DEVICE_ID_3 == Csr(288, [DATA |-> Field(0, 31, 0, "rw", "rw")])
DEVICE_ID_4 == Csr(292, [DATA |-> Field(0, 31, 0, "rw", "rw")])
DEVICE_ID_5 == Csr(296, [DATA |-> Field(0, 31, 0, "rw", "rw")])
DEVICE_ID_RESERVED == Csr(300, [DATA |-> Field(0, 31, 0, "r", "r")])
DEVICE_STATUS_0 == Csr(304,
    [DEV_STATUS |-> Field(0, 7, 0, "rw", "rw"),
     PROT_ERROR |-> rclr(Field(8, 15, 0, "rw", "rw")),
     REC_REASON_CODE |-> Field(16, 31, 0, "rw", "rw")])
DEVICE_STATUS_1 == Csr(308,
    [HEARTBEAT |-> Field(0, 15, 0, "rw", "rw"),
     VENDOR_STATUS_LENGTH |-> Field(16, 24, 0, "rw", "rw"),
     VENDOR_STATUS |-> Field(25, 31, 0, "rw", "rw")])
DEVICE_RESET == Csr(312,
    [RESET_CTRL |-> woclr(Field(0, 7, 0, "rw", "rw")),
     FORCED_RECOVERY |-> Field(8, 15, 0, "rw", "rw"),
     IF_CTRL |-> Field(16, 23, 0, "rw", "rw")])
RECOVERY_CTRL == Csr(316,
    [CMS |-> Field(0, 7, 0, "rw", "rw"),
     REC_IMG_SEL |-> Field(8, 15, 0, "rw", "rw"),
     ACTIVATE_REC_IMG |-> woclr(Field(16, 23, 0, "rw", "rw"))])
RECOVERY_STATUS == Csr(320,
    [DEV_REC_STATUS |-> Field(0, 3, 0, "rw", "rw"),
     REC_IMG_INDEX |-> Field(4, 7, 0, "rw", "rw"),
     VENDOR_SPECIFIC_STATUS |-> Field(8, 15, 0, "rw", "rw")])
HW_STATUS == Csr(324,
    [TEMP_CRITICAL |-> Field(0, 0, 0, "rw", "rw"),
     SOFT_ERR |-> Field(1, 1, 0, "rw", "rw"),
     FATAL_ERR |-> Field(2, 2, 0, "rw", "rw"),
     RESERVED_7_3 |-> Field(3, 7, 0, "rw", "rw"),
     VENDOR_HW_STATUS |-> Field(8, 15, 0, "rw", "rw"),
     CTEMP |-> Field(16, 23, 0, "rw", "rw"),
     VENDOR_HW_STATUS_LEN |-> Field(24, 31, 0, "rw", "rw")])
INDIRECT_FIFO_CTRL_0 == Csr(328,
    [CMS |-> Field(0, 7, 0, "rw", "rw"),
     RESET |-> hwclr(Field(8, 15, 0, "rw", "rw"))])
INDIRECT_FIFO_CTRL_1 == Csr(332, [IMAGE_SIZE |-> Field(0, 31, 0, "rw", "rw")])
INDIRECT_FIFO_STATUS_0 == Csr(336,
    [EMPTY |-> Field(0, 0, 1, "r", "rw"),
     FULL |-> Field(1, 1, 0, "r", "rw"),
     REGION_TYPE |-> Field(8, 10, 0, "r", "rw")])
INDIRECT_FIFO_STATUS_1 == Csr(340,
    [WRITE_INDEX |-> Field(0, 31, 0, "r", "rw")])
INDIRECT_FIFO_STATUS_2 == Csr(344, [READ_INDEX |-> Field(0, 31, 0, "r", "rw")])
INDIRECT_FIFO_STATUS_3 == Csr(348, [FIFO_SIZE |-> Field(0, 31, 64, "r", "rw")])
INDIRECT_FIFO_STATUS_4 == Csr(352,
    [MAX_TRANSFER_SIZE |-> Field(0, 31, 64, "r", "r")])
INDIRECT_FIFO_RESERVED == Csr(356, [DATA |-> Field(0, 31, 0, "r", "rw")])
INDIRECT_FIFO_DATA == Csr(360, [DATA |-> Field(0, 31, 0, "r", "rw")])

\* STDBYCTRLMODE
STDBYCTRLMODE_EXTCAP_HEADER == Csr(384,
    [CAP_ID |-> Field(0, 7, 18, "r", "r"),
     CAP_LENGTH |-> Field(8, 23, 16, "r", "r")])
STBY_CR_CONTROL == Csr(388,
    [PENDING_RX_NACK |-> Field(0, 0, Unset, "rw", "rw"),
     HANDOFF_DELAY_NACK |-> Field(1, 1, Unset, "rw", "rw"),
     ACR_FSM_OP_SELECT |-> Field(2, 2, Unset, "rw", "rw"),
     PRIME_ACCEPT_GETACCCR |-> Field(3, 3, Unset, "rw", "rw"),
     HANDOFF_DEEP_SLEEP |-> hwclr(Field(4, 4, 0, "rw", "rw")),
     CR_REQUEST_SEND |-> Field(5, 5, 0, "w", "r"),
     BAST_CCC_IBI_RING |-> Field(8, 10, 0, "rw", "r"),
     TARGET_XACT_ENABLE |-> Field(12, 12, 1, "rw", "rw"),
     DAA_SETAASA_ENABLE |-> Field(13, 13, 0, "rw", "rw"),
     DAA_SETDASA_ENABLE |-> Field(14, 14, 0, "rw", "rw"),
     DAA_ENTDAA_ENABLE |-> Field(15, 15, 0, "rw", "rw"),
     RSTACT_DEFBYTE_02 |-> Field(20, 20, 0, "rw", "r"),
     STBY_CR_ENABLE_INIT |-> Field(30, 31, 0, "rw", "r")])
STBY_CR_DEVICE_ADDR == Csr(392,
    [STATIC_ADDR |-> Field(0, 6, 0, "rw", "rw"),
     STATIC_ADDR_VALID |-> Field(15, 15, 0, "rw", "rw"),
     DYNAMIC_ADDR |-> Field(16, 22, 0, "rw", "rw"),
     DYNAMIC_ADDR_VALID |-> Field(31, 31, 0, "rw", "rw")])
STBY_CR_CAPABILITIES == Csr(396,
    [SIMPLE_CRR_SUPPORT |-> Field(5, 5, 0, "r", "r"),
     TARGET_XACT_SUPPORT |-> Field(12, 12, 1, "r", "r"),
     DAA_SETAASA_SUPPORT |-> Field(13, 13, 1, "r", "r"),
     DAA_SETDASA_SUPPORT |-> Field(14, 14, 1, "r", "r"),
     DAA_ENTDAA_SUPPORT |-> Field(15, 15, 0, "r", "r")])
STBY_CR_VIRTUAL_DEVICE_CHAR == Csr(400,
    [PID_HI |-> Field(1, 15, 32767, "rw", "r"),
     DCR |-> Field(16, 23, 189, "rw", "r"),
     BCR_VAR |-> Field(24, 28, 22, "rw", "r"),
     BCR_FIXED |-> Field(29, 31, 1, "rw", "r")])
STBY_CR_STATUS == Csr(404,
    [AC_CURRENT_OWN |-> Field(2, 2, Unset, "rw", "rw"),
     SIMPLE_CRR_STATUS |-> Field(5, 7, Unset, "rw", "rw"),
     HJ_REQ_STATUS |-> Field(8, 8, Unset, "rw", "rw")])
STBY_CR_DEVICE_CHAR == Csr(408,
    [PID_HI |-> Field(1, 15, 32767, "rw", "r"),
     DCR |-> Field(16, 23, 189, "rw", "r"),
     BCR_VAR |-> Field(24, 28, 6, "rw", "r"),
     BCR_FIXED |-> Field(29, 31, 1, "rw", "r")])
STBY_CR_DEVICE_PID_LO == Csr(412,
    [PID_LO |-> Field(0, 31, 5898405, "rw", "r")])
STBY_CR_INTR_STATUS == Csr(416,
    [ACR_HANDOFF_OK_REMAIN_STAT |-> Field(0, 0, Unset, "rw", "rw"),
     ACR_HANDOFF_OK_PRIMED_STAT |-> Field(1, 1, Unset, "rw", "rw"),
     ACR_HANDOFF_ERR_FAIL_STAT |-> Field(2, 2, Unset, "rw", "rw"),
     ACR_HANDOFF_ERR_M3_STAT |-> Field(3, 3, Unset, "rw", "rw"),
     CRR_RESPONSE_STAT |-> Field(10, 10, Unset, "rw", "rw"),
     STBY_CR_DYN_ADDR_STAT |-> Field(11, 11, Unset, "rw", "rw"),
     STBY_CR_ACCEPT_NACKED_STAT |-> Field(12, 12, Unset, "rw", "rw"),
     STBY_CR_ACCEPT_OK_STAT |-> Field(13, 13, Unset, "rw", "rw"),
     STBY_CR_ACCEPT_ERR_STAT |-> Field(14, 14, Unset, "rw", "rw"),
     STBY_CR_OP_RSTACT_STAT |-> Field(16, 16, 0, "rw", "rw"),
     CCC_PARAM_MODIFIED_STAT |-> Field(17, 17, Unset, "rw", "rw"),
     CCC_UNHANDLED_NACK_STAT |-> Field(18, 18, Unset, "rw", "rw"),
     CCC_FATAL_RSTDAA_ERR_STAT |-> Field(19, 19, Unset, "rw", "rw")])
STBY_CR_VIRTUAL_DEVICE_PID_LO == Csr(420,
    [PID_LO |-> Field(0, 31, 5902501, "rw", "r")])
STBY_CR_INTR_SIGNAL_ENABLE == Csr(424,
    [ACR_HANDOFF_OK_REMAIN_SIGNAL_EN |-> Field(0, 0, Unset, "rw", "rw"),
     ACR_HANDOFF_OK_PRIMED_SIGNAL_EN |-> Field(1, 1, Unset, "rw", "rw"),
     ACR_HANDOFF_ERR_FAIL_SIGNAL_EN |-> Field(2, 2, Unset, "rw", "rw"),
     ACR_HANDOFF_ERR_M3_SIGNAL_EN |-> Field(3, 3, Unset, "rw", "rw"),
     CRR_RESPONSE_SIGNAL_EN |-> Field(10, 10, Unset, "rw", "rw"),
     STBY_CR_DYN_ADDR_SIGNAL_EN |-> Field(11, 11, Unset, "rw", "rw"),
     STBY_CR_ACCEPT_NACKED_SIGNAL_EN |-> Field(12, 12, Unset, "rw", "rw"),
     STBY_CR_ACCEPT_OK_SIGNAL_EN |-> Field(13, 13, Unset, "rw", "rw"),
     STBY_CR_ACCEPT_ERR_SIGNAL_EN |-> Field(14, 14, Unset, "rw", "rw"),
     STBY_CR_OP_RSTACT_SIGNAL_EN |-> Field(16, 16, 0, "rw", "rw"),
     CCC_PARAM_MODIFIED_SIGNAL_EN |-> Field(17, 17, Unset, "rw", "rw"),
     CCC_UNHANDLED_NACK_SIGNAL_EN |-> Field(18, 18, Unset, "rw", "rw"),
     CCC_FATAL_RSTDAA_ERR_SIGNAL_EN |-> Field(19, 19, Unset, "rw", "rw")])
STBY_CR_INTR_FORCE == Csr(428,
    [CRR_RESPONSE_FORCE |-> Field(10, 10, Unset, "rw", "rw"),
     STBY_CR_DYN_ADDR_FORCE |-> Field(11, 11, Unset, "rw", "rw"),
     STBY_CR_ACCEPT_NACKED_FORCE |-> Field(12, 12, Unset, "rw", "rw"),
     STBY_CR_ACCEPT_OK_FORCE |-> Field(13, 13, Unset, "rw", "rw"),
     STBY_CR_ACCEPT_ERR_FORCE |-> Field(14, 14, Unset, "rw", "rw"),
     STBY_CR_OP_RSTACT_FORCE |-> Field(16, 16, Unset, "w", "rw"),
     CCC_PARAM_MODIFIED_FORCE |-> Field(17, 17, Unset, "rw", "rw"),
     CCC_UNHANDLED_NACK_FORCE |-> Field(18, 18, Unset, "rw", "rw"),
     CCC_FATAL_RSTDAA_ERR_FORCE |-> Field(19, 19, Unset, "rw", "rw")])
STBY_CR_CCC_CONFIG_GETCAPS == Csr(432,
    [F2_CRCAP1_BUS_CONFIG |-> Field(0, 2, Unset, "rw", "rw"),
     F2_CRCAP2_DEV_INTERACT |-> Field(8, 11, Unset, "rw", "rw")])
STBY_CR_CCC_CONFIG_RSTACT_PARAMS == Csr(436,
    [RST_ACTION |-> Field(0, 7, 0, "r", "rw"),
     RESET_TIME_PERIPHERAL |-> Field(8, 15, 0, "rw", "rw"),
     RESET_TIME_TARGET |-> Field(16, 23, 0, "rw", "rw"),
     RESET_DYNAMIC_ADDR |-> Field(31, 31, 1, "rw", "rw")])
STBY_CR_VIRT_DEVICE_ADDR == Csr(440,
    [VIRT_STATIC_ADDR |-> Field(0, 6, 0, "rw", "rw"),
     VIRT_STATIC_ADDR_VALID |-> Field(15, 15, 0, "rw", "rw"),
     VIRT_DYNAMIC_ADDR |-> Field(16, 22, 0, "rw", "rw"),
     VIRT_DYNAMIC_ADDR_VALID |-> Field(31, 31, 0, "rw", "rw")])
RSVD_3 == Csr(444, [rsvd |-> Field(0, 31, Unset, "rw", "rw")])

\* TTI
TTI_EXTCAP_HEADER == Csr(448,
    [CAP_ID |-> Field(0, 7, 196, "r", "r"),
     CAP_LENGTH |-> Field(8, 23, 16, "r", "r")])
CONTROL == Csr(452,
    [HJ_EN |-> Field(10, 10, 1, "rw", "rw"),
     CRR_EN |-> Field(11, 11, 0, "rw", "rw"),
     IBI_EN |-> Field(12, 12, 1, "rw", "rw"),
     IBI_RETRY_NUM |-> Field(13, 15, 0, "rw", "r")])
STATUS == Csr(456,
    [PROTOCOL_ERROR |-> Field(13, 13, 0, "r", "rw"),
     LAST_IBI_STATUS |-> Field(14, 15, 0, "r", "rw")])
RESET_CONTROL == Csr(460,
    [SOFT_RST |-> hwclr(Field(0, 0, 0, "rw", "r")),
     TX_DESC_RST |-> hwclr(Field(1, 1, 0, "rw", "r")),
     RX_DESC_RST |-> hwclr(Field(2, 2, 0, "rw", "r")),
     TX_DATA_RST |-> hwclr(Field(3, 3, 0, "rw", "r")),
     RX_DATA_RST |-> hwclr(Field(4, 4, 0, "rw", "r")),
     IBI_QUEUE_RST |-> hwclr(Field(5, 5, 0, "rw", "r"))])
INTERRUPT_STATUS == Csr(464,
    [RX_DESC_STAT |-> woclr(Field(0, 0, 0, "rw", "rw")),
     TX_DESC_STAT |-> woclr(Field(1, 1, 0, "rw", "rw")),
     RX_DESC_TIMEOUT |-> woclr(Field(2, 2, 0, "rw", "rw")),
     TX_DESC_TIMEOUT |-> woclr(Field(3, 3, 0, "rw", "rw")),
     TX_DATA_THLD_STAT |-> woclr(Field(8, 8, 0, "rw", "rw")),
     RX_DATA_THLD_STAT |-> woclr(Field(9, 9, 0, "rw", "rw")),
     TX_DESC_THLD_STAT |-> woclr(Field(10, 10, 0, "rw", "rw")),
     RX_DESC_THLD_STAT |-> woclr(Field(11, 11, 0, "rw", "rw")),
     IBI_THLD_STAT |-> woclr(Field(12, 12, 0, "rw", "rw")),
     IBI_DONE |-> woclr(Field(13, 13, 0, "rw", "rw")),
     PENDING_INTERRUPT |-> Field(15, 18, 0, "rw", "rw"),
     TRANSFER_ABORT_STAT |-> woclr(Field(25, 25, 0, "rw", "rw")),
     TX_DESC_COMPLETE |-> woclr(Field(26, 26, 0, "rw", "rw")),
     TRANSFER_ERR_STAT |-> woclr(Field(31, 31, 0, "rw", "rw"))])
INTERRUPT_ENABLE == Csr(468,
    [RX_DESC_STAT_EN |-> Field(0, 0, 0, "rw", "r"),
     TX_DESC_STAT_EN |-> Field(1, 1, 0, "rw", "r"),
     RX_DESC_TIMEOUT_EN |-> Field(2, 2, 0, "rw", "r"),
     TX_DESC_TIMEOUT_EN |-> Field(3, 3, 0, "rw", "r"),
     TX_DATA_THLD_STAT_EN |-> Field(8, 8, 0, "rw", "r"),
     RX_DATA_THLD_STAT_EN |-> Field(9, 9, 0, "rw", "r"),
     TX_DESC_THLD_STAT_EN |-> Field(10, 10, 0, "rw", "r"),
     RX_DESC_THLD_STAT_EN |-> Field(11, 11, 0, "rw", "r"),
     IBI_THLD_STAT_EN |-> Field(12, 12, 0, "rw", "r"),
     IBI_DONE_EN |-> Field(13, 13, 0, "rw", "r"),
     TRANSFER_ABORT_STAT_EN |-> Field(25, 25, 0, "rw", "r"),
     TX_DESC_COMPLETE_EN |-> Field(26, 26, 0, "rw", "r"),
     TRANSFER_ERR_STAT_EN |-> Field(31, 31, 0, "rw", "r")])
INTERRUPT_FORCE == Csr(472,
    [RX_DESC_STAT_FORCE |-> Field(0, 0, 0, "rw", "r"),
     TX_DESC_STAT_FORCE |-> Field(1, 1, 0, "rw", "r"),
     RX_DESC_TIMEOUT_FORCE |-> Field(2, 2, 0, "rw", "r"),
     TX_DESC_TIMEOUT_FORCE |-> Field(3, 3, 0, "rw", "r"),
     TX_DATA_THLD_FORCE |-> Field(8, 8, 0, "rw", "r"),
     RX_DATA_THLD_FORCE |-> Field(9, 9, 0, "rw", "r"),
     TX_DESC_THLD_FORCE |-> Field(10, 10, 0, "rw", "r"),
     RX_DESC_THLD_FORCE |-> Field(11, 11, 0, "rw", "r"),
     IBI_THLD_FORCE |-> Field(12, 12, 0, "rw", "r"),
     IBI_DONE_FORCE |-> Field(13, 13, 0, "rw", "r"),
     TRANSFER_ABORT_STAT_FORCE |-> Field(25, 25, 0, "rw", "r"),
     TX_DESC_COMPLETE_FORCE |-> Field(26, 26, 0, "rw", "r"),
     TRANSFER_ERR_STAT_FORCE |-> Field(31, 31, 0, "rw", "r")])
RX_DESC_QUEUE_PORT == Csr(476, [RX_DESC |-> Field(0, 31, 0, "r", "w")])
RX_DATA_PORT == Csr(480, [RX_DATA |-> Field(0, 31, 0, "r", "w")])
TX_DESC_QUEUE_PORT == Csr(484, [TX_DESC |-> Field(0, 31, 0, "w", "r")])
TX_DATA_PORT == Csr(488, [TX_DATA |-> Field(0, 31, 0, "w", "r")])
IBI_PORT == Csr(492, [IBI_DATA |-> Field(0, 31, 0, "w", "r")])
QUEUE_SIZE == Csr(496,
    [RX_DESC_BUFFER_SIZE |-> Field(0, 7, 5, "r", "r"),
     TX_DESC_BUFFER_SIZE |-> Field(8, 15, 5, "r", "r"),
     RX_DATA_BUFFER_SIZE |-> Field(16, 23, 5, "r", "r"),
     TX_DATA_BUFFER_SIZE |-> Field(24, 31, 5, "r", "r")])
IBI_QUEUE_SIZE == Csr(500, [IBI_QUEUE_SIZE |-> Field(0, 7, 5, "r", "r")])
QUEUE_THLD_CTRL == Csr(504,
    [TX_DESC_THLD |-> Field(0, 7, 1, "rw", "rw"),
     RX_DESC_THLD |-> Field(8, 15, 1, "rw", "rw"),
     IBI_THLD |-> Field(24, 31, 1, "rw", "rw")])
DATA_BUFFER_THLD_CTRL == Csr(508,
    [TX_DATA_THLD |-> Field(0, 2, 1, "rw", "r"),
     RX_DATA_THLD |-> Field(8, 10, 1, "rw", "r"),
     TX_START_THLD |-> Field(16, 18, 1, "rw", "r"),
     RX_START_THLD |-> Field(24, 26, 1, "rw", "r")])

\* SOCMGMTIF
SOCMGMTIF_EXTCAP_HEADER == Csr(512,
    [CAP_ID |-> Field(0, 7, 193, "r", "r"),
     CAP_LENGTH |-> Field(8, 23, 24, "r", "r")])
SOC_MGMT_CONTROL == Csr(516, [PLACEHOLDER |-> Field(0, 31, 0, "rw", "r")])
SOC_MGMT_STATUS == Csr(520, [PLACEHOLDER |-> Field(0, 31, 0, "rw", "r")])
REC_INTF_CFG == Csr(524,
    [REC_INTF_BYPASS |-> Field(0, 0, 0, "rw", "r"),
     REC_PAYLOAD_DONE |-> Field(1, 1, 0, "rw", "rw")])
REC_INTF_REG_W1C_ACCESS == Csr(528,
    [DEVICE_RESET_CTRL |-> Field(0, 7, 0, "rw", "rw"),
     RECOVERY_CTRL_ACTIVATE_REC_IMG |-> Field(8, 15, 0, "rw", "rw"),
     INDIRECT_FIFO_CTRL_RESET |-> Field(16, 23, 0, "rw", "rw")])
SOC_MGMT_RSVD_2 == Csr(532, [PLACEHOLDER |-> Field(0, 31, 0, "rw", "r")])
SOC_MGMT_RSVD_3 == Csr(536, [PLACEHOLDER |-> Field(0, 31, 0, "rw", "r")])
SOC_PAD_CONF == Csr(540,
    [INPUT_ENABLE |-> Field(0, 0, 1, "rw", "r"),
     SCHMITT_EN |-> Field(1, 1, 0, "rw", "r"),
     KEEPER_EN |-> Field(2, 2, 0, "rw", "r"),
     PULL_DIR |-> Field(3, 3, 0, "rw", "r"),
     PULL_EN |-> Field(4, 4, 0, "rw", "r"),
     IO_INVERSION |-> Field(5, 5, 0, "rw", "r"),
     OD_EN |-> Field(6, 6, 0, "rw", "r"),
     VIRTUAL_OD_EN |-> Field(7, 7, 0, "rw", "r"),
     PAD_TYPE |-> Field(24, 31, 1, "rw", "r")])
SOC_PAD_ATTR == Csr(544,
    [DRIVE_SLEW_RATE |-> Field(8, 15, 15, "rw", "r"),
     DRIVE_STRENGTH |-> Field(24, 31, 15, "rw", "r")])
SOC_MGMT_FEATURE_2 == Csr(548, [PLACEHOLDER |-> Field(0, 31, 0, "rw", "r")])
SOC_MGMT_FEATURE_3 == Csr(552, [PLACEHOLDER |-> Field(0, 31, 0, "rw", "r")])
T_R_REG == Csr(556, [T_R |-> Field(0, 19, 0, "rw", "r")])
T_F_REG == Csr(560, [T_F |-> Field(0, 19, 0, "rw", "r")])
T_SU_DAT_REG == Csr(564, [T_SU_DAT |-> Field(0, 19, 0, "rw", "r")])
T_HD_DAT_REG == Csr(568, [T_HD_DAT |-> Field(0, 19, 0, "rw", "r")])
T_HIGH_REG == Csr(572, [T_HIGH |-> Field(0, 19, 0, "rw", "r")])
T_LOW_REG == Csr(576, [T_LOW |-> Field(0, 19, 0, "rw", "r")])
T_HD_STA_REG == Csr(580, [T_HD_STA |-> Field(0, 19, 0, "rw", "r")])
T_SU_STA_REG == Csr(584, [T_SU_STA |-> Field(0, 19, 0, "rw", "r")])
T_SU_STO_REG == Csr(588, [T_SU_STO |-> Field(0, 19, 0, "rw", "r")])
T_FREE_REG == Csr(592, [T_FREE |-> Field(0, 31, 12, "rw", "r")])
T_AVAL_REG == Csr(596, [T_AVAL |-> Field(0, 31, 300, "rw", "r")])
T_IDLE_REG == Csr(600, [T_IDLE |-> Field(0, 31, 60000, "rw", "r")])

\* CTRLCFG
CTRLCFG_EXTCAP_HEADER == Csr(608,
    [CAP_ID |-> Field(0, 7, 2, "r", "r"),
     CAP_LENGTH |-> Field(8, 23, 2, "r", "r")])
CONTROLLER_CONFIG == Csr(612, [OPERATION_MODE |-> Field(4, 5, 1, "r", "rw")])

TERMINATION_EXTCAP_HEADER == Csr(616,
    [CAP_ID |-> Field(0, 7, 0, "r", "r"),
     CAP_LENGTH |-> Field(8, 23, 1, "r", "r")])

-----------------------------------------------------------------------------
(* The extended capabilities, in the order of the map. *)
SECFWRECOVERYIF == {
    SECFWRECOVERYIF_EXTCAP_HEADER, PROT_CAP_0, PROT_CAP_1, PROT_CAP_2,
    PROT_CAP_3, DEVICE_ID_0, DEVICE_ID_1, DEVICE_ID_2, DEVICE_ID_3,
    DEVICE_ID_4, DEVICE_ID_5, DEVICE_ID_RESERVED, DEVICE_STATUS_0,
    DEVICE_STATUS_1, DEVICE_RESET, RECOVERY_CTRL, RECOVERY_STATUS, HW_STATUS,
    INDIRECT_FIFO_CTRL_0, INDIRECT_FIFO_CTRL_1, INDIRECT_FIFO_STATUS_0,
    INDIRECT_FIFO_STATUS_1, INDIRECT_FIFO_STATUS_2, INDIRECT_FIFO_STATUS_3,
    INDIRECT_FIFO_STATUS_4, INDIRECT_FIFO_RESERVED, INDIRECT_FIFO_DATA}
STDBYCTRLMODE == {
    STDBYCTRLMODE_EXTCAP_HEADER, STBY_CR_CONTROL, STBY_CR_DEVICE_ADDR,
    STBY_CR_CAPABILITIES, STBY_CR_VIRTUAL_DEVICE_CHAR, STBY_CR_STATUS,
    STBY_CR_DEVICE_CHAR, STBY_CR_DEVICE_PID_LO, STBY_CR_INTR_STATUS,
    STBY_CR_VIRTUAL_DEVICE_PID_LO, STBY_CR_INTR_SIGNAL_ENABLE,
    STBY_CR_INTR_FORCE, STBY_CR_CCC_CONFIG_GETCAPS,
    STBY_CR_CCC_CONFIG_RSTACT_PARAMS, STBY_CR_VIRT_DEVICE_ADDR, RSVD_3}
TTI == {
    TTI_EXTCAP_HEADER, CONTROL, STATUS, RESET_CONTROL, INTERRUPT_STATUS,
    INTERRUPT_ENABLE, INTERRUPT_FORCE, RX_DESC_QUEUE_PORT, RX_DATA_PORT,
    TX_DESC_QUEUE_PORT, TX_DATA_PORT, IBI_PORT, QUEUE_SIZE, IBI_QUEUE_SIZE,
    QUEUE_THLD_CTRL, DATA_BUFFER_THLD_CTRL}
SOCMGMTIF == {
    SOCMGMTIF_EXTCAP_HEADER, SOC_MGMT_CONTROL, SOC_MGMT_STATUS, REC_INTF_CFG,
    REC_INTF_REG_W1C_ACCESS, SOC_MGMT_RSVD_2, SOC_MGMT_RSVD_3, SOC_PAD_CONF,
    SOC_PAD_ATTR, SOC_MGMT_FEATURE_2, SOC_MGMT_FEATURE_3, T_R_REG, T_F_REG,
    T_SU_DAT_REG, T_HD_DAT_REG, T_HIGH_REG, T_LOW_REG, T_HD_STA_REG,
    T_SU_STA_REG, T_SU_STO_REG, T_FREE_REG, T_AVAL_REG, T_IDLE_REG}
CTRLCFG == {
    CTRLCFG_EXTCAP_HEADER, CONTROLLER_CONFIG}

reg_map == SECFWRECOVERYIF \union STDBYCTRLMODE \union TTI \union SOCMGMTIF
           \union CTRLCFG \union {TERMINATION_EXTCAP_HEADER}
start_addr == 256

=============================================================================
