-------------------------------- MODULE Ccc --------------------------------
(***************************************************************************)
(* The command codes: ccc.sv and ccc_entdaa.sv, the registers that they    *)
(* set (csri.sv, configuration.sv, tti.sv), and the reset outputs.  Bytes   *)
(* are records: a is the code, the address or the data as a name, b its    *)
(* bit 0 (RnW, or the parity of an assigned address).  The inputs of a     *)
(* clock are a record i; see NoInput.                                      *)
(***************************************************************************)
EXTENDS Naturals, Sequences

CONSTANT IdBits  \* bits of PID, BCR and DCR sent in ENTDAA; 64 in the code

VARIABLES
    ccc,   \* the command FSM and the registers of the command being received
    daa,   \* the FSM of ccc_entdaa
    pulse, \* one-clock outputs to the registers, and ent_hdr
    csr,   \* addresses, limits and event enable
    rst    \* armed reset action, escalation and the reset outputs

cccVars == <<ccc, daa, pulse, csr, rst>>

Devices == {"main", "virt"}
None == "none"
NoData == [a |-> None, b |-> FALSE]

Setters == {"dENEC", "dDISEC", "SETDASA", "SETNEWDA", "SETXTIME", "dSETMWL",
            "dSETMRL"}
Getters == {"GETSTATUS", "GETCAPS", "GETBCR", "GETDCR", "GETMWL", "GETMRL",
            "GETPID"}
\* command_code[7]; the last two are not supported.
DirectCodes == Setters \union Getters \union {"dRSTACT", "dENDXFER", "dGETMXDS"}
\* Codes whose T bit is 1.
TbitOne == {"RSTDAA", "ENEC", "SETMWL", "SETMRL", "dDISEC", "SETDASA",
            "SETNEWDA", "GETMWL", "GETPID", "GETBCR", "GETSTATUS", "GETCAPS",
            "dRSTACT"}

CccInit ==
    /\ ccc = [state |-> "Idle", code |-> None, addr |-> None, rnw |-> FALSE,
              addr_valid |-> FALSE, def |-> "00", def_valid |-> FALSE,
              rx_data |-> NoData, rx_count |-> 0, tx_id |-> 0]
    /\ daa = [state |-> "Idle", bits |-> 0]
    /\ pulse = [dasa |-> None, newda |-> None, aasa |-> {}, rstdaa |-> FALSE,
                mwl |-> <<None, None>>, mrl |-> <<None, None>>, ibil |-> None,
                set |-> None, enec |-> FALSE, disec |-> FALSE,
                rstact |-> FALSE, hdr |-> FALSE]
    /\ csr = [sta |-> [d \in Devices |-> IF d = "main" THEN "sm" ELSE "sv"],
              dyn |-> [d \in Devices |-> None],
              mwl |-> <<None, None>>, mrl |-> <<None, None>>, ibil |-> None,
              ibi_en |-> TRUE]
    /\ rst = [armed |-> FALSE, action |-> "00", valid |-> FALSE,
              action_o |-> "00", escalate |-> FALSE,
              peripheral |-> FALSE, escalated |-> FALSE]

NoInput == [start |-> FALSE, rstart |-> FALSE, stop |-> FALSE,
            rx_done |-> FALSE, rx_data |-> NoData, tx_done |-> FALSE,
            arb_lost |-> FALSE, hdr_exit |-> FALSE, reset_detect |-> FALSE,
            reset_done |-> FALSE, ccc_valid |-> FALSE, ccc |-> None]

-----------------------------------------------------------------------------
\* Comparators on the command.
In(states) == ccc.state \in states
rx_done_in(i, s) == ccc.state = s /\ i.rx_done
tx_done_in(i, s) == ccc.state = s /\ i.tx_done
assigned(d) == csr.dyn[d] # None
is_byte_our_static_addr(d) == ccc.addr = csr.sta[d]
is_byte_our_dynamic_addr(d) == assigned(d) /\ ccc.addr = csr.dyn[d]
is_byte_addr(d) == is_byte_our_static_addr(d) \/ is_byte_our_dynamic_addr(d)
is_byte_ours == \E d \in Devices : is_byte_addr(d)
is_byte_rsvd_addr ==
    ccc.rx_data = [a |-> "7E", b |-> FALSE] \/ ccc.addr = "7E"
is_incorrect_byte_match ==
    \/ ccc.rx_data.a \in {"te0", "7C"} /\ ~ccc.rx_data.b
    \/ ccc.rx_data = [a |-> "7E", b |-> TRUE]
    \/ ccc.addr = "7C"

is_direct_cmd == ccc.code \in DirectCodes
have_defining_byte == ccc.code \in {"ENDXFER", "RSTACT", "MLANE", "GETCAPS",
                                    "dENDXFER", "dRSTACT"}
direction_error == \/ ccc.code \in Getters /\ ~ccc.rnw
                   \/ ccc.code \in Setters /\ ccc.rnw
unsupported_def_byte ==
    /\ have_defining_byte /\ ccc.def_valid
    /\ \/ ccc.code = "dRSTACT" /\ ccc.def \notin {"00", "01", "02", "81", "82"}
       \/ ccc.code = "GETCAPS" /\ ccc.def \notin {"00", "93"}
supported_direct_command ==
    ccc.code \in Setters \union Getters \union {"dRSTACT"} /\ ~unsupported_def_byte

\* The device that SETDASA names, if it has no dynamic address yet.
dasa_free(d) == is_byte_our_static_addr(d) /\ ~assigned(d)
direct_addr_ack ==
    /\ ~direction_error
    /\ IF ccc.code = "SETDASA" THEN \E d \in Devices : dasa_free(d)
       ELSE (is_byte_ours /\ supported_direct_command) \/ is_byte_rsvd_addr

-----------------------------------------------------------------------------
\* Requests to the bus flows; in ENTDAA they are those of ccc_entdaa.
entdaa == In({"HandleENTDAA", "HandleTargetENTDAA", "HandleVirtualTargetENTDAA"})
ccc_rx_byte == IF entdaa THEN daa.state \in {"ReceiveRsvdByte", "ReceiveAddr"}
               ELSE In({"RxDefByte", "RxDefByteOrBusCond", "RxByte",
                        "RxDirectAddr", "RxData"})
ccc_rx_bit == In({"RxTbit", "RxDefByteTbit", "RxDirectDefByteTbit", "RxDataTbit"})
ccc_tx_bit == IF entdaa THEN daa.state \in {"AckRsvdByte", "SendNack",
                                            "SendIDBit", "AckAddr"}
              ELSE In({"TxDirectAddrAck", "TxDataTbit"})
ccc_tx_byte == ~entdaa /\ In({"TxData"})

\* Mutant: the last byte of a GET is not counted.
tx_data_done_early == ccc.tx_id <= 1
tx_data_done == ccc.tx_id = 0
\* An ACK is a 0.
ccc_acks == IF entdaa THEN daa.state \in {"AckRsvdByte", "AckAddr"}
            ELSE In({"TxDirectAddrAck"}) /\ direct_addr_ack

\* The device that takes part in the round, and the bit that it sends.
daa_device == IF In({"HandleVirtualTargetENTDAA"}) THEN "virt" ELSE "main"
id_bit == <<"ID", daa_device, daa.bits>>

-----------------------------------------------------------------------------
\* The bytes of a GET are named by their place; two devices share the limits.
tx_data_id_init ==
    CASE ccc.code \in {"GETBCR", "GETDCR", "dRSTACT"} -> 1
      [] ccc.code \in {"GETSTATUS", "GETMWL"} -> 2
      [] ccc.code = "GETMRL" -> 3
      [] ccc.code = "GETPID" -> 6
      [] ccc.code = "GETCAPS" ->
            IF ~ccc.def_valid \/ ccc.def = "00" THEN 3
            ELSE IF ccc.def = "93" THEN 1 ELSE 0
      [] OTHER -> 0

\* Byte k counts down; the registers of the device are named by d.
RegisterByte(code, def, d, k) ==
    CASE code \in {"GETBCR", "GETDCR", "GETPID"} -> <<code, d, k>>
      [] code = "GETSTATUS" -> <<code, IF k = 1 THEN d ELSE "", k>>
      [] code = "GETMWL" -> <<code, csr.mwl[3 - k], k>>
      [] code = "GETMRL" -> <<code, IF k = 1 THEN csr.ibil ELSE csr.mrl[4 - k], k>>
      [] code = "GETCAPS" -> <<code, def, k>>
      [] OTHER -> <<code, "FF", k>>

\* A read of the armed action answers with it, one of the timings with FF.
tx_data ==
    IF ccc.code = "dRSTACT" /\ ccc.def \in {"00", "01", "02"}
    THEN <<ccc.code, rst.action, ccc.tx_id>>
    ELSE RegisterByte(ccc.code, IF ccc.def_valid THEN ccc.def ELSE "00",
                      IF is_byte_addr("virt") THEN "virt" ELSE "main", ccc.tx_id)

-----------------------------------------------------------------------------
TbitOk(i) == i.rx_data.b = (i.ccc \in TbitOne)

AfterTbit(i) ==
    IF ~TbitOk(i) THEN "CCCError"
    ELSE IF ccc.code = "GETCAPS" THEN "RxDefByteOrBusCond"
    ELSE IF have_defining_byte THEN "RxDefByte"
    ELSE IF ccc.code = "ENTDAA"
         THEN IF \E d \in Devices : ~assigned(d) THEN "HandleENTDAA" ELSE "Idle"
    ELSE IF is_direct_cmd THEN "RxByte" ELSE "RxData"

AfterAddrAck ==
    IF ccc.code = "SETDASA"
    THEN IF /\ \E d \in Devices : is_byte_our_static_addr(d)
            /\ \A d \in Devices : is_byte_our_static_addr(d) => ~assigned(d)
         THEN "RxData" ELSE "WaitForBusCond"
    ELSE IF is_incorrect_byte_match THEN "CCCError"
    ELSE IF is_byte_rsvd_addr THEN "NextCCC"
    ELSE IF ~is_byte_ours \/ ~supported_direct_command \/ direction_error
         THEN "WaitForBusCond"
    ELSE IF ccc.rnw THEN "TxData"
    ELSE IF ccc.code = "SETXTIME" THEN "RxSubCmdByte" ELSE "RxData"

AfterENTDAA ==
    IF ~assigned("virt") THEN "HandleVirtualTargetENTDAA" ELSE "HandleDoneENTDAA"

\* States that a done pulse of the flows leaves.
OnDone(i, done, next) == IF done THEN next ELSE ccc.state
\* States that a repeated START leaves for the next address.
OrRestart(i, done, next) ==
    IF i.rstart THEN "RxDirectAddr" ELSE OnDone(i, done, next)

ControlState(i, in_hdr) ==
    CASE In({"Idle"}) -> IF in_hdr THEN "Idle" ELSE "WaitCCC"
      [] In({"WaitCCC"}) -> IF in_hdr THEN "Idle"
                            ELSE IF i.ccc_valid THEN "RxTbit" ELSE "WaitCCC"
      [] In({"NextCCC"}) -> "WaitCCC"
      [] In({"DoneCCC", "CCCError", "RxSubCmdByte"}) -> "Idle"
      [] In({"HandleENTDAA"}) ->
            IF ~assigned("main") THEN "HandleTargetENTDAA" ELSE AfterENTDAA
      [] In({"HandleTargetENTDAA"}) ->
            OnDone(i, daa.state = "Done", AfterENTDAA)
      [] In({"HandleVirtualTargetENTDAA"}) ->
            OnDone(i, daa.state = "Done", "HandleDoneENTDAA")
      [] OTHER -> ccc.state

DataState(i) ==
    CASE In({"RxTbit"}) -> OnDone(i, i.rx_done, AfterTbit(i))
      [] In({"RxDefByte"}) -> OnDone(i, i.rx_done, "RxDefByteTbit")
      [] In({"RxDefByteOrBusCond"}) -> OrRestart(i, i.rx_done, "RxDefByteTbit")
      [] In({"RxDefByteTbit"}) ->
            OnDone(i, i.rx_done, IF is_direct_cmd THEN "RxByte" ELSE "RxData")
      [] In({"RxByte"}) -> OrRestart(i, i.rx_done, "RxDirectDefByteTbit")
      [] In({"RxDirectDefByteTbit"}) -> OnDone(i, i.rx_done, "RxByte")
      [] In({"RxDirectAddr"}) -> OnDone(i, i.rx_done, "TxDirectAddrAck")
      [] In({"TxDirectAddrAck"}) -> OnDone(i, i.tx_done, AfterAddrAck)
      [] In({"RxData"}) -> OrRestart(i, i.rx_done, "RxDataTbit")
      [] In({"RxDataTbit"}) -> OnDone(i, i.rx_done, "RxData")
      [] In({"TxData"}) -> OrRestart(i, i.tx_done, "TxDataTbit")
      [] In({"TxDataTbit"}) ->
            OrRestart(i, i.tx_done, IF tx_data_done THEN "WaitForBusCond" ELSE "TxData")
      [] In({"WaitForBusCond"}) -> OrRestart(i, FALSE, "WaitForBusCond")

ControlStates == {"Idle", "WaitCCC", "NextCCC", "DoneCCC", "CCCError",
                  "RxSubCmdByte", "HandleENTDAA", "HandleTargetENTDAA",
                  "HandleVirtualTargetENTDAA", "HandleDoneENTDAA"}
DataStates == {"RxTbit", "RxDefByte", "RxDefByteOrBusCond", "RxDefByteTbit",
               "RxByte", "RxDirectDefByteTbit", "RxDirectAddr",
               "TxDirectAddrAck", "RxData", "RxDataTbit", "TxData",
               "TxDataTbit", "WaitForBusCond"}
is_in_hdr_mode == pulse.hdr
ccc_state_d(i) == IF i.stop THEN "DoneCCC"
              ELSE IF ccc.state \in ControlStates THEN ControlState(i, is_in_hdr_mode)
              ELSE DataState(i)

done_fsm == In({"DoneCCC", "CCCError"})
invalid_ccc == In({"CCCError"})
next_ccc == In({"NextCCC"})

-----------------------------------------------------------------------------
\* ccc_entdaa: 7E and RnW 1, the ID bit by bit, and the address with its parity.
daa_d(i) ==
    CASE daa.state = "Idle" -> IF entdaa THEN "WaitStart" ELSE "Idle"
      [] daa.state = "WaitStart" -> IF i.rstart THEN "ReceiveRsvdByte" ELSE "WaitStart"
      [] daa.state = "ReceiveRsvdByte" ->
            IF ~i.rx_done THEN daa.state
            ELSE IF i.rx_data = [a |-> "7E", b |-> TRUE] THEN "AckRsvdByte"
            ELSE "SendNack"
      [] daa.state = "AckRsvdByte" -> IF i.tx_done THEN "SendID" ELSE daa.state
      [] daa.state = "SendNack" -> IF i.tx_done THEN "Error" ELSE daa.state
      [] daa.state = "SendID" -> "PrepareIDBit"
      [] daa.state = "PrepareIDBit" -> IF daa.bits # 0 THEN "SendIDBit" ELSE daa.state
      [] daa.state = "SendIDBit" ->
            IF i.arb_lost THEN "LostArbitration"
            ELSE IF ~i.tx_done THEN daa.state
            ELSE IF daa.bits = 0 THEN "ReceiveAddr" ELSE "PrepareIDBit"
      [] daa.state = "ReceiveAddr" ->
            IF ~i.rx_done THEN daa.state
            ELSE IF i.rx_data.b THEN "AckAddr" ELSE "SendNack"
      [] daa.state = "AckAddr" -> IF i.tx_done THEN "Done" ELSE daa.state
      [] daa.state = "LostArbitration" -> "Error"
      [] daa.state \in {"Done", "Error"} -> "Idle"

\* The counter of id_bit_counter has 7 bits.
Entdaa(i) ==
    daa' = [state |-> IF i.stop THEN "Done" ELSE daa_d(i),
            bits |-> IF daa.state = "SendID" THEN IdBits
                     ELSE IF daa.state = "PrepareIDBit" THEN (daa.bits + 127) % 128
                     ELSE daa.bits]

-----------------------------------------------------------------------------
\* Mutant: the count goes on from one addressed segment to the next.
RxCountKept(i) ==
    IF In({"WaitCCC"}) /\ i.ccc_valid THEN 0
    ELSE IF rx_done_in(i, "RxDataTbit") THEN (ccc.rx_count + 1) % 256
    ELSE ccc.rx_count
RxCount(i) ==
    IF (In({"WaitCCC"}) /\ i.ccc_valid) \/ rx_done_in(i, "RxDirectAddr") THEN 0
    ELSE IF rx_done_in(i, "RxDataTbit") THEN (ccc.rx_count + 1) % 256
    ELSE ccc.rx_count

TxId(i) ==
    IF In({"TxDirectAddrAck", "RxTbit"}) THEN tx_data_id_init
    ELSE IF tx_done_in(i, "TxData") THEN (ccc.tx_id + 255) % 256
    ELSE ccc.tx_id

Command(i) ==
    LET to == rx_done_in(i, "RxDirectAddr")
        def == rx_done_in(i, "RxDefByte") \/ rx_done_in(i, "RxDefByteOrBusCond")
        no_def == In({"RxDefByteOrBusCond"}) /\ i.rstart
    IN  ccc' = [state |-> ccc_state_d(i),
                code |-> IF i.ccc_valid THEN i.ccc
                         ELSE IF i.hdr_exit THEN None ELSE ccc.code,
                addr |-> IF to THEN i.rx_data.a ELSE ccc.addr,
                rnw |-> IF to THEN i.rx_data.b ELSE ccc.rnw,
                addr_valid |-> to,
                def |-> IF def THEN i.rx_data.a
                        ELSE IF no_def THEN "00" ELSE ccc.def,
                def_valid |-> def \/ (ccc.def_valid /\ ~no_def),
                rx_data |-> IF rx_done_in(i, "RxData") THEN i.rx_data
                            ELSE ccc.rx_data,
                rx_count |-> RxCount(i),
                tx_id |-> TxId(i)]

-----------------------------------------------------------------------------
\* The byte that is complete with this T bit, if the command is among codes.
TakesData(i, codes) ==
    /\ ccc.code \in codes /\ rx_done_in(i, "RxDataTbit")
    /\ is_direct_cmd => ~is_byte_rsvd_addr
TakesByte(i, codes, n) == TakesData(i, codes) /\ ccc.rx_count = n
LimitByte(i, codes, n, old) == IF TakesByte(i, codes, n) THEN ccc.rx_data.a ELSE old
MwlCodes == {"SETMWL", "dSETMWL"}
MrlCodes == {"SETMRL", "dSETMRL"}

Pulses(i) ==
    pulse' =
      [dasa |-> LimitByte(i, {"SETDASA"}, 0, None),
       newda |-> LimitByte(i, {"SETNEWDA"}, 0, None),
       aasa |-> IF ccc.code = "SETAASA" /\ rx_done_in(i, "RxTbit")
                THEN {d \in Devices : ~assigned(d)} ELSE {},
       rstdaa |-> ccc.code = "RSTDAA" /\ rx_done_in(i, "RxTbit"),
       mwl |-> [k \in 1 .. 2 |-> LimitByte(i, MwlCodes, k - 1, pulse.mwl[k])],
       mrl |-> [k \in 1 .. 2 |-> LimitByte(i, MrlCodes, k - 1, pulse.mrl[k])],
       ibil |-> LimitByte(i, MrlCodes, 2, pulse.ibil),
       set |-> IF TakesByte(i, MwlCodes, 1) THEN "mwl"
               ELSE IF TakesByte(i, MrlCodes, 1) THEN "mrl"
               ELSE IF TakesByte(i, MrlCodes, 2) THEN "ibil" ELSE None,
       enec |-> TakesByte(i, {"ENEC", "dENEC"}, 0) /\ ccc.rx_data.a = "ibi",
       disec |-> TakesByte(i, {"DISEC", "dDISEC"}, 0) /\ ccc.rx_data.a = "ibi",
       rstact |-> \/ ccc.code = "dRSTACT" /\ ccc.addr_valid
                     /\ is_byte_addr("main") /\ ~ccc.rnw
                  \/ ccc.code = "RSTACT" /\ rx_done_in(i, "RxDefByteTbit"),
       hdr |-> IF rx_done_in(i, "RxTbit") /\ TbitOk(i) THEN ccc.code = "ENTHDR"
               ELSE pulse.hdr /\ ~i.hdr_exit]

-----------------------------------------------------------------------------
\* wire_address_setting: set_newda comes from SETNEWDA or, combinationally,
\* from the address byte of ENTDAA.
entdaa_address_valid(i) ==
    /\ daa.state = "ReceiveAddr" /\ i.rx_done
    /\ In({"HandleTargetENTDAA", "HandleVirtualTargetENTDAA"})
set_newda(i) == pulse.newda # None \/ entdaa_address_valid(i)
newda(i) == IF pulse.newda # None THEN pulse.newda ELSE i.rx_data.a
Chosen(is_virtual) == IF is_virtual THEN "virt" ELSE "main"
\* Mutant: SETNEWDA always renames the main target.
newda_device_main(i) == Chosen(pulse.newda = None /\ In({"HandleVirtualTargetENTDAA"}))
newda_device(i) == Chosen(IF pulse.newda # None THEN is_byte_our_dynamic_addr("virt")
                          ELSE In({"HandleVirtualTargetENTDAA"}))

DynamicAddresses(i) ==
    IF pulse.rstdaa THEN [d \in Devices |-> None]
    ELSE IF pulse.dasa # None
         THEN [csr.dyn EXCEPT ![Chosen(is_byte_addr("virt"))] = pulse.dasa]
    ELSE IF set_newda(i) THEN [csr.dyn EXCEPT ![newda_device(i)] = newda(i)]
    ELSE [d \in Devices |-> IF d \in pulse.aasa THEN csr.sta[d] ELSE csr.dyn[d]]

Registers(i) ==
    csr' = [sta |-> csr.sta,
            dyn |-> DynamicAddresses(i),
            mwl |-> IF pulse.set = "mwl" THEN pulse.mwl ELSE csr.mwl,
            mrl |-> IF pulse.set = "mrl" THEN pulse.mrl ELSE csr.mrl,
            ibil |-> IF pulse.set = "ibil" THEN pulse.ibil ELSE csr.ibil,
            ibi_en |-> IF pulse.enec \/ pulse.disec THEN pulse.enec ELSE csr.ibi_en]

-----------------------------------------------------------------------------
Clears(i) == i.ccc_valid /\ ccc.code \in {"RSTACT", "dRSTACT", "GETSTATUS"}
Acts(action) == rst.valid /\ rst.action_o = action
\* A pattern without RSTACT resets the peripheral first, then everything.
ByDefault(i, escalated) ==
    i.reset_detect /\ ~rst.armed /\ rst.escalate = escalated

\* Mutant: the armed action survives the next START.
ArmedKept(i) == rst.armed \/ pulse.rstact
Armed(i) == ~i.start /\ (rst.armed \/ pulse.rstact)

Resets(i) ==
    rst' = [armed |-> Armed(i),
            action |-> IF i.start THEN "00"
                       ELSE IF pulse.rstact THEN ccc.def ELSE rst.action,
            valid |-> ~i.start /\ (rst.valid \/ (rst.armed /\ i.reset_detect)),
            action_o |-> IF i.start THEN "00"
                         ELSE IF rst.armed /\ i.reset_detect THEN rst.action
                         ELSE rst.action_o,
            escalate |-> ~Clears(i) /\ (rst.escalate \/ i.reset_done),
            peripheral |-> /\ ~i.reset_done
                           /\ rst.peripheral \/ Acts("01") \/ ByDefault(i, FALSE),
            escalated |-> rst.escalated \/ Acts("02") \/ ByDefault(i, TRUE)]

CccStep(i) == Command(i) /\ Entdaa(i) /\ Pulses(i) /\ Registers(i) /\ Resets(i)

DaaStates == {"Idle", "WaitStart", "ReceiveRsvdByte", "AckRsvdByte", "SendNack",
              "SendID", "PrepareIDBit", "SendIDBit", "LostArbitration",
              "ReceiveAddr", "AckAddr", "Done", "Error"}
CccTypeOK ==
    /\ ccc.state \in ControlStates \union DataStates
    /\ ccc.rx_count \in 0 .. 255 /\ ccc.tx_id \in 0 .. 6
    /\ daa.state \in DaaStates /\ daa.bits \in 0 .. IdBits
    /\ rst.escalate \in BOOLEAN /\ DOMAIN csr.dyn = Devices
=============================================================================
