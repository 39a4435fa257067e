----------------------------- MODULE TargetIbi -----------------------------
(***************************************************************************)
(* In-band interrupts: the target FSM, the IBI module (ibi.sv), the IBI    *)
(* queue and descriptor_ibi, the multiplexer that gives the bus flows to   *)
(* one of them (controller_standby_i3c.sv), on a bus with an active        *)
(* controller.  One step is one clock; at most one bus event happens in a  *)
(* clock, and Gap clocks at least lie between two of them, because SCL is  *)
(* far slower than the clock (doc/source/phy.md).                          *)
(***************************************************************************)
EXTENDS DescriptorIbi, TargetFsm

CONSTANTS IBI_RETRY_NUM,   \* TTI.CONTROL.IBI_RETRY_NUM
          THdDat,          \* t_hd_dat_i
          Gap,             \* clocks without a bus event between two
          Addresses,       \* headers the controller sends
          IbiEnValues,     \* values software gives TTI.CONTROL.IBI_EN
          AddrValidValues  \* values of target_ibi_addr_valid

\* All ones in the 20 bits of tcount: the counter rests.
NoCount == 1024 * 1024 - 1

ASSUME IbiAssumption ==
    /\ IBI_RETRY_NUM \in 0..7
    /\ THdDat \in Nat /\ THdDat <= NoCount
    /\ Gap \in Nat
    /\ Addresses \subseteq Headers
    /\ IbiEnValues \subseteq BOOLEAN /\ TRUE \in IbiEnValues
    /\ AddrValidValues \subseteq BOOLEAN

VARIABLES ibi, ibi_status, ibi_retry_cnt, tcount,  \* ibi.sv
          xfer_mux_sel,                            \* controller_standby_i3c.sv
          ccc,                                     \* handshake of ccc.sv
          IBI_EN,                                  \* TTI.CONTROL.IBI_EN
          target_ibi_addr_valid,  \* there is a static or dynamic address
          bus, header, acked, ours,                \* the transfer on the bus
          aligned,     \* a byte request was up when the byte began
          level,       \* bus_timers: 0 busy, 1 free, 2 available, 3 idle
          calm,        \* clocks since the last bus event
          sent,        \* history: bytes that the bus has carried in this IBI
          outcome      \* history: what the bus has seen of the message at hand

ibiVars == <<ibi, ibi_status, ibi_retry_cnt, tcount>>
busVars == <<bus, header, acked, ours, aligned, level, calm>>
history == <<sent, outcome>>
vars == <<descVars, fsmVars, ibiVars, busVars, xfer_mux_sel, ccc, IBI_EN,
          target_ibi_addr_valid, history>>

IbiStates == {"Idle", "WaitAvail", "DriveStart", "DriveAddr", "ReadAck",
              "WaitForSclNegedgeAfterAck", "SendData", "SendTbit",
              "WaitStopOrRstart", "Flush", "Done"}
IbiStatus == {"Success", "FailureNack", "FailurePartialData", "FailureRetry"}
BusPhases == {"Quiet", "Start", "HeaderLow", "Header", "Ack", "AckHigh",
              "DataLow", "Data", "Tbit"}
Outcomes == {"none", "refused", "cut", "overrun", "carried"}

Init ==
    /\ DescriptorInit /\ FsmInit
    /\ ibi = "Idle" /\ ibi_status = "Success"
    /\ ibi_retry_cnt = 7 /\ tcount = NoCount
    /\ xfer_mux_sel = "Fsm" /\ ccc = "WaitCCC" /\ IBI_EN = TRUE
    /\ bus = "Quiet" /\ header = NoHeader /\ level = 0 /\ calm = 0
    /\ acked = FALSE /\ ours = FALSE /\ aligned = FALSE
    /\ target_ibi_addr_valid \in AddrValidValues
    /\ sent = 0 /\ outcome = "none"

-----------------------------------------------------------------------------
\* What the bus flows are asked to do by the module that the mux selects.
rx_byte == xfer_mux_sel = "Fsm" /\ fsm_rx_byte
rx_bit == \/ xfer_mux_sel = "Fsm" /\ fsm_rx_bit
          \/ xfer_mux_sel = "Ibi" /\ ibi = "ReadAck"
tx_byte == \/ xfer_mux_sel = "Fsm" /\ fsm_tx_byte
           \/ xfer_mux_sel = "Ibi" /\ ibi \in {"DriveAddr", "SendData"}
tx_bit == \/ xfer_mux_sel = "Fsm" /\ fsm_tx_bit
          \/ xfer_mux_sel = "Ibi" /\ ibi = "SendTbit"
pulls_sda == ibi = "DriveStart"

\* The pulses of one clock: bus conditions, the SCL edge, and the completion
\* of a reception or transmission.
NoPulse == [start |-> FALSE, rstart |-> FALSE, stop |-> FALSE, neg |-> FALSE,
            arb |-> FALSE, rx |-> FALSE, data |-> NoHeader, nack |-> FALSE,
            tx |-> FALSE]
bus_free == level >= 1
bus_available == level >= 2
bus_idle == level = 3

\* done_o: also when the arbitration of the address is lost.
ibi_done(p) == ibi = "Done" \/ (ibi = "DriveAddr" /\ p.arb /\ ~p.tx)
ibi_can_retry == IBI_RETRY_NUM = 7 \/ IBI_RETRY_NUM # ibi_retry_cnt

\* What the target FSM sees of a clock.
FsmInput(p) ==
    [Quiet EXCEPT
        !.start = p.start \/ p.rstart, !.stop = p.stop,
        !.rx_done = xfer_mux_sel = "Fsm" /\ p.rx, !.rx_data = p.data,
        !.tx_done = xfer_mux_sel = "Fsm" /\ p.tx,
        !.ibi_request = ibi_byte_valid /\ IBI_EN /\ bus_free,
        !.ibi_done = ibi_done(p),
        !.ccc_done = ccc \in {"Done", "Error"}, !.ccc_invalid = ccc = "Error",
        !.ccc_next = ccc = "Next", !.bus_idle = bus_idle]

\* Mutant: the state register misses the loss of the arbitration.
IbiArbitrateDeaf(p) ==
    \/ /\ ibi = "Idle"
       /\ ibi' = IF ~(ibi_begin(FsmInput(p)) /\ target_ibi_addr_valid)
                 THEN "Idle"
                 ELSE IF ibi_can_retry THEN "WaitAvail" ELSE "Flush"
    \/ /\ ibi = "WaitAvail"
       /\ ibi' = IF p.stop THEN "Done"
                 ELSE IF bus_available THEN "DriveStart" ELSE ibi
    \/ /\ ibi = "DriveStart"
       /\ ibi' = IF p.stop THEN "Done"
                 ELSE IF (THdDat = 0 /\ p.neg) \/ tcount = 0
                      THEN "DriveAddr" ELSE ibi
    \/ /\ ibi = "DriveAddr"
       /\ ibi' = IF p.stop THEN "Done" ELSE IF p.tx THEN "ReadAck" ELSE ibi
    \/ /\ ibi = "ReadAck"
       /\ ibi' = IF p.stop THEN "Done" ELSE IF ~p.rx THEN ibi
                 ELSE IF p.nack THEN "WaitStopOrRstart"
                 ELSE "WaitForSclNegedgeAfterAck"

\* The state register of ibi.sv up to the ACK, and from there on.
IbiArbitrate(p) ==
    \/ /\ ibi = "Idle"
       /\ ibi' = IF ~(ibi_begin(FsmInput(p)) /\ target_ibi_addr_valid)
                 THEN "Idle"
                 ELSE IF ibi_can_retry THEN "WaitAvail" ELSE "Flush"
    \/ /\ ibi = "WaitAvail"
       /\ ibi' = IF p.stop THEN "Done"
                 ELSE IF bus_available THEN "DriveStart" ELSE ibi
    \/ /\ ibi = "DriveStart"
       /\ ibi' = IF p.stop THEN "Done"
                 ELSE IF (THdDat = 0 /\ p.neg) \/ tcount = 0
                      THEN "DriveAddr" ELSE ibi
    \/ /\ ibi = "DriveAddr"
       /\ ibi' = IF p.stop THEN "Done" ELSE IF p.tx THEN "ReadAck"
                 ELSE IF p.arb THEN "WaitStopOrRstart" ELSE ibi
    \/ /\ ibi = "ReadAck"
       /\ ibi' = IF p.stop THEN "Done" ELSE IF ~p.rx THEN ibi
                 ELSE IF p.nack THEN "WaitStopOrRstart"
                 ELSE "WaitForSclNegedgeAfterAck"

\* Mutant: an aborted IBI does not wait until the message is flushed.
IbiTransferNoFlush(p) ==
    \/ /\ ibi = "WaitForSclNegedgeAfterAck"
       /\ ibi' = IF p.neg THEN "SendData" ELSE ibi
    \/ /\ ibi = "SendData"
       /\ ibi' = IF p.stop THEN "Done" ELSE IF p.tx THEN "SendTbit" ELSE ibi
    \/ /\ ibi = "SendTbit"
       /\ ibi' = IF p.stop THEN "Done" ELSE IF ~p.tx THEN ibi
                 ELSE IF ibi_byte_last THEN "Done" ELSE "SendData"
    \/ /\ ibi = "WaitStopOrRstart"
       /\ ibi' = IF p.stop \/ p.rstart THEN "Idle" ELSE ibi
    \/ ibi = "Flush" /\ ibi' = IF ibi_byte_valid THEN ibi ELSE "Done"
    \/ ibi = "Done" /\ ibi' = "Idle"

IbiTransfer(p) ==
    \/ /\ ibi = "WaitForSclNegedgeAfterAck"
       /\ ibi' = IF p.neg THEN "SendData" ELSE ibi
    \/ /\ ibi = "SendData"
       /\ ibi' = IF p.stop THEN "Flush" ELSE IF p.tx THEN "SendTbit" ELSE ibi
    \/ /\ ibi = "SendTbit"
       /\ ibi' = IF p.stop THEN "Flush" ELSE IF ~p.tx THEN ibi
                 ELSE IF ibi_byte_last THEN "Done" ELSE "SendData"
    \/ /\ ibi = "WaitStopOrRstart"
       /\ ibi' = IF p.stop \/ p.rstart THEN "Idle" ELSE ibi
    \/ ibi = "Flush" /\ ibi' = IF ibi_byte_valid THEN ibi ELSE "Done"
    \/ ibi = "Done" /\ ibi' = "Idle"

\* n - 1 in 20 bits
Decrement(n) == IF n = 0 THEN NoCount ELSE n - 1

\* SCL fall time counter
Tcount(p) ==
    tcount' = IF pulls_sda /\ p.neg THEN Decrement(THdDat)
              ELSE IF tcount = NoCount THEN tcount ELSE Decrement(tcount)

\* Mutant: the byte is taken all through the T bit.
ibi_byte_readyEager(p) == ibi \in {"SendTbit", "Flush"}

\* Data FIFO control: ibi_byte_ready_o
ibi_byte_ready(p) == (ibi = "SendTbit" /\ p.tx) \/ ibi = "Flush"

Worse(failure) == IF ibi_status = "Success" THEN failure ELSE "FailureRetry"

\* Mutant: only a STOP in the T bit counts as a failure.
StatusNoCut(p) ==
    ibi_status' =
        IF ibi = "SendTbit" /\ p.stop THEN Worse("FailurePartialData")
        ELSE IF ibi = "SendTbit" /\ p.tx /\ ibi_byte_last THEN "Success"
        ELSE IF ibi = "ReadAck" /\ p.rx /\ p.nack THEN Worse("FailureNack")
        ELSE ibi_status

Status(p) ==
    ibi_status' =
        IF ibi \in {"SendData", "SendTbit"} /\ p.stop
        THEN Worse("FailurePartialData")
        ELSE IF ibi = "SendTbit" /\ p.tx /\ ibi_byte_last THEN "Success"
        ELSE IF ibi = "ReadAck" /\ p.rx /\ p.nack THEN Worse("FailureNack")
        ELSE ibi_status

RetryCount ==
    ibi_retry_cnt' =
        IF ibi # "Done" THEN ibi_retry_cnt
        ELSE IF ibi_status = "FailureNack" THEN (ibi_retry_cnt + 1) % 8 ELSE 7

Ibi(p) ==
    LET q == [p EXCEPT !.rx = @ /\ xfer_mux_sel = "Ibi",
                       !.tx = @ /\ xfer_mux_sel = "Ibi"]
    IN  /\ IbiArbitrate(q) \/ IbiTransfer(q)
        /\ Tcount(q) /\ Status(q) /\ RetryCount
        /\ Descriptor(ibi_byte_ready(q))

\* ibi_begin and ccc_valid belong to different states of the target FSM.
Mux(p) ==
    xfer_mux_sel' =
        CASE xfer_mux_sel = "Fsm" /\ ibi_begin(FsmInput(p)) -> "Ibi"
          [] xfer_mux_sel = "Fsm" /\ ccc_valid -> "Ccc"
          [] xfer_mux_sel = "Ccc" /\ ccc \in {"Done", "Error", "Next"} -> "Fsm"
          [] xfer_mux_sel = "Ibi" /\ ibi_done(p) -> "Fsm"
          [] OTHER -> xfer_mux_sel

\* The handshake of ccc.sv: a STOP always ends in DoneCCC; while a command is
\* processed it may also meet a new 7E header or a parity error.
Ccc(p) ==
    \/ p.stop /\ ccc' = "Done"
    \/ /\ ~p.stop /\ ccc = "WaitCCC"
       /\ ccc' = IF ccc_valid THEN "Busy" ELSE "WaitCCC"
    \/ ~p.stop /\ ccc = "Busy" /\ ccc' = "Busy"
    \/ ~p.stop /\ ccc = "Busy" /\ p.neg /\ ccc' \in {"Next", "Error"}
    \/ ~p.stop /\ ccc \in {"Next", "Error", "Done"} /\ ccc' = "WaitCCC"

Device(p) ==
    /\ FsmStep(FsmInput(p)) /\ Mux(p) /\ Ccc(p) /\ Ibi(p)
    /\ IBI_EN' \in IbiEnValues
    /\ target_ibi_addr_valid' \in AddrValidValues

\* The history is what the bus sees, whatever ibi.sv makes of it: bytes whose
\* T bit went by in the target's own transfer, and the end that it took.  A
\* new message starts a new one.
History(n, o) == sent' = n /\ outcome' = IF desc = "DescPop" THEN "none" ELSE o
NoNews == History(sent, outcome)
-----------------------------------------------------------------------------
\* The bus.  Next bus event: the controller's, unless the device pulls SDA.
BusEvent == calm = Gap /\ calm' = 0
FromTo(from, to) == bus = from /\ bus' = to
\* A reception that began in the middle of a byte ends anywhere, with anything.
LateByte == rx_byte /\ ~aligned

\* A clock without a bus event.
Tick == /\ calm' = IF calm < Gap THEN calm + 1 ELSE Gap
        /\ Device(NoPulse) /\ NoNews
        /\ UNCHANGED <<bus, header, acked, ours, aligned, level>>

\* The next timer of bus_timers expires.
LevelRises ==
    /\ bus = "Quiet" /\ ~pulls_sda /\ level < 3 /\ calm = Gap
    /\ level' = level + 1
    /\ Device(NoPulse) /\ NoNews
    /\ UNCHANGED <<bus, header, acked, ours, aligned, calm>>

StartCondition ==
    /\ BusEvent /\ FromTo("Quiet", "Start") /\ level' = 0
    /\ Device([NoPulse EXCEPT !.start = TRUE]) /\ NoNews
    /\ UNCHANGED <<header, acked, ours, aligned>>

SclFalls ==
    /\ BusEvent /\ FromTo("Start", "HeaderLow")
    /\ Device([NoPulse EXCEPT !.neg = TRUE, !.tx = tx_bit]) /\ NoNews
    /\ UNCHANGED <<header, acked, ours, aligned, level>>

\* t_hd_dat is shorter than the low phase of SCL: DriveStart is over.  After a
\* repeated START that has cut an IBI short, a header is the controller's.
FirstBit ==
    /\ BusEvent /\ FromTo("HeaderLow", "Header") /\ ~pulls_sda
    /\ \/ ours' = FALSE /\ header' \in Addresses
       \/ ibi = "DriveAddr" /\ ours' = TRUE /\ header' = NoHeader
    /\ aligned' = rx_byte
    /\ Device(NoPulse)
    /\ IF ours' THEN History(0, outcome)
       ELSE History(sent, IF ours THEN "overrun" ELSE outcome)
    /\ UNCHANGED <<acked, level>>

LoseArbitration ==
    /\ BusEvent /\ bus = "Header" /\ ibi = "DriveAddr" /\ ~ours
    /\ Device([NoPulse EXCEPT !.arb = TRUE]) /\ NoNews
    /\ UNCHANGED <<bus, header, acked, ours, aligned, level>>

HeaderEnd ==
    /\ BusEvent /\ FromTo("Header", "Ack") /\ (ibi = "DriveAddr" => ours)
    /\ \E h \in IF LateByte THEN Addresses ELSE {header},
          done \in IF LateByte THEN BOOLEAN ELSE {rx_byte} :
         Device([NoPulse EXCEPT !.rx = done, !.data = h, !.tx = tx_byte])
    /\ NoNews /\ UNCHANGED <<header, acked, ours, aligned, level>>

\* ACK: by the controller for an IBI, by the addressed target otherwise.
AckBit ==
    /\ BusEvent /\ FromTo("Ack", "AckHigh")
    /\ acked' \in IF header.addr = "ours" /\ xfer_mux_sel = "Fsm"
                  THEN {fsm_tx_bit} ELSE BOOLEAN
    /\ Device([NoPulse EXCEPT !.rx = rx_bit, !.nack = ~acked'])
    /\ History(sent, IF ours /\ ~acked' THEN "refused" ELSE outcome)
    /\ UNCHANGED <<header, ours, aligned, level>>

AckEnd ==
    /\ BusEvent /\ FromTo("AckHigh", "DataLow")
    /\ Device([NoPulse EXCEPT !.neg = TRUE, !.tx = tx_bit]) /\ NoNews
    /\ UNCHANGED <<header, acked, ours, aligned, level>>

DataFirstBit ==
    /\ BusEvent /\ FromTo("DataLow", "Data") /\ acked
    /\ aligned' = rx_byte
    /\ Device(NoPulse) /\ NoNews
    /\ UNCHANGED <<header, acked, ours, level>>

DataEnd ==
    /\ BusEvent /\ FromTo("Data", "Tbit")
    /\ \E h \in IF LateByte THEN Addresses ELSE {NoHeader},
          done \in IF LateByte THEN BOOLEAN ELSE {rx_byte} :
         Device([NoPulse EXCEPT !.rx = done, !.data = h, !.tx = tx_byte])
    /\ NoNews /\ UNCHANGED <<header, acked, ours, aligned, level>>

\* After a T bit of 0 in an IBI the controller ends the transfer.  A message
\* of len data bytes is carried with its mandatory byte and all of them.
TbitEnd ==
    /\ BusEvent /\ FromTo("Tbit", "DataLow")
    /\ acked' = (ours => ibi = "SendTbit" /\ ~ibi_byte_last)
    /\ Device([NoPulse EXCEPT !.neg = TRUE, !.rx = rx_bit, !.tx = tx_bit])
    /\ IF ours THEN History(sent + 1, IF sent = head.len THEN "carried" ELSE outcome)
       ELSE NoNews
    /\ UNCHANGED <<header, ours, aligned, level>>

\* Between bytes when the controller sends; in the T bit to cut an IBI short.
RepeatedStart ==
    /\ BusEvent
    /\ \/ bus = "DataLow" /\ (ours => ~acked)
       \/ bus = "Tbit" /\ ours /\ ~ibi_byte_last
    /\ bus' = "Start" /\ acked' = FALSE
    /\ Device([NoPulse EXCEPT !.rstart = TRUE])
    /\ ours' = (bus = "Tbit")
    /\ History(sent, IF bus = "Tbit" THEN "cut" ELSE outcome)
    /\ UNCHANGED <<header, aligned, level>>

\* After a transfer, or after the repeated START that has cut an IBI short.
StopCondition ==
    /\ BusEvent
    /\ \/ bus = "DataLow" /\ (ours => ~acked)
       \/ bus = "HeaderLow" /\ ours
    /\ bus' = "Quiet" /\ ours' = FALSE /\ acked' = FALSE
    /\ Device([NoPulse EXCEPT !.stop = TRUE]) /\ NoNews
    /\ UNCHANGED <<header, aligned, level>>

Next == \/ Tick \/ LevelRises \/ StartCondition \/ SclFalls \/ FirstBit
        \/ LoseArbitration \/ HeaderEnd \/ AckBit \/ AckEnd \/ DataFirstBit
        \/ DataEnd \/ TbitEnd \/ RepeatedStart \/ StopCondition

Spec == Init /\ [][Next]_vars

\* The target FSM waits, with the flows given away, for an IBI of which ibi.sv
\* knows nothing: it was begun without an address, or a repeated START followed
\* its refusal.
Stranded == fsm = "DoIBI" /\ ibi = "Idle"

\* The clock runs on, a transfer on the bus goes on, and the controller leaves
\* the bus quiet for long enough, acknowledges an IBI and lets one win the
\* arbitration again and again.  It uses the bus sooner or later while the
\* target is stranded, so that a STOP comes.
Fairness ==
    /\ WF_vars(Tick) /\ WF_vars(StartCondition /\ (pulls_sda \/ Stranded))
    /\ WF_vars(SclFalls) /\ WF_vars(FirstBit) /\ WF_vars(LoseArbitration)
    /\ WF_vars(HeaderEnd) /\ WF_vars(AckBit) /\ WF_vars(AckEnd)
    /\ WF_vars(DataFirstBit /\ ours) /\ WF_vars(DataEnd) /\ WF_vars(TbitEnd)
    /\ \A n \in 0..2 : SF_vars(LevelRises /\ level = n)
    /\ \A s \in {"Idle", "WaitHDRExitOrIdle"} :
          SF_vars(Tick /\ level = 3 /\ fsm = s)
    /\ SF_vars(StopCondition) /\ SF_vars(AckBit /\ ours /\ acked')
    /\ SF_vars(FirstBit /\ ours')
FairSpec == Spec /\ Fairness

-----------------------------------------------------------------------------
TypeOK ==
    /\ DescriptorTypeOK /\ FsmTypeOK
    /\ ibi \in IbiStates /\ ibi_status \in IbiStatus
    /\ ibi_retry_cnt \in 0..7 /\ tcount \in 0..NoCount
    /\ xfer_mux_sel \in {"Fsm", "Ccc", "Ibi"}
    /\ ccc \in {"WaitCCC", "Busy", "Done", "Next", "Error"}
    /\ bus \in BusPhases /\ header \in Headers
    /\ {IBI_EN, target_ibi_addr_valid, acked, ours, aligned} \subseteq BOOLEAN
    /\ level \in 0..3 /\ calm \in 0..Gap
    /\ sent \in 0..256 /\ outcome \in Outcomes

\* An IBI that goes onto the bus starts with the mandatory byte of a message
\* of which nothing has been handed over, also when it is a retry.
FreshStart ==
    ibi \in {"WaitAvail", "DriveStart", "DriveAddr", "ReadAck",
             "WaitForSclNegedgeAfterAck"} => desc = "WriteMdb"

\* While ibi.sv shifts out a data byte it never looks whether there is one.
NoUnderrun == ibi \in {"SendData", "SendTbit"} => ibi_byte_valid

\* The IBI module drives SDA only while the bus flows are its own and the
\* target FSM stands aside.
OneSpeaker ==
    ibi \in {"DriveStart", "DriveAddr", "ReadAck",
             "WaitForSclNegedgeAfterAck", "SendData", "SendTbit"}
        => fsm = "DoIBI" /\ xfer_mux_sel = "Ibi"

\* ibi_status_we_o, in the step from a state to the next.
status_we == \/ ibi = "Done"
             \/ ibi = "WaitStopOrRstart" /\ bus # "Quiet" /\ bus' = "Quiet"

\* A message that the controller has refused, or has cut short by a repeated
\* START and a STOP, is never reported to software as sent.  "overrun" is left
\* out: see CutReported.
FailureReported ==
    [][(status_we /\ outcome \in {"refused", "cut"})
           => ibi_status # "Success"]_vars

\* A message leaves the queue only with the byte that completes it on the bus,
\* its mandatory byte and all its data in one IBI, or when it is flushed; or
\* when a repeated START has cut it and ibi.sv runs on into the next header.
LeavesWhole ==
    [][(desc \in {"WriteMdb", "WriteData"} /\ desc' = "Idle")
           => (ibi = "Flush" \/ outcome' = "carried" \/ outcome = "overrun")]_vars

\* When the target keeps an address, the mandatory byte of a message that waits
\* is eventually taken, also one that was begun before there was an address.
IbiServed ==
    <>[]target_ibi_addr_valid => (desc = "WriteMdb" ~> desc # "WriteMdb")

\* LAST_IBI_STATUS (target_transaction_interface.rdl): "00 - Success: IBI was
\* transmitted and ACK'd by the Active Controller."
SuccessMeansSent ==
    [][(status_we /\ ibi_status = "Success") => (outcome = "carried")]_vars

\* LAST_IBI_STATUS: "10 - Failure: Active Controller NACK'd the IBI after partial
\* data was sent", also when the controller goes on with another header.
CutReported ==
    [][(status_we /\ outcome = "overrun") => ibi_status # "Success"]_vars

\* ibi.sv, when target_ibi_addr_valid_i is 0: "the module does not
\* respond to begin_i".  The target still hears the broadcast header, which comes
\* before every assignment of an address.
HeardUnaddressed ==
    Stranded /\ outcome # "refused" => ~(bus = "AckHigh" /\ header = Broadcast)

\* IBI_RETRY_NUM (target_transaction_interface.rdl): "0x0 - Device will never
\* retry."
NeverRetry ==
    IBI_RETRY_NUM = 0 => ~(ibi = "DriveAddr" /\ outcome = "refused")

\* IBI_RETRY_NUM: with 7 the device retries "until the Active Controller sets
\* DISINT bit in the DISEC command": a broadcast command that follows a
\* refused IBI is received.
HeardBroadcast ==
    bus = "AckHigh" /\ header = Broadcast /\ outcome = "refused" /\ ~ours
        => fsm = "TxAckFByte" /\ xfer_mux_sel = "Fsm"
=============================================================================
