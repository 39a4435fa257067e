------------------------ MODULE RecoveryReadProofs ------------------------
(***************************************************************************)
(* ResponseWhole and ReadAnswered of RecoveryTransfer, for the controllers *)
(* of ReadCalls, which send read commands and read their responses, in     *)
(* every order that the protocol has, with right and wrong PECs, known and *)
(* unknown codes, and transfers to others between them.  The invariant     *)
(* says for every place in a transfer, and for every clock after a command *)
(* is handed over, where receiver, executor, transmitter and descriptor_tx *)
(* are, and which bytes of the response are out.                           *)
(***************************************************************************)
EXTENDS RecoveryTransferProofs

\* The controllers: they keep to the protocol, and a byte takes longer on the
\* bus than the executor takes for the first byte of a response.
ReadCalls ==
    /\ Habits = {}
    /\ ShortGap \in Nat /\ ShortGap >= 5
    /\ LongGap \in Nat /\ LongGap >= ShortGap /\ LongGap >= 7
    /\ \A p \in Plans :
          /\ p.kind \in {"read", "response", "other", "broadcast"}
          /\ p.cmd \in Nat /\ p.good \in BOOLEAN

-----------------------------------------------------------------------------
(* The bus. *)

Reading == xfr.plan.kind = "read"
Virtual == Reading \/ IsRead
PecOf(p, tag) == IF p.good THEN Crc(tag, 2) ELSE BadPec

\* The response to the command taken up last: its CSRs, its bytes.
FirstOf == CsrsOf(current.plan.cmd)[1]
LenOf == CsrsOf(current.plan.cmd)[3]
Resp == ResponseTo(current.plan.cmd)
\* The bytes of it that the target FSM has taken, while it sends.
Out == IF phase = "Byte" THEN xfr.k ELSE xfr.k - 1

\* The target serves a read.
Served == IsRead /\ xfr.expected
Refused == IsRead /\ ~xfr.expected

ReadTypes ==
    /\ phase \in {"Quiet", "Byte", "Bit"} /\ calm \in 0 .. LongGap
    /\ xfr.plan \in AllPlans /\ xfr.tag \in {1, 2} /\ xfr.k \in Nat
    /\ xfr = [plan |-> xfr.plan, tag |-> xfr.tag, todo |-> xfr.todo, k |-> xfr.k,
              over |-> xfr.over, expected |-> xfr.expected]
    /\ xfr.over \in BOOLEAN /\ xfr.expected \in BOOLEAN
    /\ virtual_sel \in BOOLEAN /\ xfer_in_progress \in BOOLEAN /\ mode_enter \in 0 .. 2
    /\ current.plan \in AllPlans
    /\ DOMAIN hdr = {"cmd", "lsb", "msb", "pec"}

\* Where the target FSM is.
ReadFsmAt ==
    /\ phase = "Quiet" => fsm = "Idle"
    /\ phase = "Byte" /\ xfr.k = 0 => fsm \in {"RxFByte", "RxSByteRepeated"}
    /\ AtAck /\ calm = 0 => fsm \in {"CheckFByte", "CheckSByte"}
    /\ AtAck /\ calm > 0 =>
          \/ fsm \in {"TxAckFByte", "TxAckSByte"} /\ (Reading \/ Served)
          \/ fsm = "TxAckFByte" /\ xfr.plan.kind = "broadcast"
          \/ fsm = "Wait" /\ ~Reading /\ ~Served
    /\ phase = "Bit" /\ xfr.k > 1 =>
          \/ fsm = "RxPWriteTbit" /\ Reading
          \/ fsm = "TxPReadTbit" /\ Served
    /\ phase = "Byte" /\ xfr.k > 0 =>
          \/ fsm = "Wait" /\ xfr.over /\ xfr.k = 1 /\ ~Reading /\ ~Served
          \/ fsm = "RxSByte" /\ ~xfr.over /\ xfr.k = 1 /\ xfr.plan.kind = "broadcast"
          \/ fsm = "RxPWriteData" /\ ~xfr.over /\ Reading
          \/ fsm = "TxPReadData" /\ ~xfr.over /\ Served
          \/ fsm = "Wait" /\ xfr.over /\ xfr.k = LenOf + 4 /\ Served

\* The bytes of a read command that are still to be sent.
ToAsk == IF xfr.k <= 1 THEN <<xfr.plan.cmd, PecOf(xfr.plan, xfr.tag)>>
         ELSE IF xfr.k = 2 THEN <<PecOf(xfr.plan, xfr.tag)>> ELSE <<>>
ByteNow == IF xfr.k = 1 THEN 0
           ELSE IF xfr.k = 2 THEN xfr.plan.cmd ELSE PecOf(xfr.plan, xfr.tag)

ReadBusSide ==
    /\ ReadFsmAt
    /\ ~Between => bus_addr = HeaderOf(xfr.plan)
    /\ phase = "Bit" => xfr.k > 0
    /\ phase = "Bit" \/ (phase = "Byte" /\ xfr.k = 0) => ~xfr.over
    /\ xfr.todo = IF Reading THEN ToAsk ELSE <<>>
    /\ Reading => xfr.k <= 3
    /\ ~Virtual => xfr.k <= 1
    /\ Reading /\ ~Between => last_byte = [f |-> xfr.tag, k |-> xfr.k, v |-> ByteNow]
    /\ rx_valid <=> (Reading /\ phase = "Byte" /\ xfr.k > 1 /\ calm = 0)
    /\ ~parity_err

\* Who is selected.
ReadSelection ==
    /\ Checked /\ Virtual => virtual_sel /\ xfer_in_progress
    /\ Checked /\ ~Virtual => ~(virtual_sel /\ xfer_in_progress)
    /\ phase = "Quiet" /\ calm > 0 => ~xfer_in_progress
    /\ ~(AtAck /\ calm \in 1 .. 2) => mode_enter = IF virtual_sel THEN 0 ELSE 2
    /\ AtAck /\ calm = 2 => IF virtual_sel THEN mode_enter < 2 ELSE mode_enter = 2

\* The bytes that are out.
OutAt ==
    /\ IsPrefix(out, Resp)
    /\ phase # "Quiet" =>
          out = IF Served /\ xfr.k > 0 /\ ~AtAck
                THEN SubSeq(Resp, 1, IF xfr.over THEN LenOf + 3 ELSE Out) ELSE <<>>

-----------------------------------------------------------------------------
(* The stages of a read. *)

ExecOff == /\ exec = "Idle" /\ ~exec_pending /\ ~exec_cmd.valid /\ ~recv_cmd_valid
           /\ ~res_valid
TxdOff == ~descriptor_valid /\ ~tx_pending /\ byte_counter = 0 /\ ~tx_flush
SendOff == xmit = "Idle" /\ TxdOff /\ ~tx_end_xfer
Held == virtual_sel /\ xfer_in_progress /\ mode_enter = 0

\* The header of a read command has selected the virtual target.
ReadOpens ==
    /\ Reading /\ AtAck /\ calm \in 1 .. 2
    /\ ExecOff /\ SendOff /\ owed = <<>> /\ queue_select /\ ~bus_start_r
    /\ recv = "RxCmd" \/ (recv = "Idle" /\ calm = 1)
    /\ \/ mode_enter = 3 - calm /\ rx_crc = 0
       \/ mode_enter = 0 /\ rx_crc = Crc(xfr.tag, 1)

\* The receiver cuts the command.
ReadCut ==
    /\ Reading /\ Checked /\ ~(AtAck /\ calm <= 2)
    /\ ExecOff /\ SendOff /\ owed = <<>> /\ queue_select /\ ~bus_start_r /\ data_ready
    /\ rx_crc = Crc(xfr.tag, Got + 1)
    /\ Got = 0 => recv = "RxCmd"
    /\ Got = 1 => recv = "RxLenL"
    /\ Got = 2 => recv = "RxLenH" /\ hdr.lsb = PecOf(xfr.plan, xfr.tag)
                  /\ pec_calc = Crc(xfr.tag, 2)
    /\ Got >= 1 => hdr.cmd = [f |-> xfr.tag, k |-> 2, v |-> xfr.plan.cmd]

\* The header of the response is on the bus.
AtStart == IsRead /\ phase = "Byte" /\ xfr.k = 0

\* The repeated START hands the command to the executor.
ReadHands ==
    /\ AtStart /\ calm <= 3
    /\ exec = "Idle" /\ ~res_valid /\ SendOff /\ Held /\ tx_crc = 0
    /\ queue_select /\ ~bus_start_r
    /\ recv = IF calm = 0 THEN "CmdIsRd" ELSE IF calm = 1 THEN "Cmd" ELSE "Busy"
    /\ \E p \in AllPlans, tag \in {1, 2} :
          /\ owed = <<[plan |-> p, tag |-> tag]>> /\ p.kind = "read"
          /\ xfr.expected = (p.good /\ Allowed(p))
          /\ hdr.cmd = [f |-> tag, k |-> 2, v |-> p.cmd] /\ pec_calc = Crc(tag, 2)
          /\ IF calm = 0 THEN hdr.lsb = PecOf(p, tag)
             ELSE hdr.pec = PecOf(p, tag) /\ recv_is_rd
          /\ calm = 3 => /\ exec_cmd.is_rd /\ exec_cmd.cmd = p.cmd
                         /\ exec_cmd.error = ~p.good
    /\ recv_cmd_valid <=> (calm = 2)
    /\ exec_pending <=> (calm = 3)
    /\ exec_cmd.valid <=> (calm = 3)

\* The executor has a command.
InHand == /\ recv = "Busy" /\ exec_pending /\ ~exec_cmd.valid /\ ~recv_cmd_valid
           /\ owed = <<>> /\ Held /\ queue_select /\ ~bus_start_r

\* It is refused.
ReadRefused ==
    /\ AtStart /\ ~xfr.expected /\ InHand /\ ~res_valid /\ SendOff
    /\ (exec = "Error" /\ calm = 4) \/ (exec = "Done" /\ calm = 5)

\* It is carried out: the first byte waits for the header.
Carries == Served /\ current.plan.cmd \in 34 .. 47
AtFirst == csr_sel = FirstOf /\ bcnt = 0 /\ csr_length = LenOf
Loaded == /\ AtFirst /\ exec = "CsrReadData" /\ csr_data = FirstOf /\ dcnt = LenOf
          /\ ~res_dlast /\ csr_end = Invalid
Fetches ==
    /\ Carries /\ InHand /\ TxdOff /\ ~tx_end_xfer /\ tx_crc = 0
    /\ \/ AtStart /\ calm = 4 /\ exec = "CsrRead" /\ AtFirst /\ xmit = "Idle" /\ ~res_valid
       \/ AtStart /\ calm = 5 /\ exec = "CsrReadLen" /\ AtFirst /\ csr_end = Invalid
          /\ xmit = "Idle" /\ ~res_valid
       \/ AtStart /\ calm = 6 /\ Loaded /\ xmit = "Idle" /\ res_valid
       \/ /\ (AtStart /\ calm >= 7) \/ (AtAck /\ calm = 0)
          /\ Loaded /\ xmit = "TxDesc" /\ len_q = LenOf /\ ~res_valid

\* The header is acknowledged, and the descriptor taken.
Granted ==
    /\ Carries /\ AtAck /\ calm > 0 /\ InHand /\ Loaded
    /\ xmit = "TxLenL" /\ len_q = LenOf /\ ~res_valid /\ tx_crc = 0
    /\ descriptor_valid /\ data_len = LenOf + 3 /\ ~tx_flush /\ ~tx_end_xfer
    /\ IF calm = 1 THEN ~tx_pending /\ byte_counter = 0
       ELSE tx_pending /\ byte_counter = LenOf + 3

\* The bytes go out, one for each byte on the bus.
JustTaken == phase = "Byte" /\ calm = 0
DataOut == IF Out <= 2 THEN 0 ELSE Out - 2
SendsCsrs ==
    /\ recv = "Busy" /\ exec_pending /\ exec = "CsrReadData" /\ csr_end = Invalid
    /\ dcnt = LenOf - DataOut /\ bcnt = DataOut % 4 /\ csr_sel = FirstOf + DataOut \div 4
    /\ ~JustTaken => csr_data = csr_sel /\ (res_dlast <=> (dcnt = 1))
AfterCsrs ==
    \/ Out = LenOf + 2 /\ JustTaken /\ exec = "Done" /\ recv = "Busy" /\ exec_pending
    \/ exec = "Idle" /\ ~exec_pending /\ recv \in {"Idle", "RxCmd"}
Sends ==
    /\ Carries /\ ~Between /\ ~AtAck /\ ~xfr.over /\ Out \in 1 .. LenOf + 3
    /\ owed = <<>> /\ Held /\ queue_select /\ ~bus_start_r
    /\ ~exec_cmd.valid /\ ~recv_cmd_valid /\ ~res_valid
    /\ Out = 1 => xmit = "TxLenH"
    /\ Out \in 2 .. LenOf + 1 => xmit = "TxData"
    /\ Out = LenOf + 2 => xmit = "TxPEC"
    /\ Out = LenOf + 3 => xmit = "Idle"
    /\ Out < LenOf + 3 => tx_crc = Out
    /\ byte_counter = LenOf + 3 - Out /\ ~tx_flush
    /\ tx_pending <=> (Out < LenOf + 3)
    /\ descriptor_valid <=> (Out < LenOf + 3)
    /\ tx_end_xfer <=> (Out = LenOf + 3)
    /\ IF Out < LenOf + 2 THEN SendsCsrs ELSE AfterCsrs

\* No command is on its way.
ReadRests ==
    /\ ExecOff /\ SendOff /\ owed = <<>> /\ recv \in {"Idle", "RxCmd"}
    /\ queue_select /\ ~bus_start_r
    /\ Reading => Between \/ (AtAck /\ calm = 0)
    /\ Served /\ phase # "Quiet" => xfr.over

ReadStages == \/ ReadOpens \/ ReadCut \/ ReadHands \/ ReadRefused
              \/ Fetches \/ Granted \/ Sends \/ ReadRests
ReadInv == ReadTypes /\ ReadBusSide /\ ReadSelection /\ OutAt /\ ReadStages

-----------------------------------------------------------------------------
(* What a clock of each action brings. *)

\* The plans of such a controller, NoTransfer.plan included.
LEMMA ReadPlanFacts ==
    ASSUME ReadCalls, NEW p \in AllPlans
    PROVE  /\ p.kind \in {"read", "response", "other", "broadcast"}
           /\ p.cmd \in Nat /\ p.good \in BOOLEAN
<1>1. CASE p \in Plans
  BY <1>1 DEF ReadCalls
<1>2. CASE p = NoTransfer.plan
  BY <1>2 DEF NoTransfer, Plan
<1> QED
  BY <1>1, <1>2 DEF AllPlans

\* The bounds of ReadCalls.
LEMMA ReadCallFacts ==
    ASSUME ReadCalls
    PROVE  /\ ShortGap \in Nat /\ ShortGap >= 5 /\ LongGap \in Nat
           /\ LongGap >= ShortGap /\ LongGap >= 7
BY DEF ReadCalls

\* The headers that the controllers send.
LEMMA ReadHeaders ==
    ASSUME ReadCalls, NEW p \in AllPlans
    PROVE  /\ HeaderOf(p).addr # "te0"
           /\ HeaderOf(p).addr = "virtual" <=> p.kind \in {"read", "response"}
           /\ HeaderOf(p).addr # "ours"
           /\ HeaderOf(p).rnw <=> p.kind = "response"
           /\ HeaderOf(p) = Broadcast <=> p.kind = "broadcast"
<1>1. p.kind \in {"read", "response", "other", "broadcast"}
  BY ReadPlanFacts
<1>2. CASE p.kind = "read"
  BY <1>2 DEF HeaderOf, Broadcast
<1>3. CASE p.kind = "response"
  BY <1>3 DEF HeaderOf, Broadcast
<1>4. CASE p.kind = "other"
  BY <1>4 DEF HeaderOf, Broadcast
<1>5. CASE p.kind = "broadcast"
  BY <1>5 DEF HeaderOf, Broadcast
<1> QED
  BY <1>1, <1>2, <1>3, <1>4, <1>5

\* A clock without an event.
LEMMA ReadTickMoves ==
    ASSUME ReadCalls, ReadTypes, Tick
    PROVE  /\ \E e : Clock(e, <<>>) /\ Silent(e)
           /\ phase' = phase /\ xfr' = xfr
           /\ calm \in Nat /\ calm' \in Nat /\ calm' \in 0 .. LongGap /\ calm' > 0
           /\ calm' = IF calm < LongGap THEN calm + 1 ELSE calm
<1>1. \E e : Clock(e, <<>>) /\ Silent(e)
  BY TickEvent
<1> QED
  BY <1>1, ReadCallFacts DEF Tick, ReadTypes

\* The end of a byte.
LEMMA ReadByteMoves ==
    ASSUME ReadCalls, ReadTypes, ByteEnd
    PROVE  /\ \E e : /\ Clock(e, <<>>) /\ Dones(e) /\ e.hdr = HeaderOf(xfr.plan)
                     /\ e.byte = [f |-> xfr.tag, k |-> xfr.k + 1,
                                  v |-> IF xfr.k = 0 \/ IsRead THEN 0 ELSE Head(xfr.todo)]
           /\ phase = "Byte" /\ calm >= LongGap /\ ~xfr.over
           /\ xfr.k = 0 \/ xfr.todo # <<>> \/ IsRead
           /\ phase' = "Bit" /\ calm' = 0
           /\ xfr'.plan = xfr.plan /\ xfr'.tag = xfr.tag /\ xfr'.k = xfr.k + 1
           /\ xfr'.over = xfr.over /\ xfr'.expected = xfr.expected
           /\ xfr'.todo = IF xfr.k = 0 \/ IsRead THEN xfr.todo ELSE Tail(xfr.todo)
           /\ xfr' = [plan |-> xfr'.plan, tag |-> xfr'.tag, todo |-> xfr'.todo,
                      k |-> xfr'.k, over |-> xfr'.over, expected |-> xfr'.expected]
<1> DEFINE v == IF xfr.k = 0 \/ IsRead THEN 0 ELSE Head(xfr.todo)
           e == [NoEvent EXCEPT
                     !.done = TRUE, !.hdr = HeaderOf(xfr.plan),
                     !.byte = [f |-> xfr.tag, k |-> xfr.k + 1, v |-> v]]
<1>1. Clock(e, <<>>)
  BY DEF ByteEnd
<1>2. Dones(e) /\ e.hdr = HeaderOf(xfr.plan) /\ e.byte = [f |-> xfr.tag, k |-> xfr.k + 1, v |-> v]
  BY DEF NoEvent, Dones
<1>3. xfr' = [xfr EXCEPT !.k = @ + 1,
                         !.todo = IF xfr.k = 0 \/ IsRead THEN @ ELSE Tail(@)]
  BY DEF ByteEnd
<1>4. xfr = [plan |-> xfr.plan, tag |-> xfr.tag, todo |-> xfr.todo, k |-> xfr.k,
             over |-> xfr.over, expected |-> xfr.expected]
  BY DEF ReadTypes
<1>5. xfr' = [plan |-> xfr.plan, tag |-> xfr.tag,
              todo |-> IF xfr.k = 0 \/ IsRead THEN xfr.todo ELSE Tail(xfr.todo),
              k |-> xfr.k + 1, over |-> xfr.over, expected |-> xfr.expected]
  BY <1>3, <1>4
<1>6. \E ee : /\ Clock(ee, <<>>) /\ Dones(ee) /\ ee.hdr = HeaderOf(xfr.plan)
              /\ ee.byte = [f |-> xfr.tag, k |-> xfr.k + 1, v |-> v]
  BY <1>1, <1>2
<1>7. /\ phase = "Byte" /\ calm >= LongGap /\ ~xfr.over
      /\ xfr.k = 0 \/ xfr.todo # <<>> \/ IsRead
      /\ phase' = "Bit" /\ calm' = 0
  BY DEF ByteEnd
<1> QED
  BY <1>5, <1>6, <1>7

\* The end of an ACK or T bit.
LEMMA ReadBitMoves ==
    ASSUME ReadCalls, ReadTypes, BitEnd
    PROVE  /\ \E e : Clock(e, <<>>) /\ Dones(e)
           /\ phase = "Bit" /\ calm >= ShortGap /\ calm > 2 /\ calm \in Nat
           /\ phase' = "Byte" /\ calm' = 0
           /\ xfr'.plan = xfr.plan /\ xfr'.tag = xfr.tag /\ xfr'.k = xfr.k
           /\ xfr'.over \in BOOLEAN
           /\ xfr.k = 1 => (xfr'.over <=> ~Acked)
           /\ xfr.k # 1 => (xfr'.over <=> IsRead /\ tx_end_xfer)
           /\ xfr'.expected = xfr.expected /\ xfr'.todo = xfr.todo
           /\ xfr' = [plan |-> xfr'.plan, tag |-> xfr'.tag, todo |-> xfr'.todo,
                      k |-> xfr'.k, over |-> xfr'.over, expected |-> xfr'.expected]
<1>1. PICK perr \in {FALSE} \union
             (IF "parity" \in Habits /\ fsm_rx_bit THEN {TRUE} ELSE {}) :
          Clock([NoEvent EXCEPT !.done = TRUE, !.perr = perr],
                IF xfr.plan.kind = "write" /\ xfr.todo = <<>>
                THEN <<[plan |-> xfr.plan, tag |-> xfr.tag]>> ELSE <<>>)
  BY DEF BitEnd
<1>2. perr = FALSE
  BY DEF ReadCalls
<1>3. Dones([NoEvent EXCEPT !.done = TRUE, !.perr = perr])
  BY <1>2 DEF NoEvent, Dones
<1>4. xfr.plan.kind # "write"
  <2>1. xfr.plan \in AllPlans
    BY DEF ReadTypes
  <2> QED
    BY <2>1, ReadPlanFacts
<1>5. \E e : Clock(e, <<>>) /\ Dones(e)
  BY <1>1, <1>3, <1>4
<1>6. xfr' = [xfr EXCEPT !.over = IF xfr.k = 1 THEN ~Acked ELSE IsRead /\ tx_end_xfer]
  BY DEF BitEnd
<1>7. xfr = [plan |-> xfr.plan, tag |-> xfr.tag, todo |-> xfr.todo, k |-> xfr.k,
             over |-> xfr.over, expected |-> xfr.expected]
  BY DEF ReadTypes
<1>8. xfr' = [plan |-> xfr.plan, tag |-> xfr.tag, todo |-> xfr.todo, k |-> xfr.k,
              over |-> IF xfr.k = 1 THEN ~Acked ELSE IsRead /\ tx_end_xfer,
              expected |-> xfr.expected]
  BY <1>6, <1>7
<1>9. /\ phase = "Bit" /\ calm >= ShortGap /\ calm > 2 /\ calm \in Nat
      /\ phase' = "Byte" /\ calm' = 0
  BY ReadCallFacts DEF BitEnd, ReadTypes
<1> QED
  BY <1>5, <1>8, <1>9

\* The command that a repeated START sends.
Sent == IF phase = "Byte" /\ Reading /\ xfr.todo = <<>> /\ ~xfr.over
        THEN <<[plan |-> xfr.plan, tag |-> xfr.tag]>> ELSE <<>>

\* A transfer begins.
ReadBegins(p) ==
    /\ p \in AllPlans
    /\ Clock(StartEvent, Sent)
    /\ xfr'.plan = p /\ xfr'.tag \in {1, 2} /\ xfr'.k = 0 /\ ~xfr'.over
    /\ xfr'.todo = IF p.kind = "read" THEN <<p.cmd, PecOf(p, xfr'.tag)>> ELSE <<>>
    /\ xfr' = [plan |-> xfr'.plan, tag |-> xfr'.tag, todo |-> xfr'.todo,
               k |-> xfr'.k, over |-> xfr'.over, expected |-> xfr'.expected]
    /\ xfr'.expected = (/\ Sent # <<>> /\ p.kind = "response"
                        /\ xfr.plan.good /\ Allowed(xfr.plan))
    /\ Sent # <<>> => p.kind = "response"
    /\ phase = "Quiet" \/ (MayEnd /\ phase = "Byte")
    /\ phase' = "Byte" /\ calm' = 0 /\ calm >= ShortGap

\* START begins one, and so does a repeated START.
LEMMA StartsRead ==
    ASSUME ReadCalls, ReadTypes, START \/ RepeatedStart
    PROVE  \E p : ReadBegins(p)
<1>1. phase = "Quiet" \/ (MayEnd /\ phase = "Byte")
  BY DEF START, RepeatedStart, MayEnd
<1>2. PICK p \in Plans : Follows(p) /\ NextTransfer(p)
  BY DEF START, RepeatedStart
<1>3. p \in AllPlans /\ p.kind \in {"read", "response", "other", "broadcast"}
  BY ReadPlanFacts DEF AllPlans
<1>4. Clock(StartEvent, Sent)
  <2>1. CASE START
    <3>1. Sent = <<>>
      BY <2>1 DEF START, Sent
    <3> QED
      BY <2>1, <3>1 DEF START, StartEvent
  <2>2. CASE RepeatedStart
    <3>1. Sent = IF xfr.plan.kind = "read" /\ xfr.todo = <<>> /\ ~xfr.over
                 THEN <<[plan |-> xfr.plan, tag |-> xfr.tag]>> ELSE <<>>
      BY <2>2 DEF RepeatedStart, MayEnd, Sent, Reading
    <3> QED
      BY <2>2, <3>1 DEF RepeatedStart, StartEvent
  <2> QED
    BY <2>1, <2>2
<1>5. Sent # <<>> <=> /\ phase # "Quiet" /\ xfr.plan.kind = "read" /\ xfr.todo = <<>>
                      /\ ~xfr.over
  BY <1>1 DEF Sent, Reading
<1>6. NextTag(p) \in {1, 2}
  BY DEF NextTag, ReadTypes
<1>7. BytesOf(p, NextTag(p)) = IF p.kind = "read" THEN <<p.cmd, PecOf(p, NextTag(p))>>
                               ELSE <<>>
  <2>1. CASE p.kind = "read"
    BY <2>1 DEF BytesOf, PecOf
  <2>2. CASE p.kind # "read"
    BY <1>3, <2>2 DEF BytesOf
  <2> QED
    BY <2>1, <2>2
<1>8. xfr' = [plan |-> p, tag |-> NextTag(p), todo |-> BytesOf(p, NextTag(p)),
              k |-> 0, over |-> FALSE,
              expected |-> /\ p.kind = "response" /\ phase # "Quiet"
                           /\ xfr.plan.kind = "read" /\ xfr.todo = <<>>
                           /\ ~xfr.over
                           /\ xfr.plan.good /\ Allowed(xfr.plan)]
  BY <1>2 DEF NextTransfer
<1>9. Sent # <<>> => p.kind = "response"
  BY <1>2, <1>5 DEF Follows, ReadCalls
<1>10. phase' = "Byte" /\ calm' = 0 /\ calm >= ShortGap
  BY DEF START, RepeatedStart, MayEnd
<1>11. ReadBegins(p)
  BY <1>1, <1>3, <1>4, <1>5, <1>6, <1>7, <1>8, <1>9, <1>10 DEF ReadBegins
<1> QED
  BY <1>11

-----------------------------------------------------------------------------
(* The target FSM, with the events of reads. *)

ReadPlaces == Places \union {"TxPReadData", "TxPReadTbit"}

\* Without an event it moves only from the check of a header.
LEMMA ReadFsmSilent ==
    ASSUME NEW e, Silent(e), fsm \in ReadPlaces
    PROVE  /\ fsm \notin {"CheckFByte", "CheckSByte"} => fsm_next(e) = fsm
           /\ fsm = "CheckFByte" /\ bus_addr.addr # "te0" =>
                 fsm_next(e) = IF (is_rsvd_byte_match \/ addressed)
                                  /\ (tx_desc_avail \/ ~bus_addr.rnw)
                               THEN "TxAckFByte" ELSE "Wait"
           /\ fsm = "CheckSByte" =>
                 fsm_next(e) = IF addressed /\ (tx_desc_avail \/ ~bus_addr.rnw)
                               THEN "TxAckSByte" ELSE "Wait"
<1> DEFINE i == fsm_in(e)
<1>1. /\ ~i.start /\ ~i.stop /\ ~i.rx_done /\ ~i.tx_done
      /\ ~i.reset_detect /\ ~i.ibi_request /\ ~i.in_hdr
  BY FsmInputs DEF Silent
<1>0. i.tx_desc_avail = tx_desc_avail
  BY DEF fsm_in, Quiet
<1> HIDE DEF i
<1>2. fsm_next(e) = Transition(i)
  BY <1>1 DEF fsm_next, state_d, i
<1>3. CASE fsm \in {"CheckFByte", "TxAckFByte", "RxSByte", "RxSByteRepeated",
                    "CheckSByte", "TxAckSByte"}
  BY <1>0, <1>1, <1>2, <1>3
     DEF Transition, OnHeader, Accept, is_incorrect_addr_match
<1>4. CASE fsm \in {"RxPWriteTbit", "RxPWriteData", "TxPReadData", "TxPReadTbit"}
  BY <1>1, <1>2, <1>4 DEF Transition, OnData
<1>5. CASE fsm \in {"Idle", "RxFByte", "Wait"}
  BY <1>1, <1>2, <1>5 DEF Transition, OnControl
<1> QED
  BY <1>3, <1>4, <1>5 DEF Places, ReadPlaces

\* Is there another byte to send?
More == ((tx_pending /\ tx_rvalid) \/ tx_byte_last) /\ ~tx_end_xfer

\* The end of a byte leads to its check or its T-bit, and that to the next.
LEMMA ReadFsmDones ==
    ASSUME NEW e, Dones(e)
    PROVE  /\ fsm = "RxFByte" => fsm_next(e) = "CheckFByte"
           /\ fsm = "RxSByteRepeated" => fsm_next(e) = "CheckSByte"
           /\ fsm = "RxPWriteData" => fsm_next(e) = "RxPWriteTbit"
           /\ fsm = "RxPWriteTbit" => fsm_next(e) = "RxPWriteData"
           /\ fsm = "TxPReadData" => fsm_next(e) = "TxPReadTbit"
           /\ fsm = "TxPReadTbit" => fsm_next(e) = IF More THEN "TxPReadData" ELSE "Wait"
           /\ fsm = "Wait" => fsm_next(e) = "Wait"
           /\ fsm \in {"TxAckFByte", "TxAckSByte"} /\ addressed
                => fsm_next(e) = IF bus_addr.rnw THEN "TxPReadData" ELSE "RxPWriteData"
           /\ fsm = "TxAckFByte" /\ is_rsvd_byte_match => fsm_next(e) = "RxSByte"
<1> DEFINE i == fsm_in(e)
<1>1. /\ ~i.start /\ ~i.stop /\ ~i.reset_detect /\ ~i.ibi_request /\ ~i.in_hdr
      /\ fsm \in {"RxFByte", "RxSByteRepeated", "RxPWriteData", "RxPWriteTbit"} => i.rx_done
      /\ fsm \in {"TxAckFByte", "TxAckSByte", "TxPReadData", "TxPReadTbit"} => i.tx_done
  BY FsmInputs DEF Dones, fsm_rx_byte, fsm_rx_bit, fsm_tx_bit, fsm_tx_byte
<1>0. i.tx_more = More
  BY DEF fsm_in, Quiet, More
<1> HIDE DEF i
<1>2. fsm_next(e) = Transition(i)
  BY <1>1 DEF fsm_next, state_d, i
<1>3. CASE fsm \in {"TxAckFByte", "RxSByteRepeated", "TxAckSByte"}
  BY <1>1, <1>2, <1>3
     DEF Transition, OnHeader, DataLoop, addressed, is_rsvd_byte_match, Broadcast
<1>4. CASE fsm \in {"RxPWriteTbit", "RxPWriteData", "TxPReadData", "TxPReadTbit"}
  BY <1>0, <1>1, <1>2, <1>4 DEF Transition, OnData
<1>5. CASE fsm \in {"RxFByte", "Wait"}
  BY <1>1, <1>2, <1>5 DEF Transition, OnControl
<1> QED
  BY <1>3, <1>4, <1>5

\* Where the FSM is, and which header the target serves.
LEMMA ReadPlaceFacts ==
    ASSUME ReadCalls, ReadTypes, ReadBusSide
    PROVE  /\ fsm \in ReadPlaces
           /\ xfr.plan.kind \in {"read", "response", "other", "broadcast"}
           /\ calm \in Nat
           /\ checks_header <=> (AtAck /\ calm = 0)
           /\ fsm = "Idle" <=> phase = "Quiet"
           /\ fsm \in {"TxPReadData", "TxPReadTbit"} <=>
                 ~Between /\ ~AtAck /\ Served /\ ~xfr.over
           /\ ~Between => /\ bus_addr.rnw <=> IsRead
                          /\ addressed <=> Virtual
                          /\ is_rsvd_byte_match <=> (xfr.plan.kind = "broadcast")
                          /\ bus_addr.addr # "te0"
                          /\ bus_addr.addr = "virtual" <=> Virtual
<1>1. /\ xfr.plan.kind \in {"read", "response", "other", "broadcast"}
      /\ calm \in Nat /\ xfr.k \in Nat /\ phase \in {"Quiet", "Byte", "Bit"}
      /\ xfr.plan \in AllPlans
  BY ReadPlanFacts, ReadCallFacts DEF ReadTypes
<1>2. ReadFsmAt /\ (phase = "Bit" => xfr.k > 0) /\ (phase = "Bit" => ~xfr.over)
      /\ (~Virtual => xfr.k <= 1)
  BY DEF ReadBusSide
<1>3. fsm \in ReadPlaces
  BY <1>1, <1>2 DEF ReadFsmAt, ReadPlaces, Places, AtAck
<1>4. checks_header <=> (AtAck /\ calm = 0)
  BY <1>1, <1>2 DEF ReadFsmAt, checks_header, AtAck
<1>5. fsm = "Idle" <=> phase = "Quiet"
  BY <1>1, <1>2 DEF ReadFsmAt, AtAck
<1>6. fsm \in {"TxPReadData", "TxPReadTbit"} <=> ~Between /\ ~AtAck /\ Served /\ ~xfr.over
  BY <1>1, <1>2 DEF ReadFsmAt, AtAck, Between, Served, Reading, IsRead
<1>7. ASSUME ~Between
      PROVE  /\ bus_addr.rnw <=> IsRead
             /\ addressed <=> Virtual
             /\ is_rsvd_byte_match <=> (xfr.plan.kind = "broadcast")
             /\ bus_addr.addr # "te0"
             /\ bus_addr.addr = "virtual" <=> Virtual
  <2>1. bus_addr = HeaderOf(xfr.plan)
    BY <1>7 DEF ReadBusSide
  <2> QED
    BY <1>1, <2>1, ReadHeaders DEF addressed, is_rsvd_byte_match, Virtual, Reading, IsRead
<1> QED
  BY <1>1, <1>3, <1>4, <1>5, <1>6, <1>7

\* What the stages of a read say to the bus.
ReadReady ==
    /\ AtAck /\ calm = 0 /\ IsRead => (tx_desc_avail <=> xfr.expected)
    /\ rx_valid => rx_wready
    /\ phase = "Bit" /\ xfr.k > 1 /\ Served =>
          /\ LenOf \in Nat /\ xfr.k <= LenOf + 4
          /\ More <=> xfr.k < LenOf + 4
          /\ tx_end_xfer <=> xfr.k = LenOf + 4
    /\ TakesCommand => AtStart

\* The command taken up stays, but for the clock after it is handed over.
LEMMA CurrentStays ==
    ASSUME NEW e, NEW sent, Clock(e, sent)
    PROVE  /\ ~TakesCommand => current' = current /\ owed' = owed \o sent
           /\ TakesCommand => owed' = <<>> \o sent
           /\ TakesCommand /\ owed # <<>> => current' = owed[1]
           /\ owed = <<>> => current' = current
BY DEF Clock

\* The same for its length.
LEMMA LengthStays ==
    ASSUME current' = current
    PROVE  LenOf' = LenOf /\ FirstOf' = FirstOf /\ Resp' = Resp
BY DEF LenOf, FirstOf, Resp

\* Controller and FSM stay at the same place.
LEMMA ReadBusTick ==
    ASSUME ReadCalls, ReadTypes, ReadBusSide, ReadReady, Tick
    PROVE  ReadBusSide'
<1>1. PICK e : Clock(e, <<>>) /\ Silent(e)
  BY ReadTickMoves
<1>2. Handler(e)
  BY <1>1 DEF Clock
<1>3. /\ phase' = phase /\ xfr' = xfr /\ calm \in Nat /\ calm' \in Nat /\ calm' > 0
  BY ReadTickMoves
<1>4. /\ fsm' = fsm_next(e)
      /\ bus_addr' = IF fsm = "Idle" THEN NoHeader ELSE bus_addr
      /\ last_byte' = last_byte
      /\ ~parity_err'
      /\ rx_valid' = /\ ~(rx_valid /\ rx_wready)
                     /\ \/ rx_valid
                        \/ fsm = "RxPWriteTbit" /\ fsm_next(e) # "RxPWriteTbit"
  BY <1>1, <1>2, FrontClock DEF Silent, ReadBusSide
<1>5. fsm \in ReadPlaces /\ xfr.plan.kind \in {"read", "response", "other", "broadcast"}
  BY ReadPlaceFacts
<1>6. checks_header <=> (AtAck /\ calm = 0)
  BY ReadPlaceFacts
<1>7. ~(AtAck /\ calm = 0) => fsm' = fsm
  BY <1>1, <1>4, <1>5, <1>6, ReadFsmSilent DEF checks_header
<1>8. ~rx_valid'
  BY <1>1, <1>4, <1>5, ReadFsmSilent DEF ReadReady
<1>9. /\ Between' <=> Between
      /\ AtAck' <=> AtAck
      /\ Served' <=> Served
      /\ Reading' <=> Reading
      /\ Virtual' <=> Virtual
      /\ ToAsk' = ToAsk /\ ByteNow' = ByteNow
  BY <1>3 DEF Between, AtAck, Served, Reading, Virtual, ToAsk, ByteNow, IsRead
<1>10. ReadFsmAt'
  <2>1. CASE AtAck /\ calm = 0
    <3>1. fsm \in {"CheckFByte", "CheckSByte"} /\ ~Between
      BY <2>1 DEF ReadBusSide, ReadFsmAt, AtAck, Between
    <3>2. /\ bus_addr.rnw <=> IsRead
          /\ addressed <=> Virtual
          /\ is_rsvd_byte_match <=> (xfr.plan.kind = "broadcast")
          /\ bus_addr.addr # "te0"
      BY <3>1, ReadPlaceFacts
    <3>3. IsRead => (tx_desc_avail <=> xfr.expected)
      BY <2>1 DEF ReadReady
    <3>4. /\ fsm' \in {"TxAckFByte", "TxAckSByte", "Wait"}
          /\ addressed /\ (tx_desc_avail \/ ~bus_addr.rnw) => fsm' # "Wait"
          /\ addressed /\ ~(tx_desc_avail \/ ~bus_addr.rnw) => fsm' = "Wait"
          /\ ~addressed /\ ~is_rsvd_byte_match => fsm' = "Wait"
          /\ ~addressed => fsm' # "TxAckSByte"
      BY <1>1, <1>4, <1>5, <3>1, <3>2, ReadFsmSilent
    <3>5. \/ fsm' \in {"TxAckFByte", "TxAckSByte"} /\ (Reading \/ Served)
          \/ fsm' = "TxAckFByte" /\ xfr.plan.kind = "broadcast"
          \/ fsm' = "Wait" /\ ~Reading /\ ~Served
      <4>1. CASE Reading
        BY <3>2, <3>4, <4>1 DEF Virtual, Reading, IsRead
      <4>2. CASE IsRead
        <5>1. addressed /\ bus_addr.rnw /\ ~is_rsvd_byte_match /\ ~Reading
          BY <3>2, <4>2 DEF Virtual, IsRead, Reading
        <5> QED
          BY <3>3, <3>4, <4>2, <5>1 DEF Served
      <4>3. CASE ~Virtual
        BY <1>5, <3>2, <3>4, <4>3 DEF Virtual, Reading, IsRead, Served
      <4> QED
        BY <4>1, <4>2, <4>3 DEF Virtual
    <3>6. phase' = "Bit" /\ xfr'.k = 1 /\ AtAck'
      BY <1>3, <1>9, <2>1 DEF AtAck
    <3> QED
      BY <1>3, <1>9, <3>5, <3>6 DEF ReadFsmAt
  <2>2. CASE ~(AtAck /\ calm = 0)
    <3>1. fsm' = fsm
      BY <1>7, <2>2
    <3>2. LenOf' = LenOf \/ AtStart
      BY <1>1, CurrentStays, LengthStays DEF ReadReady
    <3> QED
      BY <1>3, <1>9, <2>2, <3>1, <3>2 DEF ReadBusSide, ReadFsmAt, AtStart
  <2> QED
    BY <2>1, <2>2
<1>11. ~Between => bus_addr' = bus_addr
  <2>1. ~Between => fsm # "Idle"
    BY ReadPlaceFacts DEF Between
  <2> QED
    BY <1>4, <2>1
<1> QED
  BY <1>3, <1>4, <1>8, <1>9, <1>10, <1>11 DEF ReadBusSide

\* At the beginning of a bit.
LEMMA ReadBusAtBit ==
    ASSUME phase' = "Bit", calm' = 0, xfr'.k > 0, ~xfr'.over, ReadFsmAt',
           bus_addr' = HeaderOf(xfr'.plan), ~rx_valid', ~parity_err',
           Reading' => /\ xfr'.todo = ToAsk' /\ xfr'.k <= 3
                       /\ last_byte' = [f |-> xfr'.tag, k |-> xfr'.k, v |-> ByteNow'],
           ~Reading' => xfr'.todo = <<>>,
           ~Virtual' => xfr'.k <= 1
    PROVE  ReadBusSide'
<1>1. ~rx_valid' /\ phase' # "Byte"
  OBVIOUS
<1> QED
  BY <1>1 DEF ReadBusSide

\* So they do at the end of a byte.
LEMMA ReadBusByte ==
    ASSUME ReadCalls, ReadTypes, ReadBusSide, ReadReady, ByteEnd
    PROVE  ReadBusSide'
<1>1. PICK e : /\ Clock(e, <<>>) /\ Dones(e) /\ e.hdr = HeaderOf(xfr.plan)
               /\ e.byte = [f |-> xfr.tag, k |-> xfr.k + 1,
                            v |-> IF xfr.k = 0 \/ IsRead THEN 0 ELSE Head(xfr.todo)]
  BY ReadByteMoves
<1>2. Handler(e)
  BY <1>1 DEF Clock
<1>3. /\ phase = "Byte" /\ calm >= LongGap /\ ~xfr.over
      /\ xfr.k = 0 \/ xfr.todo # <<>> \/ IsRead
      /\ phase' = "Bit" /\ calm' = 0
      /\ xfr'.plan = xfr.plan /\ xfr'.tag = xfr.tag /\ xfr'.k = xfr.k + 1
      /\ xfr'.over = xfr.over /\ xfr'.expected = xfr.expected
      /\ xfr'.todo = IF xfr.k = 0 \/ IsRead THEN xfr.todo ELSE Tail(xfr.todo)
  BY ReadByteMoves
<1>4. xfr.k \in Nat /\ xfr.plan.kind \in {"read", "response", "other", "broadcast"}
      /\ calm \in Nat /\ calm > 0 /\ fsm \in ReadPlaces
  BY <1>3, ReadPlaceFacts, ReadCallFacts DEF ReadTypes
<1>5. /\ fsm' = fsm_next(e)
      /\ bus_addr' = IF fsm \in {"RxFByte", "RxSByte", "RxSByteRepeated"}
                     THEN e.hdr ELSE IF fsm = "Idle" THEN NoHeader ELSE bus_addr
      /\ last_byte' = IF fsm_rx_byte THEN e.byte ELSE last_byte
      /\ ~parity_err'
      /\ rx_valid' = /\ ~(rx_valid /\ rx_wready)
                     /\ \/ rx_valid
                        \/ fsm = "RxPWriteTbit" /\ fsm_next(e) # "RxPWriteTbit"
  BY <1>1, <1>2, FrontClock DEF Dones, ReadBusSide
<1>6. /\ Served' <=> Served
      /\ Reading' <=> Reading
      /\ Virtual' <=> Virtual
      /\ IsRead' <=> IsRead
      /\ ~Between'
  BY <1>3, <1>4 DEF Served, Reading, Virtual, IsRead, Between
<1>7. CASE xfr.k = 0
  <2>1. fsm \in {"RxFByte", "RxSByteRepeated"}
    BY <1>3, <1>7 DEF ReadBusSide, ReadFsmAt
  <2>2. fsm' \in {"CheckFByte", "CheckSByte"} /\ bus_addr' = HeaderOf(xfr.plan)
        /\ last_byte' = e.byte
    BY <1>1, <1>5, <2>1, ReadFsmDones DEF fsm_rx_byte
  <2>3. ~rx_valid'
    BY <1>3, <1>5, <1>7, <2>1 DEF ReadBusSide
  <2>4. AtAck' /\ xfr'.k = 1
    BY <1>3, <1>7 DEF AtAck
  <2>5. xfr'.todo = IF Reading THEN <<xfr.plan.cmd, PecOf(xfr.plan, xfr.tag)>> ELSE <<>>
    BY <1>3, <1>7 DEF ReadBusSide, ToAsk
  <2>6. ToAsk' = <<xfr.plan.cmd, PecOf(xfr.plan, xfr.tag)>> /\ ByteNow' = 0
    BY <1>3, <2>4 DEF ToAsk, ByteNow
  <2>7. last_byte' = [f |-> xfr.tag, k |-> 1, v |-> 0]
    BY <1>1, <1>7, <2>2
  <2>8. ReadFsmAt'
    BY <1>3, <2>2, <2>4 DEF ReadFsmAt, AtAck
  <2> QED
    BY <1>3, <1>5, <1>6, <2>2, <2>3, <2>4, <2>5, <2>6, <2>7, <2>8 DEF ReadBusSide
<1>8. CASE xfr.k > 0 /\ Reading
  <2>1. fsm = "RxPWriteData"
    BY <1>3, <1>4, <1>8 DEF ReadBusSide, ReadFsmAt, Reading, IsRead, Served
  <2>2. fsm' = "RxPWriteTbit" /\ bus_addr' = bus_addr /\ last_byte' = e.byte
    BY <1>1, <1>5, <2>1, ReadFsmDones DEF fsm_rx_byte
  <2>3. ~rx_valid'
    BY <1>3, <1>4, <1>5, <2>1 DEF ReadBusSide
  <2>4. ~IsRead /\ ~Between /\ ~AtAck'
    BY <1>3, <1>4, <1>8 DEF Reading, IsRead, Between, AtAck
  <2>5. xfr.k \in {1, 2} /\ xfr.todo = ToAsk
    <3>1. xfr.k <= 3 /\ xfr.todo = ToAsk
      BY <1>8 DEF ReadBusSide
    <3>2. xfr.k # 3
      BY <1>3, <1>4, <1>8, <2>4, <3>1 DEF ToAsk
    <3> QED
      BY <1>4, <1>8, <3>1, <3>2
  <2>6. xfr'.todo = ToAsk' /\ Head(xfr.todo) = ByteNow'
    <3>1. CASE xfr.k = 1
      BY <1>3, <2>4, <2>5, <3>1 DEF ToAsk, ByteNow
    <3>2. CASE xfr.k = 2
      BY <1>3, <2>4, <2>5, <3>2 DEF ToAsk, ByteNow
    <3> QED
      BY <2>5, <3>1, <3>2
  <2>7. last_byte' = [f |-> xfr.tag, k |-> xfr.k + 1, v |-> ByteNow']
    BY <1>1, <1>8, <2>2, <2>4, <2>6
  <2>8. ReadFsmAt'
    BY <1>3, <1>6, <1>8, <2>2, <2>4 DEF ReadFsmAt
  <2>9. bus_addr = HeaderOf(xfr.plan)
    BY <2>4 DEF ReadBusSide
  <2>10. /\ xfr'.k > 0 /\ xfr'.k <= 3 /\ ~xfr'.over /\ xfr'.tag = xfr.tag
         /\ bus_addr' = HeaderOf(xfr'.plan) /\ Virtual'
    BY <1>3, <1>4, <1>6, <1>8, <2>2, <2>5, <2>9 DEF Virtual
  <2>11. last_byte' = [f |-> xfr'.tag, k |-> xfr'.k, v |-> ByteNow']
    BY <1>3, <2>7
  <2> QED
    BY <1>3, <1>5, <1>6, <1>8, <2>3, <2>6, <2>8, <2>10, <2>11, ReadBusAtBit
<1>9. CASE xfr.k > 0 /\ ~Reading
  <2>1. IsRead /\ xfr.todo = <<>>
    BY <1>3, <1>9 DEF ReadBusSide
  <2>2. fsm = "TxPReadData" /\ Served
    BY <1>3, <1>4, <1>9, <2>1 DEF ReadBusSide, ReadFsmAt, IsRead
  <2>3. fsm' = "TxPReadTbit" /\ bus_addr' = bus_addr
    BY <1>1, <1>5, <2>2, ReadFsmDones
  <2>4. ~rx_valid'
    BY <1>3, <1>4, <1>5, <2>2 DEF ReadBusSide
  <2>5. ~Between /\ ~AtAck'
    BY <1>3, <1>4, <1>9 DEF Between, AtAck
  <2>6. ReadFsmAt'
    BY <1>3, <1>6, <2>2, <2>3, <2>5 DEF ReadFsmAt
  <2>7. bus_addr' = HeaderOf(xfr'.plan)
    BY <1>3, <2>3, <2>5 DEF ReadBusSide
  <2>8. xfr'.todo = <<>> /\ ~Reading' /\ Virtual'
    BY <1>3, <1>6, <1>9, <2>1 DEF Virtual
  <2>9. xfr'.k > 0 /\ ~xfr'.over
    BY <1>3, <1>4
  <2> QED
    BY <1>3, <1>5, <2>4, <2>6, <2>7, <2>8, <2>9, ReadBusAtBit
<1> QED
  BY <1>4, <1>7, <1>8, <1>9

\* And of a bit.
LEMMA ReadBusBit ==
    ASSUME ReadCalls, ReadTypes, ReadBusSide, ReadReady, BitEnd
    PROVE  ReadBusSide'
<1>1. PICK e : Clock(e, <<>>) /\ Dones(e)
  BY ReadBitMoves
<1>2. Handler(e)
  BY <1>1 DEF Clock
<1>3. /\ phase = "Bit" /\ calm > 2 /\ calm \in Nat
      /\ phase' = "Byte" /\ calm' = 0
      /\ xfr'.plan = xfr.plan /\ xfr'.tag = xfr.tag /\ xfr'.k = xfr.k
      /\ xfr.k = 1 => (xfr'.over <=> ~Acked)
      /\ xfr.k # 1 => (xfr'.over <=> IsRead /\ tx_end_xfer)
      /\ xfr'.expected = xfr.expected /\ xfr'.todo = xfr.todo
  BY ReadBitMoves
<1>4. xfr.k \in Nat /\ xfr.plan.kind \in {"read", "response", "other", "broadcast"}
      /\ fsm \in ReadPlaces /\ xfr.k > 0 /\ ~Between
  BY <1>3, ReadPlaceFacts DEF ReadTypes, ReadBusSide, Between
<1>5. /\ fsm' = fsm_next(e)
      /\ bus_addr' = IF fsm \in {"RxFByte", "RxSByte", "RxSByteRepeated"}
                     THEN e.hdr ELSE IF fsm = "Idle" THEN NoHeader ELSE bus_addr
      /\ last_byte' = IF fsm_rx_byte THEN e.byte ELSE last_byte
      /\ ~parity_err'
      /\ rx_valid' = /\ ~(rx_valid /\ rx_wready)
                     /\ \/ rx_valid
                        \/ fsm = "RxPWriteTbit" /\ fsm_next(e) # "RxPWriteTbit"
  BY <1>1, <1>2, FrontClock DEF Dones, ReadBusSide
<1>6. /\ Served' <=> Served
      /\ Reading' <=> Reading
      /\ Virtual' <=> Virtual
      /\ IsRead' <=> IsRead
      /\ ~Between' /\ ~AtAck' /\ ToAsk' = ToAsk /\ ByteNow' = ByteNow
  BY <1>3, <1>4 DEF Served, Reading, Virtual, IsRead, Between, AtAck, ToAsk, ByteNow
<1>7. ~rx_valid
  BY <1>3 DEF ReadBusSide
<1>8. bus_addr = HeaderOf(xfr.plan)
  BY <1>4 DEF ReadBusSide
<1>9. CASE xfr.k = 1
  <2>1. \/ fsm \in {"TxAckFByte", "TxAckSByte"} /\ (Reading \/ Served)
        \/ fsm = "TxAckFByte" /\ xfr.plan.kind = "broadcast"
        \/ fsm = "Wait" /\ ~Reading /\ ~Served
    BY <1>3, <1>9 DEF ReadBusSide, ReadFsmAt, AtAck
  <2>2. /\ bus_addr.rnw <=> IsRead
        /\ addressed <=> Virtual
        /\ is_rsvd_byte_match <=> (xfr.plan.kind = "broadcast")
    BY <1>4, ReadPlaceFacts
  <2>3. xfr'.over <=> fsm = "Wait"
    BY <1>3, <1>9, <2>1 DEF Acked
  <2>4. \/ fsm' = "Wait" /\ xfr'.over /\ ~Reading /\ ~Served
        \/ fsm' = "RxSByte" /\ ~xfr'.over /\ xfr.plan.kind = "broadcast"
        \/ fsm' = "RxPWriteData" /\ ~xfr'.over /\ Reading
        \/ fsm' = "TxPReadData" /\ ~xfr'.over /\ Served
    <3>1. CASE fsm \in {"TxAckFByte", "TxAckSByte"} /\ Reading
      BY <1>1, <1>5, <2>2, <2>3, <3>1, ReadFsmDones DEF Virtual, Reading, IsRead
    <3>2. CASE fsm \in {"TxAckFByte", "TxAckSByte"} /\ Served
      BY <1>1, <1>5, <2>2, <2>3, <3>2, ReadFsmDones DEF Virtual, Served
    <3>3. CASE fsm = "TxAckFByte" /\ xfr.plan.kind = "broadcast"
      BY <1>1, <1>5, <2>2, <2>3, <3>3, ReadFsmDones
    <3>4. CASE fsm = "Wait" /\ ~Reading /\ ~Served
      BY <1>1, <1>5, <2>3, <3>4, ReadFsmDones
    <3> QED
      BY <2>1, <3>1, <3>2, <3>3, <3>4
  <2>5. ReadFsmAt'
    BY <1>3, <1>6, <1>9, <2>4 DEF ReadFsmAt
  <2>6. bus_addr' = bus_addr /\ (Reading => last_byte' = last_byte) /\ ~rx_valid'
    BY <1>5, <1>7, <2>1 DEF fsm_rx_byte
  <2> QED
    BY <1>3, <1>4, <1>5, <1>6, <1>8, <1>9, <2>5, <2>6 DEF ReadBusSide
<1>10. CASE xfr.k > 1 /\ Reading
  <2>1. fsm = "RxPWriteTbit" /\ ~IsRead
    BY <1>3, <1>10 DEF ReadBusSide, ReadFsmAt, Reading, IsRead, Served
  <2>2. fsm' = "RxPWriteData" /\ bus_addr' = bus_addr /\ last_byte' = last_byte /\ rx_valid'
    BY <1>1, <1>5, <1>7, <2>1, ReadFsmDones DEF fsm_rx_byte
  <2>3. ~xfr'.over
    BY <1>3, <1>10, <2>1
  <2>4. ReadFsmAt'
    BY <1>3, <1>6, <1>10, <2>2, <2>3 DEF ReadFsmAt
  <2> QED
    BY <1>3, <1>4, <1>5, <1>6, <1>8, <1>10, <2>2, <2>3, <2>4 DEF ReadBusSide
<1>11. CASE xfr.k > 1 /\ ~Reading
  <2>1. fsm = "TxPReadTbit" /\ Served /\ IsRead
    BY <1>3, <1>11 DEF ReadBusSide, ReadFsmAt, Served
  <2>2. /\ LenOf \in Nat /\ xfr.k <= LenOf + 4
        /\ More <=> xfr.k < LenOf + 4
        /\ tx_end_xfer <=> xfr.k = LenOf + 4
    BY <1>3, <1>11, <2>1 DEF ReadReady
  <2>3. fsm' = IF More THEN "TxPReadData" ELSE "Wait"
    BY <1>1, <1>5, <2>1, ReadFsmDones
  <2>4. xfr'.over <=> xfr.k = LenOf + 4
    BY <1>3, <1>11, <2>1, <2>2
  <2>5. LenOf' = LenOf
    <3>1. ~AtStart
      BY <1>3 DEF AtStart
    <3> QED
      BY <1>1, <3>1, CurrentStays, LengthStays DEF ReadReady
  <2>6. ReadFsmAt'
    BY <1>3, <1>4, <1>6, <1>11, <2>1, <2>2, <2>3, <2>4, <2>5 DEF ReadFsmAt
  <2>7. bus_addr' = bus_addr /\ ~rx_valid'
    BY <1>5, <1>7, <2>1
  <2> QED
    BY <1>3, <1>4, <1>5, <1>6, <1>8, <1>11, <2>1, <2>6, <2>7 DEF ReadBusSide
<1> QED
  BY <1>4, <1>9, <1>10, <1>11

\* And where a transfer begins.
LEMMA ReadEndFacts ==
    ASSUME ReadCalls, ReadTypes, ReadBusSide, MayEnd
    PROVE  /\ phase = "Byte" /\ xfr.k > 0 /\ calm >= ShortGap /\ calm > 3 /\ ~rx_valid
           /\ fsm \in {"Wait", "RxSByte", "RxPWriteData"}
           /\ Served => xfr.over
           /\ Reading => xfr.k = 3 /\ ~xfr.over /\ xfr.todo = <<>>
<1>1. /\ phase = "Byte" /\ xfr.k > 0 /\ calm >= ShortGap
      /\ xfr.over \/ IF IsRead THEN "shorten" \in Habits /\ xfr.k > 1
                     ELSE xfr.todo = <<>> \/ "cut" \in Habits
  BY DEF MayEnd
<1>2. xfr.over \/ (~IsRead /\ xfr.todo = <<>>)
  BY <1>1 DEF ReadCalls
<1>3. xfr.k \in Nat /\ calm \in Nat
  BY ReadPlaceFacts DEF ReadTypes
<1>4. calm > 3
  BY <1>1, <1>3, ReadCallFacts
<1>5. Served => xfr.over
  BY <1>2 DEF Served
<1>6. fsm \in {"Wait", "RxSByte", "RxPWriteData"}
  BY <1>1, <1>5 DEF ReadBusSide, ReadFsmAt
<1>7. ASSUME Reading PROVE xfr.k = 3 /\ ~xfr.over /\ xfr.todo = <<>>
  <2>1. ~xfr.over /\ xfr.k <= 3 /\ xfr.todo = ToAsk
    BY <1>1, <1>7 DEF ReadBusSide, ReadFsmAt, Served, IsRead, Reading
  <2>2. xfr.k # 1 /\ xfr.k # 2
    BY <1>2, <2>1 DEF ToAsk
  <2> QED
    BY <1>1, <1>2, <1>3, <2>1, <2>2
<1>8. ~rx_valid
  BY <1>4 DEF ReadBusSide
<1> QED
  BY <1>1, <1>4, <1>5, <1>6, <1>7, <1>8

\* A transfer begins with the FSM at its first byte.
LEMMA ReadBusBegins ==
    ASSUME ReadCalls, ReadTypes, ReadBusSide, ReadReady, NEW p, ReadBegins(p)
    PROVE  ReadBusSide'
<1>1. Handler(StartEvent) /\ Starts(StartEvent)
  BY StartsEvent DEF ReadBegins, Clock
<1>2. /\ xfr'.plan = p /\ xfr'.k = 0 /\ ~xfr'.over
      /\ xfr'.todo = IF p.kind = "read" THEN <<p.cmd, PecOf(p, xfr'.tag)>> ELSE <<>>
      /\ phase = "Quiet" \/ MayEnd
      /\ phase' = "Byte" /\ calm' = 0 /\ calm >= ShortGap
  BY DEF ReadBegins
<1>3. fsm \in {"Idle", "Wait", "RxSByte", "RxPWriteData"} /\ ~rx_valid
  <2>1. CASE phase = "Quiet"
    BY <2>1 DEF ReadBusSide, ReadFsmAt
  <2>2. CASE MayEnd
    BY <2>2, ReadEndFacts
  <2> QED
    BY <1>2, <2>1, <2>2
<1>4. fsm_next(StartEvent) \in {"RxFByte", "RxSByteRepeated"}
  BY <1>1, <1>3, FsmStarts
<1>5. fsm' \in {"RxFByte", "RxSByteRepeated"} /\ ~parity_err' /\ ~rx_valid'
  <2>1. ~parity_err /\ ~StartEvent.perr
    BY <1>1 DEF ReadBusSide, Starts
  <2> QED
    BY <1>1, <1>3, <1>4, <2>1, FrontClock
<1>6. Between' /\ ~AtAck'
  BY <1>2 DEF Between, AtAck
<1>7. ReadFsmAt'
  BY <1>2, <1>5, <1>6 DEF ReadFsmAt
<1>8. xfr'.todo = (IF Reading THEN ToAsk ELSE <<>>)'
  BY <1>2 DEF Reading, ToAsk
<1> QED
  BY <1>2, <1>5, <1>6, <1>7, <1>8 DEF ReadBusSide

\* And it ends with the FSM at rest.
LEMMA ReadBusStop ==
    ASSUME ReadCalls, ReadTypes, ReadBusSide, ReadReady, STOP
    PROVE  ReadBusSide'
<1>1. /\ Handler(StopEvent) /\ MayEnd /\ phase' = "Quiet" /\ calm' = 0 /\ xfr' = xfr
  BY DEF STOP, Clock, StopEvent
<1>2. fsm \in {"Wait", "RxSByte", "RxPWriteData"} /\ ~rx_valid
  BY <1>1, ReadEndFacts
<1>3. fsm_next(StopEvent) = "Idle"
  BY <1>2, StopsEvent, FsmStops DEF Places
<1>4. fsm' = "Idle" /\ ~parity_err' /\ ~rx_valid'
  <2>1. ~parity_err /\ ~StopEvent.perr
    BY StopsEvent DEF ReadBusSide, Stops
  <2> QED
    BY <1>1, <1>2, <1>3, <2>1, FrontClock
<1>5. Between' /\ ~AtAck' /\ (Reading' <=> Reading) /\ ToAsk' = ToAsk
      /\ (Virtual' <=> Virtual)
  BY <1>1 DEF Between, AtAck, Reading, ToAsk, Virtual, IsRead
<1>6. ReadFsmAt'
  BY <1>1, <1>4, <1>5 DEF ReadFsmAt
<1> QED
  BY <1>1, <1>4, <1>5, <1>6 DEF ReadBusSide

\* After every action they are at the same place.
LEMMA ReadBusStep ==
    ASSUME ReadCalls, ReadTypes, ReadBusSide, ReadReady, Next
    PROVE  ReadBusSide'
BY ReadBusTick, ReadBusByte, ReadBusBit, ReadBusBegins, ReadBusStop, StartsRead DEF Next

-----------------------------------------------------------------------------
(* Types, and who is selected. *)

\* The types of the handler's registers are kept by every clock.
LEMMA ReadTypesClock ==
    ASSUME ReadCalls, ReadTypes, NEW e, Handler(e)
    PROVE  /\ virtual_sel' \in BOOLEAN /\ xfer_in_progress' \in BOOLEAN
           /\ mode_enter' \in 0 .. 2 /\ DOMAIN hdr' = {"cmd", "lsb", "msb", "pec"}
<1>1. virtual_sel' \in BOOLEAN
  <2>1. virtual_sel' = IF checks_header /\ ~is_rsvd_byte_match
                       THEN bus_addr.addr = "virtual" ELSE virtual_sel
    BY DEF Handler, Latches
  <2>2. virtual_sel \in BOOLEAN
    BY DEF ReadTypes
  <2>3. (bus_addr.addr = "virtual") \in BOOLEAN
    OBVIOUS
  <2> QED
    BY <2>1, <2>2, <2>3, Zenon
<1>2. xfer_in_progress' \in BOOLEAN
  <2>1. addressed \in BOOLEAN /\ xfer_in_progress \in BOOLEAN
    BY DEF addressed, ReadTypes
  <2>2. xfer_in_progress' = CASE fsm = "Idle" -> FALSE
                              [] checks_header -> addressed
                              [] OTHER -> xfer_in_progress
    BY DEF Handler, Latches, XferLatch
  <2> QED
    BY <2>1, <2>2, Zenon
<1>3. mode_enter' \in 0 .. 2
  BY DEF Handler, Registers, ReadTypes
<1>4. DOMAIN hdr' = {"cmd", "lsb", "msb", "pec"}
  <2>1. Header(recv_in(e))
    BY DEF Handler, Receiver
  <2>2. DOMAIN hdr = {"cmd", "lsb", "msb", "pec"}
    BY DEF ReadTypes
  <2> DEFINE i == recv_in(e)
  <2> HIDE DEF i
  <2>3. \/ hdr' = [cmd |-> NoByte, lsb |-> 0, msb |-> 0, pec |-> 0]
        \/ hdr' = [hdr EXCEPT !.cmd = i.byte]
        \/ hdr' = [hdr EXCEPT !.lsb = i.byte.v]
        \/ hdr' = [hdr EXCEPT !.msb = i.byte.v]
        \/ hdr' = [hdr EXCEPT !.pec = i.byte.v]
        \/ hdr' = [hdr EXCEPT !.lsb = 0, !.msb = 0, !.pec = hdr.lsb]
        \/ hdr' = hdr
    BY <2>1, Zenon DEF Header, i
  <2> QED
    BY <2>2, <2>3
<1> QED
  BY <1>1, <1>2, <1>3, <1>4

\* The command that waits to be taken up is one of the plans.
OwedKnown == owed # <<>> => owed[1].plan \in AllPlans

\* The types are kept by every action.
LEMMA ReadTypesStep ==
    ASSUME ReadCalls, ReadTypes, OwedKnown, Next
    PROVE  ReadTypes'
<1>1. PICK e, sent : Clock(e, sent)
  BY DEF Next, Tick, START, RepeatedStart, ByteEnd, BitEnd, STOP
<1>2. /\ virtual_sel' \in BOOLEAN /\ xfer_in_progress' \in BOOLEAN
      /\ mode_enter' \in 0 .. 2 /\ DOMAIN hdr' = {"cmd", "lsb", "msb", "pec"}
  BY <1>1, ReadTypesClock DEF Clock
<1>3. current'.plan \in AllPlans
  BY <1>1 DEF Clock, OwedKnown, ReadTypes
<1>4. ShortGap \in Nat /\ LongGap \in Nat /\ LongGap >= 7
  BY ReadCallFacts
<1>5. /\ xfr.plan \in AllPlans /\ xfr.tag \in {1, 2} /\ xfr.k \in Nat
      /\ xfr.over \in BOOLEAN /\ xfr.expected \in BOOLEAN /\ phase \in {"Quiet", "Byte", "Bit"}
  BY DEF ReadTypes
<1>6. CASE Tick
  <2>1. phase' = phase /\ xfr' = xfr /\ calm' \in 0 .. LongGap
    BY <1>6, ReadTickMoves
  <2> QED
    BY <1>2, <1>3, <2>1 DEF ReadTypes
<1>7. CASE ByteEnd
  <2>1. /\ phase' = "Bit" /\ calm' = 0
        /\ xfr'.plan = xfr.plan /\ xfr'.tag = xfr.tag /\ xfr'.k = xfr.k + 1
        /\ xfr'.over = xfr.over /\ xfr'.expected = xfr.expected
        /\ xfr' = [plan |-> xfr'.plan, tag |-> xfr'.tag, todo |-> xfr'.todo,
                   k |-> xfr'.k, over |-> xfr'.over, expected |-> xfr'.expected]
    BY <1>7, ReadByteMoves
  <2> QED
    BY <1>2, <1>3, <1>4, <1>5, <2>1 DEF ReadTypes
<1>8. CASE BitEnd
  <2>1. /\ phase' = "Byte" /\ calm' = 0
        /\ xfr'.plan = xfr.plan /\ xfr'.tag = xfr.tag /\ xfr'.k = xfr.k
        /\ xfr'.over \in BOOLEAN /\ xfr'.expected = xfr.expected
        /\ xfr' = [plan |-> xfr'.plan, tag |-> xfr'.tag, todo |-> xfr'.todo,
                   k |-> xfr'.k, over |-> xfr'.over, expected |-> xfr'.expected]
    BY <1>8, ReadBitMoves
  <2> QED
    BY <1>2, <1>3, <1>4, <1>5, <2>1 DEF ReadTypes
<1>9. CASE START \/ RepeatedStart
  <2>1. PICK p : ReadBegins(p)
    BY <1>9, StartsRead
  <2>2. /\ phase' = "Byte" /\ calm' = 0 /\ xfr'.plan \in AllPlans /\ xfr'.tag \in {1, 2}
        /\ xfr'.k = 0
        /\ xfr' = [plan |-> xfr'.plan, tag |-> xfr'.tag, todo |-> xfr'.todo,
                   k |-> xfr'.k, over |-> xfr'.over, expected |-> xfr'.expected]
    BY <2>1 DEF ReadBegins
  <2>3. PICK q \in Plans : NextTransfer(q)
    BY <1>9 DEF START, RepeatedStart
  <2>4. xfr'.over \in BOOLEAN /\ xfr'.expected \in BOOLEAN
    BY <2>3 DEF NextTransfer
  <2> QED
    BY <1>2, <1>3, <1>4, <2>2, <2>4 DEF ReadTypes
<1>10. CASE STOP
  <2>1. phase' = "Quiet" /\ calm' = 0 /\ xfr' = xfr
    BY <1>10 DEF STOP
  <2> QED
    BY <1>2, <1>3, <1>4, <2>1 DEF ReadTypes
<1> QED
  BY <1>6, <1>7, <1>8, <1>9, <1>10 DEF Next

\* What a clock does to the selection of the virtual target.
LEMMA ReadSelectionClock ==
    ASSUME ReadCalls, ReadTypes, ReadBusSide, NEW e, Handler(e)
    PROVE  /\ AtAck /\ calm = 0 =>
                 /\ xfer_in_progress' <=> Virtual
                 /\ xfr.plan.kind # "broadcast" => (virtual_sel' <=> Virtual)
                 /\ xfr.plan.kind = "broadcast" => virtual_sel' = virtual_sel
           /\ ~(AtAck /\ calm = 0) => virtual_sel' = virtual_sel
           /\ ~(AtAck /\ calm = 0) /\ phase # "Quiet"
                 => xfer_in_progress' = xfer_in_progress
           /\ phase = "Quiet" => ~xfer_in_progress'
           /\ mode_enter' = IF virtual_sel THEN mode_enter \div 2 ELSE 2
<1>1. /\ xfer_in_progress' = CASE fsm = "Idle" -> FALSE
                               [] checks_header -> addressed
                               [] OTHER -> xfer_in_progress
      /\ virtual_sel' = IF checks_header /\ ~is_rsvd_byte_match
                        THEN bus_addr.addr = "virtual" ELSE virtual_sel
      /\ mode_enter' = IF virtual_sel THEN mode_enter \div 2 ELSE 2
  BY DEF Handler, Latches, XferLatch, Registers
<1>2. /\ checks_header <=> (AtAck /\ calm = 0)
      /\ fsm = "Idle" <=> phase = "Quiet"
  BY ReadPlaceFacts
<1>3. ~Between => /\ addressed <=> Virtual
                  /\ is_rsvd_byte_match <=> (xfr.plan.kind = "broadcast")
                  /\ bus_addr.addr = "virtual" <=> Virtual
  BY ReadPlaceFacts
<1>4. ASSUME AtAck, calm = 0
      PROVE  /\ xfer_in_progress' <=> Virtual
             /\ xfr.plan.kind # "broadcast" => (virtual_sel' <=> Virtual)
             /\ xfr.plan.kind = "broadcast" => virtual_sel' = virtual_sel
  <2>1. ~Between /\ phase # "Quiet"
    BY <1>4 DEF AtAck, Between
  <2>2. xfer_in_progress' = addressed
    BY <1>1, <1>2, <1>4, <2>1, Zenon
  <2>3. xfer_in_progress' <=> Virtual
    BY <1>3, <2>1, <2>2
  <2>4. checks_header
    BY <1>2, <1>4
  <2>5. xfr.plan.kind # "broadcast" => (virtual_sel' <=> Virtual)
    BY <1>1, <1>3, <2>1, <2>4
  <2>6. xfr.plan.kind = "broadcast" => virtual_sel' = virtual_sel
    BY <1>1, <1>3, <2>1, <2>4
  <2> QED
    BY <2>3, <2>5, <2>6
<1>5. ASSUME ~(AtAck /\ calm = 0), phase # "Quiet" PROVE xfer_in_progress' = xfer_in_progress
  BY <1>1, <1>2, <1>5, Zenon
<1>6. ASSUME phase = "Quiet" PROVE ~xfer_in_progress'
  BY <1>1, <1>2, <1>6, Zenon DEF checks_header
<1> QED
  BY <1>1, <1>2, <1>4, <1>5, <1>6

\* Outside that check the selection stays as it is.
LEMMA ReadSelectionKept ==
    ASSUME ReadCalls, ReadTypes, ReadBusSide, ReadSelection, NEW e, Handler(e),
           ~(AtAck /\ calm = 0),
           Checked' => Checked /\ (Virtual' <=> Virtual),
           phase' = "Quiet" /\ calm' > 0 => phase = "Quiet",
           AtAck' /\ calm' \in 1 .. 2 => AtAck /\ calm \in 1 .. 2 /\ calm' = calm + 1,
           AtAck /\ calm \in 1 .. 2 => AtAck' /\ calm' = calm + 1
    PROVE  ReadSelection'
<1>1. /\ virtual_sel' = virtual_sel
      /\ phase # "Quiet" => xfer_in_progress' = xfer_in_progress
      /\ phase = "Quiet" => ~xfer_in_progress'
      /\ mode_enter' = IF virtual_sel THEN mode_enter \div 2 ELSE 2
  BY ReadSelectionClock
<1>2. calm \in Nat /\ mode_enter \in 0 .. 2
  BY ReadPlaceFacts DEF ReadTypes
<1>3. Checked => phase # "Quiet"
  BY DEF Checked, Between
<1>4. /\ Checked' /\ Virtual' => virtual_sel' /\ xfer_in_progress'
      /\ Checked' /\ ~Virtual' => ~(virtual_sel' /\ xfer_in_progress')
      /\ phase' = "Quiet" /\ calm' > 0 => ~xfer_in_progress'
  BY <1>1, <1>3 DEF ReadSelection
<1>5. ~(AtAck' /\ calm' \in 1 .. 2) => mode_enter' = IF virtual_sel' THEN 0 ELSE 2
  <2> SUFFICES ASSUME ~(AtAck' /\ calm' \in 1 .. 2)
               PROVE  mode_enter' = IF virtual_sel' THEN 0 ELSE 2
    OBVIOUS
  <2>1. CASE AtAck /\ calm \in 1 .. 2
    <3>1. calm = 2
      BY <1>2, <2>1
    <3> QED
      BY <1>1, <1>2, <2>1, <3>1 DEF ReadSelection
  <2>2. CASE ~(AtAck /\ calm \in 1 .. 2)
    BY <1>1, <1>2, <2>2 DEF ReadSelection
  <2> QED
    BY <2>1, <2>2
<1>6. AtAck' /\ calm' = 2 => IF virtual_sel' THEN mode_enter' < 2 ELSE mode_enter' = 2
  BY <1>1, <1>2
<1> QED
  BY <1>4, <1>5, <1>6 DEF ReadSelection

\* The selection holds after every action.
LEMMA ReadSelectionStep ==
    ASSUME ReadCalls, ReadTypes, ReadBusSide, ReadSelection, Next
    PROVE  ReadSelection'
<1>1. calm \in Nat /\ xfr.k \in Nat /\ ShortGap \in Nat /\ ShortGap >= 5 /\ LongGap \in Nat
      /\ LongGap >= ShortGap
  BY ReadPlaceFacts, ReadCallFacts DEF ReadTypes
<1>2. CASE Tick
  <2>1. PICK e : Handler(e)
    BY <1>2, ReadTickMoves DEF Clock
  <2>2. /\ phase' = phase /\ xfr' = xfr /\ calm' \in Nat /\ calm' > 0
        /\ calm' = IF calm < LongGap THEN calm + 1 ELSE calm
    BY <1>2, ReadTickMoves
  <2>0. (Between' <=> Between) /\ (AtAck' <=> AtAck) /\ (Virtual' <=> Virtual)
    BY <2>2 DEF Between, AtAck, Virtual, Reading, IsRead
  <2>3. CASE AtAck /\ calm = 0
    <3>1. /\ xfer_in_progress' <=> Virtual
          /\ xfr.plan.kind # "broadcast" => (virtual_sel' <=> Virtual)
      BY <2>1, <2>3, ReadSelectionClock
    <3>2. calm' = 1 /\ phase' = "Bit"
      BY <1>1, <2>2, <2>3 DEF AtAck
    <3>3. Virtual => xfr.plan.kind # "broadcast"
      BY DEF Virtual, Reading, IsRead
    <3> QED
      BY <2>0, <2>2, <2>3, <3>1, <3>2, <3>3 DEF ReadSelection
  <2>4. CASE ~(AtAck /\ calm = 0)
    <3>1. Checked' => Checked
      BY <1>1, <2>0, <2>2, <2>4 DEF Checked
    <3>2. AtAck' /\ calm' \in 1 .. 2 => AtAck /\ calm \in 1 .. 2 /\ calm' = calm + 1
      BY <1>1, <2>0, <2>2, <2>4
    <3>3. AtAck /\ calm \in 1 .. 2 => AtAck' /\ calm' = calm + 1
      BY <1>1, <2>0, <2>2
    <3> QED
      BY <2>0, <2>1, <2>2, <2>4, <3>1, <3>2, <3>3, ReadSelectionKept
  <2> QED
    BY <2>3, <2>4
<1>3. CASE START \/ RepeatedStart
  <2>1. PICK p : ReadBegins(p)
    BY <1>3, StartsRead
  <2>2. Handler(StartEvent)
    BY <2>1 DEF ReadBegins, Clock
  <2>3. phase' = "Byte" /\ xfr'.k = 0 /\ phase \in {"Quiet", "Byte"}
    BY <2>1 DEF ReadBegins
  <2>5. ~AtAck /\ ~AtAck' /\ ~Checked'
    BY <2>3 DEF AtAck, Checked, Between
  <2> QED
    BY <2>2, <2>3, <2>5, ReadSelectionKept
<1>4. CASE ByteEnd
  <2>1. PICK e : Handler(e)
    BY <1>4, ReadByteMoves DEF Clock
  <2>2. /\ phase = "Byte" /\ phase' = "Bit" /\ calm' = 0
        /\ xfr'.plan = xfr.plan /\ xfr'.k = xfr.k + 1
    BY <1>4, ReadByteMoves
  <2>3. ~AtAck /\ (Virtual' <=> Virtual)
    BY <2>2 DEF AtAck, Virtual, Reading, IsRead
  <2>4. Checked' => Checked
    BY <1>1, <2>2 DEF Checked, Between, AtAck
  <2> QED
    BY <2>1, <2>2, <2>3, <2>4, ReadSelectionKept
<1>5. CASE BitEnd
  <2>1. PICK e : Handler(e)
    BY <1>5, ReadBitMoves DEF Clock
  <2>2. /\ phase = "Bit" /\ phase' = "Byte" /\ calm > 2 /\ calm' = 0
        /\ xfr'.plan = xfr.plan /\ xfr'.k = xfr.k
    BY <1>5, ReadBitMoves
  <2>3. ~AtAck' /\ (Virtual' <=> Virtual) /\ ~(calm \in 0 .. 2) /\ calm # 0
    BY <1>1, <2>2 DEF AtAck, Virtual, Reading, IsRead
  <2>4. Checked' => Checked
    BY <1>1, <2>2 DEF Checked, Between, AtAck
  <2> QED
    BY <1>1, <2>1, <2>2, <2>3, <2>4, ReadSelectionKept
<1>6. CASE STOP
  <2>1. PICK e : Handler(e)
    BY <1>6 DEF STOP, Clock
  <2>2. phase = "Byte" /\ phase' = "Quiet" /\ calm' = 0
    BY <1>6 DEF STOP, MayEnd
  <2>3. ~AtAck /\ ~AtAck' /\ ~Checked'
    BY <2>2 DEF AtAck, Checked, Between
  <2> QED
    BY <2>1, <2>2, <2>3, ReadSelectionKept
<1> QED
  BY <1>2, <1>3, <1>4, <1>5, <1>6 DEF Next

-----------------------------------------------------------------------------
(* Responses. *)

\* The range of the lengths and of the first CSRs.
LEMMA CsrRanges ==
    ASSUME NEW c \in Nat
    PROVE  /\ CsrsOf(c)[3] \in Nat /\ CsrsOf(c)[3] >= 2 /\ CsrsOf(c)[3] <= 24
           /\ CsrsOf(c)[1] \in Nat
           /\ CsrsOf(c)[1] <= 24 \/ (CsrsOf(c)[1] = 255 /\ CsrsOf(c)[3] = 4)
<1>1. /\ c = 34 => CsrsOf(c) = <<0, 3, 15>>
      /\ c = 35 => CsrsOf(c) = <<4, 9, 24>>
      /\ c = 36 => CsrsOf(c) = <<11, 12, 7>>
      /\ c = 37 => CsrsOf(c) = <<13, 13, 3>>
      /\ c = 38 => CsrsOf(c) = <<14, 14, 3>>
      /\ c = 39 => CsrsOf(c) = <<15, 15, 2>>
      /\ c = 40 => CsrsOf(c) = <<16, 16, 4>>
      /\ c = 45 => CsrsOf(c) = <<17, 18, 6>>
      /\ c = 46 => CsrsOf(c) = <<19, 23, 20>>
      /\ c = 47 => CsrsOf(c) = <<24, 24, 4>>
      /\ c \notin {34, 35, 36, 37, 38, 39, 40, 45, 46, 47} => CsrsOf(c) = <<255, 255, 4>>
  BY DEF CsrsOf, Invalid
<1>2. CASE c \in {34, 35, 36, 37}
  BY <1>1, <1>2
<1>3. CASE c \in {38, 39, 40, 45, 46, 47}
  BY <1>1, <1>3
<1>4. CASE c \notin {34, 35, 36, 37, 38, 39, 40, 45, 46, 47}
  BY <1>1, <1>4
<1> QED
  BY <1>2, <1>3, <1>4

ByteTags == {"len", "csr", "pec"} \X Nat \X Nat

\* The bytes of a response, one by one.
LEMMA ResponseBytes ==
    ASSUME NEW c \in Nat, NEW first \in Nat, NEW len \in Nat,
           first = CsrsOf(c)[1], len = CsrsOf(c)[3]
    PROVE  /\ ResponseTo(c) \in Seq(ByteTags) /\ Len(ResponseTo(c)) = len + 3
           /\ ResponseTo(c)[1] = <<"len", 0, len>> /\ ResponseTo(c)[2] = <<"len", 1, 0>>
           /\ \A j \in 1 .. len : ResponseTo(c)[2 + j] =
                 <<"csr", first + (j - 1) \div 4, (j - 1) % 4>>
           /\ ResponseTo(c)[len + 3] = <<"pec", 2 + len, 0>>
<1> DEFINE a == <<<<"len", 0, len>>, <<"len", 1, 0>>>>
           b == [j \in 1 .. len |-> <<"csr", first + (j - 1) \div 4, (j - 1) % 4>>]
           d == <<<<"pec", 2 + len, 0>>>>
           ab == a \o b
<1>1. ResponseTo(c) = ab \o d
  BY DEF ResponseTo
<1>2. a \in Seq(ByteTags) /\ Len(a) = 2 /\ a[1] = <<"len", 0, len>> /\ a[2] = <<"len", 1, 0>>
  <2>1. <<"len", 0, len>> \in ByteTags /\ <<"len", 1, 0>> \in ByteTags
    BY DEF ByteTags
  <2> QED
    BY <2>1
<1>3. b \in Seq(ByteTags) /\ Len(b) = len
  <2>1. ASSUME NEW j \in 1 .. len
        PROVE  <<"csr", first + (j - 1) \div 4, (j - 1) % 4>> \in ByteTags
    <3>1. j - 1 \in Nat
      OBVIOUS
    <3>2. (j - 1) \div 4 \in Nat /\ (j - 1) % 4 \in Nat
      BY <3>1
    <3> QED
      BY <3>2 DEF ByteTags
  <2>2. b \in [1 .. len -> ByteTags]
    BY <2>1
  <2>3. ASSUME NEW f \in [1 .. len -> ByteTags] PROVE f \in Seq(ByteTags) /\ Len(f) = len
    OBVIOUS
  <2> HIDE DEF b
  <2> QED
    BY <2>2, <2>3
<1>4. d \in Seq(ByteTags) /\ Len(d) = 1 /\ d[1] = <<"pec", 2 + len, 0>>
  <2>1. <<"pec", 2 + len, 0>> \in ByteTags
    BY DEF ByteTags
  <2> QED
    BY <2>1
<1>5. \A j \in 1 .. len : b[j] = <<"csr", first + (j - 1) \div 4, (j - 1) % 4>>
  OBVIOUS
<1> HIDE DEF a, b, d
<1>6. /\ ab \in Seq(ByteTags) /\ Len(ab) = 2 + len
      /\ \A i \in 1 .. 2 + len : ab[i] = IF i <= 2 THEN a[i] ELSE b[i - 2]
  <2>1. /\ a \o b \in Seq(ByteTags) /\ Len(a \o b) = Len(a) + Len(b)
        /\ \A i \in 1 .. Len(a) + Len(b) : (a \o b)[i] =
               IF i <= Len(a) THEN a[i] ELSE b[i - Len(a)]
    BY <1>2, <1>3, ConcatProperties, Zenon
  <2> QED
    BY <1>2, <1>3, <2>1
<1> HIDE DEF ab
<1>7. /\ ab \o d \in Seq(ByteTags) /\ Len(ab \o d) = len + 3
      /\ \A i \in 1 .. 2 + len + 1 : (ab \o d)[i] =
             IF i <= 2 + len THEN ab[i] ELSE d[i - (2 + len)]
  <2>1. /\ ab \o d \in Seq(ByteTags) /\ Len(ab \o d) = Len(ab) + Len(d)
        /\ \A i \in 1 .. Len(ab) + Len(d) : (ab \o d)[i] =
               IF i <= Len(ab) THEN ab[i] ELSE d[i - Len(ab)]
    BY <1>4, <1>6, ConcatProperties, Zenon
  <2>2. Len(ab) = 2 + len /\ Len(d) = 1 /\ Len(ab) + Len(d) = len + 3 /\ 2 + len + 1 = len + 3
    BY <1>4, <1>6
  <2> QED
    BY <2>1, <2>2
<1> DEFINE s == ResponseTo(c)
<1>8. /\ s \in Seq(ByteTags) /\ Len(s) = len + 3
      /\ \A i \in 1 .. len + 3 : s[i] =
             IF i <= 2 + len THEN ab[i] ELSE d[i - (2 + len)]
  <2>1. 2 + len + 1 = len + 3
    OBVIOUS
  <2> QED
    BY <1>1, <1>7, <2>1
<1> HIDE DEF s
<1>9. s[1] = <<"len", 0, len>> /\ s[2] = <<"len", 1, 0>>
  <2>1. 1 \in 1 .. len + 3 /\ 2 \in 1 .. len + 3 /\ 1 <= 2 + len /\ 2 <= 2 + len
        /\ 1 \in 1 .. 2 + len /\ 2 \in 1 .. 2 + len
    OBVIOUS
  <2>2. s[1] = ab[1] /\ s[2] = ab[2]
    BY <1>8, <2>1
  <2>3. ab[1] = a[1] /\ ab[2] = a[2]
    BY <1>6, <2>1
  <2> QED
    BY <1>2, <2>2, <2>3
<1>10. ASSUME NEW j \in 1 .. len
       PROVE  s[2 + j] = <<"csr", first + (j - 1) \div 4, (j - 1) % 4>>
  <2>1. 2 + j \in 1 .. len + 3 /\ 2 + j <= 2 + len /\ ~(2 + j <= 2) /\ (2 + j) - 2 = j
    OBVIOUS
  <2>2. s[2 + j] = ab[2 + j] /\ ab[2 + j] = b[j]
    BY <1>6, <1>8, <2>1
  <2> QED
    BY <1>5, <2>2
<1>11. s[len + 3] = <<"pec", 2 + len, 0>>
  <2>1. len + 3 \in 1 .. len + 3 /\ ~(len + 3 <= 2 + len) /\ (len + 3) - (2 + len) = 1
    OBVIOUS
  <2> QED
    BY <1>4, <1>8, <2>1
<1> QED
  BY <1>8, <1>9, <1>10, <1>11 DEF s

\* The command taken up last has a response of a known length.
LEMMA RespFacts ==
    ASSUME ReadCalls, ReadTypes
    PROVE  /\ current.plan.cmd \in Nat
           /\ LenOf \in Nat /\ LenOf >= 2 /\ LenOf <= 24 /\ FirstOf \in Nat
           /\ FirstOf <= 24 \/ (FirstOf = 255 /\ LenOf = 4)
           /\ Resp \in Seq(ByteTags) /\ Len(Resp) = LenOf + 3
           /\ Resp[1] = <<"len", 0, LenOf>> /\ Resp[2] = <<"len", 1, 0>>
           /\ \A j \in 1 .. LenOf : Resp[2 + j] =
                 <<"csr", FirstOf + (j - 1) \div 4, (j - 1) % 4>>
           /\ Resp[LenOf + 3] = <<"pec", 2 + LenOf, 0>>
<1>1. current.plan.cmd \in Nat
  BY ReadPlanFacts DEF ReadTypes
<1>2. /\ LenOf \in Nat /\ LenOf >= 2 /\ LenOf <= 24 /\ FirstOf \in Nat
      /\ FirstOf <= 24 \/ (FirstOf = 255 /\ LenOf = 4)
  BY <1>1, CsrRanges DEF LenOf, FirstOf
<1>3. LenOf = CsrsOf(current.plan.cmd)[3] /\ FirstOf = CsrsOf(current.plan.cmd)[1]
  BY DEF LenOf, FirstOf
<1>4. /\ Resp \in Seq(ByteTags) /\ Len(Resp) = LenOf + 3
      /\ Resp[1] = <<"len", 0, LenOf>> /\ Resp[2] = <<"len", 1, 0>>
      /\ \A j \in 1 .. LenOf : Resp[2 + j] =
            <<"csr", FirstOf + (j - 1) \div 4, (j - 1) % 4>>
      /\ Resp[LenOf + 3] = <<"pec", 2 + LenOf, 0>>
  <2>1. PICK len \in Nat : len = LenOf
    BY <1>2
  <2>2. PICK first \in Nat : first = FirstOf
    BY <1>2
  <2>3. PICK c \in Nat : c = current.plan.cmd
    BY <1>1
  <2>4. first = CsrsOf(c)[1] /\ len = CsrsOf(c)[3]
    BY <1>3, <2>1, <2>2, <2>3
  <2>5. /\ ResponseTo(c) \in Seq(ByteTags) /\ Len(ResponseTo(c)) = len + 3
        /\ ResponseTo(c)[1] = <<"len", 0, len>> /\ ResponseTo(c)[2] = <<"len", 1, 0>>
        /\ \A j \in 1 .. len : ResponseTo(c)[2 + j] =
              <<"csr", first + (j - 1) \div 4, (j - 1) % 4>>
        /\ ResponseTo(c)[len + 3] = <<"pec", 2 + len, 0>>
    BY <2>4, ResponseBytes
  <2>6. Resp = ResponseTo(c)
    BY <2>3 DEF Resp
  <2> QED
    BY <2>1, <2>2, <2>5, <2>6
<1> QED
  BY <1>1, <1>2, <1>4

\* A beginning of a sequence, and the one that is an element longer.
LEMMA Beginnings ==
    ASSUME NEW S, NEW s \in Seq(S), NEW n \in Nat, n <= Len(s)
    PROVE  /\ SubSeq(s, 1, n) \in Seq(S) /\ Len(SubSeq(s, 1, n)) = n
           /\ IsPrefix(SubSeq(s, 1, n), s)
           /\ n < Len(s) => Append(SubSeq(s, 1, n), s[n + 1]) = SubSeq(s, 1, n + 1)
           /\ n = 0 => SubSeq(s, 1, n) = <<>>
           /\ n = Len(s) => SubSeq(s, 1, n) = s
<1>1. Len(s) \in Nat /\ s \in [1 .. Len(s) -> S]
  OBVIOUS
<1>2. /\ SubSeq(s, 1, n) \in Seq(S) /\ Len(SubSeq(s, 1, n)) = n
      /\ \A i \in 1 .. n : SubSeq(s, 1, n)[i] = s[i]
  BY <1>1, SubSeqProperties
<1> DEFINE b == SubSeq(s, 1, n)
<1>3. IsPrefix(b, s)
  <2>1. Len(b) = n
    BY <1>2
  <2>2. SubSeq(b, 1, n) = b
    BY <1>2
  <2> QED
    BY <2>1, <2>2 DEF IsPrefix
<1>4. ASSUME n < Len(s) PROVE Append(b, s[n + 1]) = SubSeq(s, 1, n + 1)
  <2>1. /\ SubSeq(s, 1, n + 1) \in Seq(S) /\ Len(SubSeq(s, 1, n + 1)) = n + 1
        /\ \A i \in 1 .. n + 1 : SubSeq(s, 1, n + 1)[i] = s[i]
    BY <1>1, <1>4, SubSeqProperties
  <2> DEFINE c == SubSeq(s, 1, n + 1)
             a == Append(b, s[n + 1])
  <2>2. s[n + 1] \in S
    BY <1>1, <1>4
  <2>3. a \in Seq(S) /\ Len(a) = n + 1 /\ \A i \in 1 .. n + 1 : a[i] = s[i]
    BY <1>2, <2>2
  <2> HIDE DEF a, b, c
  <2>4. c \in Seq(S) /\ Len(c) = n + 1 /\ \A i \in 1 .. n + 1 : c[i] = s[i]
    BY <2>1 DEF c
  <2>5. a = c
    BY <2>3, <2>4
  <2> QED
    BY <2>5 DEF a, c
<1>5. n = 0 => SubSeq(s, 1, n) = <<>>
  BY <1>2
<1>6. n = Len(s) => SubSeq(s, 1, n) = s
  BY <1>1, <1>2
<1> QED
  BY <1>2, <1>3, <1>4, <1>5, <1>6

-----------------------------------------------------------------------------
(* The parts of the handler in a clock of a read. *)

\* The queue stays connected to the receiver outside payloads.
LEMMA MuxStays ==
    ASSUME NEW e, Handler(e), queue_select, recv # "RxData"
    PROVE  queue_select'
BY DEF Handler, Receiver, QueueMux

\* A START is remembered only if it comes before the receiver is ready.
LEMMA StartNotLatched ==
    ASSUME NEW e, Handler(e), ~bus_start_r, e.start => recv \notin {"CmdIsRd", "Cmd", "Busy"}
    PROVE  ~bus_start_r'
BY RecvInputs DEF Handler, Receiver, StartLatch

\* Without a command there is none in the next clock.
LEMMA ExecOffStays ==
    ASSUME NEW e, Handler(e), ExecOff, recv # "Cmd"
    PROVE  ExecOff'
<1>1. exec' = "Idle"
  BY ExecWaits DEF ExecOff
<1>2. ~exec_pending' /\ ~exec_cmd'.valid
  BY DEF Handler, ExecPending, Registers, ExecOff
<1>3. ~recv_cmd_valid'
  BY DEF Handler, Receiver, CommandOut
<1>4. ~res_valid'
  BY DEF Handler, Executor, Response, ExecOff
<1> QED
  BY <1>1, <1>2, <1>3, <1>4 DEF ExecOff

\* The transmitter waits for a response.
LEMMA XmitIdles ==
    ASSUME NEW e, Handler(e), xmit = "Idle", ~res_valid
    PROVE  xmit' = "Idle"
<1>1. Transmitter(xmit_in(e)) /\ ~xmit_in(e).res_valid
  BY DEF Handler, xmit_in
<1> QED
  BY <1>1 DEF Transmitter, xmit_d

\* A byte is taken only when the target FSM begins to send one.
LEMMA NothingTaken ==
    ASSUME ReadCalls, ReadTypes, ReadBusSide, NEW e, Silent(e)
    PROVE  ~tx_fifo_rready(e) /\ ~tx_pr_abort(e)
<1>1. fsm \in ReadPlaces /\ (checks_header <=> (AtAck /\ calm = 0))
      /\ (~Between => bus_addr.addr # "te0")
  BY ReadPlaceFacts
<1>2. fsm \in {"CheckFByte", "CheckSByte"} => bus_addr.addr # "te0"
  BY <1>1 DEF checks_header, AtAck, Between
<1>3. fsm_next(e) = fsm \/ fsm_next(e) \in {"TxAckFByte", "TxAckSByte", "Wait"}
  BY <1>1, <1>2, ReadFsmSilent
<1> QED
  BY <1>3 DEF tx_fifo_rready, tx_pr_abort, Silent

\* Without a descriptor descriptor_tx has nothing to do.
LEMMA TxdRests ==
    ASSUME NEW e, Handler(e), TxdOff, ~tx_pr_abort(e), xmit # "TxDesc" \/ ~checks_header
    PROVE  TxdOff'
<1> DEFINE i == txd_in(e)
<1>1. DescTx(i) /\ ~i.abort /\ ~(i.start /\ i.desc_rvalid)
  BY DEF Handler, txd_in, tx_pr_start, tx_desc_avail, desc_valid
<1>2. ~descriptor_valid /\ ~tx_pending /\ byte_counter = 0 /\ ~tx_flush
  BY DEF TxdOff
<1> HIDE DEF i
<1>3. ~desc_rready(i) /\ ~tx_start(i) /\ ~tx_queue_rready(i)
  BY <1>1, <1>2 DEF desc_rready, tx_start, tx_queue_rready, tx_byte_valid
<1>4. ~descriptor_valid'
  BY <1>1, <1>2, <1>3 DEF DescTx, TxDescriptor
<1>5. ~tx_flush'
  BY <1>1, <1>2 DEF DescTx, FlushAborted
<1>6. ~tx_pending'
  BY <1>1, <1>2, <1>3 DEF DescTx, TxPending
<1>7. byte_counter' = 0
  BY <1>1, <1>2, <1>3 DEF DescTx, TxCount
<1> QED
  BY <1>4, <1>5, <1>6, <1>7 DEF TxdOff

\* The end of a response is told at the T-bit of its last byte only.
LEMMA EndNotTold ==
    ASSUME NEW e, Handler(e), ~tx_end_xfer, ~e.done \/ byte_counter # 1
    PROVE  ~tx_end_xfer'
BY DEF Handler, Latches, tx_byte_last

\* Transmitter and descriptor_tx rest.
LEMMA SendOffStays ==
    ASSUME NEW e, Handler(e), SendOff, ~res_valid, ~tx_pr_abort(e)
    PROVE  SendOff'
<1>1. xmit = "Idle" /\ TxdOff /\ ~tx_end_xfer /\ byte_counter # 1
  BY DEF SendOff, TxdOff
<1>2. xmit' = "Idle" /\ ~tx_end_xfer'
  BY <1>1, XmitIdles, EndNotTold
<1>3. TxdOff'
  BY <1>1, TxdRests
<1> QED
  BY <1>2, <1>3 DEF SendOff

\* The PEC of the response starts with a START, and moves with its bytes.
LEMMA SendCrc ==
    ASSUME NEW e, Handler(e)
    PROVE  /\ e.start => tx_crc' = 0
           /\ tx_crc = 0 /\ xmit \notin {"TxLenL", "TxLenH", "TxData"} => tx_crc' = 0
<1> DEFINE i == xmit_in(e)
<1>1. TxPec(i) /\ i.start = e.start
  BY DEF Handler, Transmitter, xmit_in
<1> HIDE DEF i
<1> QED
  BY <1>1 DEF TxPec

\* The history, without a command that is taken up.
LEMMA HistoryStays ==
    ASSUME NEW e, Clock(e, <<>>), ~TakesCommand, owed = <<>>
    PROVE  owed' = <<>> /\ current' = current
BY DEF Clock

\* The bytes that are out.
LEMMA OutClock ==
    ASSUME NEW e, NEW sent, Clock(e, sent)
    PROVE  /\ e.start => out' = <<>>
           /\ ~e.start /\ ~tx_fifo_rready(e) => out' = out
           /\ ~e.start /\ tx_fifo_rready(e) => out' = Append(out, data_byte(xmit_in(e)))
BY DEF Clock

\* The virtual target stays selected.
LEMMA HeldStays ==
    ASSUME ReadCalls, ReadTypes, ReadBusSide, NEW e, Handler(e), Held, phase # "Quiet",
           AtAck /\ calm = 0 => Virtual
    PROVE  Held'
<1>1. Virtual => xfr.plan.kind # "broadcast"
  BY DEF Virtual, Reading, IsRead
<1>2. virtual_sel' /\ xfer_in_progress'
  <2>1. CASE AtAck /\ calm = 0
    BY <1>1, <2>1, ReadSelectionClock
  <2>2. CASE ~(AtAck /\ calm = 0)
    BY <2>2, ReadSelectionClock DEF Held
  <2> QED
    BY <2>1, <2>2
<1>3. mode_enter' = 0
  <2>1. mode_enter' = IF virtual_sel THEN mode_enter \div 2 ELSE 2
    BY ReadSelectionClock
  <2> QED
    BY <2>1 DEF Held
<1> QED
  BY <1>2, <1>3 DEF Held

\* While it is, the handler has the queues.
LEMMA HeldPending == ASSUME Held PROVE recovery_pending
BY DEF Held, recovery_pending

\* The executor, from command to response.
LEMMA ExecReads ==
    ASSUME NEW e, Handler(e), virtual_sel, ~e.stop
    PROVE  /\ exec = "Error" => exec' = "Done" /\ ~res_valid'
           /\ exec = "Done" => exec' = "Idle" /\ ~res_valid'
           /\ exec = "CsrRead" /\ xmit = "Idle" =>
                 /\ exec' = "CsrReadLen" /\ csr_sel' = csr_sel /\ bcnt' = bcnt
                 /\ csr_length' = csr_length /\ csr_end' = Invalid /\ ~res_valid'
           /\ exec = "CsrReadLen" =>
                 /\ exec' = "CsrReadData" /\ csr_sel' = csr_sel /\ bcnt' = bcnt
                 /\ csr_length' = csr_length /\ csr_end' = Invalid /\ ~res_dlast'
                 /\ csr_data' = csr_sel /\ dcnt' = csr_length
                 /\ (res_valid' <=> xmit = "Idle" \/ res_valid)
           /\ exec = "CsrReadData" =>
                 /\ csr_length' = csr_length /\ csr_end' = csr_end /\ ~res_valid'
                 /\ csr_data' = csr_sel /\ (res_dlast' <=> dcnt = 1)
           /\ exec = "CsrReadData" /\ ~res_dready(xmit_in(e)) =>
                 exec' = exec /\ csr_sel' = csr_sel /\ bcnt' = bcnt /\ dcnt' = dcnt
           /\ exec = "CsrReadData" /\ res_dready(xmit_in(e)) =>
                 /\ exec' = IF dcnt = 1 THEN "Done" ELSE exec
                 /\ csr_sel' = IF bcnt = 3 /\ csr_sel < csr_end THEN csr_sel + 1 ELSE csr_sel
                 /\ bcnt' = (bcnt + 1) % 4 /\ dcnt' = (dcnt + 65535) % 65536
<1> DEFINE i == exec_in(e)
           rd == res_dready(xmit_in(e))
<1>1. /\ Executor(i) /\ i.on = virtual_sel /\ i.abort = e.stop /\ i.res_ready = (xmit = "Idle")
      /\ i.res_dready = rd
  BY DEF Handler, exec_in, res_ready
<1> HIDE DEF i, rd
<1>2. exec' = exec_d(i) /\ Counters(i) /\ Select(i) /\ Response(i)
  BY <1>1 DEF Executor
<1>8. ASSUME exec # "CsrReadLen" PROVE ~res_valid'
  BY <1>2, <1>8 DEF Response
<1>3. CASE exec = "Error"
  <2>1. exec_d(i) = "Done"
    BY <1>3 DEF exec_d
  <2> QED
    BY <1>2, <1>3, <1>8, <2>1
<1>4. CASE exec = "Done"
  <2>1. exec_d(i) = "Idle"
    BY <1>4 DEF exec_d
  <2> QED
    BY <1>2, <1>4, <1>8, <2>1
<1>5. CASE exec = "CsrRead"
  <2>1. exec_d(i) = IF xmit = "Idle" THEN "CsrReadLen" ELSE exec
    BY <1>1, <1>5 DEF exec_d
  <2>2. ~begins(i) /\ ~taken(i) /\ ~NextCsr(i)
    BY <1>5 DEF begins, taken, NextCsr
  <2>3. bcnt' = bcnt
    BY <1>2, <1>5, <2>2 DEF Counters
  <2>4. csr_sel' = csr_sel /\ csr_length' = csr_length /\ csr_end' = Invalid
    BY <1>2, <1>5, <2>2 DEF Select
  <2> QED
    BY <1>2, <1>5, <1>8, <2>1, <2>2, <2>3, <2>4
<1>6. CASE exec = "CsrReadLen"
  <2>5. exec_d(i) = "CsrReadData"
    BY <1>6 DEF exec_d
  <2>6. (res_valid' <=> xmit = "Idle" \/ res_valid) /\ ~res_dlast'
    BY <1>1, <1>2, <1>6 DEF Response
  <2>1. exec' = "CsrReadData" /\ (res_valid' <=> xmit = "Idle" \/ res_valid) /\ ~res_dlast'
    BY <1>2, <2>5, <2>6
  <2>2. ~begins(i) /\ ~taken(i) /\ ~NextCsr(i)
    BY <1>6 DEF begins, taken, NextCsr
  <2>3. dcnt' = csr_length /\ bcnt' = bcnt
    BY <1>2, <1>6, <2>2 DEF Counters
  <2>4. csr_sel' = csr_sel /\ csr_length' = csr_length /\ csr_end' = Invalid /\ csr_data' = csr_sel
    BY <1>2, <1>6, <2>2 DEF Select
  <2> QED
    BY <1>6, <2>1, <2>3, <2>4
<1>7. CASE exec = "CsrReadData"
  <2>1. ~begins(i) /\ (taken(i) <=> rd) /\ (NextCsr(i) <=> rd /\ bcnt = 3)
    BY <1>1, <1>7 DEF begins, taken, NextCsr
  <2>6. exec_d(i) = IF taken(i) /\ dcnt = 1 THEN "Done" ELSE exec
    BY <1>1, <1>7 DEF exec_d
  <2>2. exec' = IF rd /\ dcnt = 1 THEN "Done" ELSE exec
    BY <1>2, <2>1, <2>6
  <2>3. ~res_valid' /\ (res_dlast' <=> dcnt = 1)
    BY <1>2, <1>7 DEF Response
  <2>4. /\ dcnt' = IF rd THEN (dcnt + 65535) % 65536 ELSE dcnt
        /\ bcnt' = IF rd THEN (bcnt + 1) % 4 ELSE bcnt
    BY <1>2, <1>7, <2>1 DEF Counters
  <2>5. /\ csr_sel' = IF rd /\ bcnt = 3 /\ csr_sel < csr_end THEN csr_sel + 1 ELSE csr_sel
        /\ csr_length' = csr_length /\ csr_end' = csr_end /\ csr_data' = csr_sel
    BY <1>2, <1>7, <2>1 DEF Select
  <2> QED
    BY <1>7, <2>2, <2>3, <2>4, <2>5 DEF rd
<1> QED
  BY <1>3, <1>4, <1>5, <1>6, <1>7 DEF rd

\* The transmitter has a response and waits.
LEMMA XmitWaits ==
    ASSUME NEW e, Handler(e), virtual_sel, ~e.stop, xmit \in {"TxDesc", "TxLenL", "TxLenH", "TxData", "TxPEC"},
           ~desc_rready(txd_in(e)), ~tx_queue_rready(txd_in(e))
    PROVE  /\ xmit' = xmit /\ len_q' = len_q /\ ~res_dready(xmit_in(e))
           /\ ~e.start => tx_crc' = tx_crc
<1> DEFINE i == xmit_in(e)
<1>1. /\ Transmitter(i) /\ i.on /\ ~i.abort /\ ~i.desc_ready /\ ~i.data_ready /\ i.start = e.start
  BY DEF Handler, xmit_in
<1> HIDE DEF i
<1>2. xmit' = xmit /\ len_q' = len_q
  BY <1>1 DEF Transmitter, xmit_d, Step, res_ready
<1>3. ~res_dready(i)
  BY <1>1 DEF res_dready
<1>4. ~e.start => tx_crc' = tx_crc
  BY <1>1 DEF Transmitter, TxPec
<1> QED
  BY <1>2, <1>3, <1>4 DEF i

\* A byte of the response goes.
LEMMA XmitSends ==
    ASSUME NEW e, Handler(e), virtual_sel, ~e.stop, ~e.start, recovery_pending,
           tx_queue_rready(txd_in(e))
    PROVE  /\ xmit = "TxLenL" => /\ xmit' = "TxLenH" /\ tx_crc' = tx_crc + 1
                                 /\ ~res_dready(xmit_in(e))
                                 /\ data_byte(xmit_in(e)) = <<"len", 0, len_q>>
           /\ xmit = "TxLenH" => /\ xmit' = "TxData" /\ tx_crc' = tx_crc + 1
                                 /\ ~res_dready(xmit_in(e))
                                 /\ data_byte(xmit_in(e)) = <<"len", 1, 0>>
           /\ xmit = "TxData" /\ exec = "CsrReadData" =>
                 /\ xmit' = IF res_dlast THEN "TxPEC" ELSE xmit
                 /\ tx_crc' = tx_crc + 1 /\ res_dready(xmit_in(e))
                 /\ data_byte(xmit_in(e)) = <<"csr", csr_data, bcnt>>
           /\ xmit = "TxPEC" => /\ xmit' = "Idle" /\ ~res_dready(xmit_in(e))
                                /\ data_byte(xmit_in(e)) = <<"pec", tx_crc, 0>>
<1> DEFINE i == xmit_in(e)
<1>1. /\ Transmitter(i) /\ i.on /\ ~i.abort /\ i.data_ready /\ ~i.start
      /\ i.res_dvalid = (exec = "CsrReadData") /\ i.res_dlast = res_dlast
      /\ i.res_data = <<"csr", csr_data, bcnt>>
  BY DEF Handler, xmit_in, res_dvalid, res_data
<1> HIDE DEF i
<1>2. xmit' = xmit_d(i) /\ TxPec(i)
  BY <1>1 DEF Transmitter
<1>3. CASE xmit = "TxLenL"
  BY <1>1, <1>2, <1>3 DEF xmit_d, Step, TxPec, res_dready, data_byte, data_valid, i
<1>4. CASE xmit = "TxLenH"
  BY <1>1, <1>2, <1>4 DEF xmit_d, Step, TxPec, res_dready, data_byte, data_valid, i
<1>5. CASE xmit = "TxData" /\ exec = "CsrReadData"
  <2>1. data_valid(i) /\ res_dready(i) /\ data_byte(i) = <<"csr", csr_data, bcnt>>
    BY <1>1, <1>5 DEF data_valid, res_dready, data_byte
  <2>2. xmit' = (IF res_dlast THEN "TxPEC" ELSE xmit) /\ tx_crc' = tx_crc + 1
    BY <1>1, <1>2, <1>5, <2>1 DEF xmit_d, TxPec
  <2> QED
    BY <1>5, <2>1, <2>2 DEF i
<1>6. CASE xmit = "TxPEC"
  BY <1>1, <1>2, <1>6 DEF xmit_d, res_dready, data_byte, i
<1> QED
  BY <1>3, <1>4, <1>5, <1>6

\* A descriptor that was taken is kept until its last byte.
LEMMA TxdWaits ==
    ASSUME NEW e, Handler(e), descriptor_valid, tx_pending, ~tx_flush, mode_enter # 1,
           ~tx_fifo_rready(e), ~tx_pr_abort(e)
    PROVE  /\ descriptor_valid' /\ tx_pending' /\ byte_counter' = byte_counter /\ ~tx_flush'
           /\ data_len' = data_len
           /\ ~desc_rready(txd_in(e)) /\ ~tx_queue_rready(txd_in(e))
<1> DEFINE i == txd_in(e)
<1>1. DescTx(i) /\ ~i.abort /\ ~i.enter /\ ~i.byte_ready
  BY DEF Handler, txd_in
<1> HIDE DEF i
<1>2. ~desc_rready(i) /\ ~tx_start(i) /\ ~tx_queue_rready(i) /\ ~tx_end(i)
  BY <1>1 DEF desc_rready, tx_start, tx_queue_rready, tx_end, tx_byte_valid
<1>3. descriptor_valid' /\ data_len' = data_len
  BY <1>1, <1>2 DEF DescTx, TxDescriptor
<1>5. tx_pending'
  BY <1>1, <1>2 DEF DescTx, TxPending
<1>6. byte_counter' = byte_counter
  BY <1>1, <1>2 DEF DescTx, TxCount
<1>7. ~tx_flush'
  BY <1>1 DEF DescTx, FlushAborted
<1>4. tx_pending' /\ byte_counter' = byte_counter /\ ~tx_flush'
  BY <1>5, <1>6, <1>7
<1> QED
  BY <1>2, <1>3, <1>4 DEF i

\* And its bytes are counted.
LEMMA TxdTakes ==
    ASSUME NEW e, Handler(e), descriptor_valid, tx_pending, ~tx_flush, mode_enter # 1,
           tx_fifo_rready(e), ~tx_pr_abort(e), tx_rvalid,
           NEW n \in Nat, n >= 1, n <= 27, byte_counter = n
    PROVE  /\ byte_counter' = n - 1 /\ ~tx_flush'
           /\ descriptor_valid' <=> n > 1
           /\ tx_pending' <=> n > 1
           /\ tx_queue_rready(txd_in(e))
<1> DEFINE i == txd_in(e)
<1>1. DescTx(i) /\ ~i.abort /\ ~i.enter /\ i.byte_ready /\ i.rvalid
  BY DEF Handler, txd_in
<1> HIDE DEF i
<1>2. ~desc_rready(i) /\ ~tx_start(i) /\ tx_queue_rready(i) /\ (tx_end(i) <=> n = 1)
  BY <1>1 DEF desc_rready, tx_start, tx_queue_rready, tx_end, tx_byte_valid
<1>3. descriptor_valid' <=> n > 1
  BY <1>1, <1>2 DEF DescTx, TxDescriptor
<1>7. ~tx_flush'
  BY <1>1 DEF DescTx, FlushAborted
<1>8. tx_pending' <=> n > 1
  <2>1. tx_end(i) <=> ~(n > 1)
    BY <1>2
  <2>2. tx_pending' = (tx_start(i) \/ (tx_pending /\ ~(tx_end(i) \/ i.abort)))
    BY <1>1 DEF DescTx, TxPending
  <2>3. tx_pending' <=> ~tx_end(i)
    BY <1>1, <1>2, <2>2, Zenon
  <2> QED
    BY <2>1, <2>3
<1>4. ~tx_flush' /\ (tx_pending' <=> n > 1)
  BY <1>7, <1>8
<1>5. byte_counter' = (n + 65535) % 65536
  BY <1>1, <1>2 DEF DescTx, TxCount
<1>6. (n + 65535) % 65536 = n - 1
  OBVIOUS
<1> QED
  BY <1>2, <1>3, <1>4, <1>5, <1>6 DEF i

-----------------------------------------------------------------------------
(* No command is on its way. *)

\* Between commands no byte arrives.
LEMMA RestsQuiet ==
    ASSUME ReadCalls, ReadTypes, ReadBusSide, ReadRests
    PROVE  ~rx_valid /\ ~Taken /\ ~TakesCommand
<1>1. Reading => Between \/ AtAck
  BY DEF ReadRests
<1>2. ~rx_valid
  BY <1>1 DEF ReadBusSide, Between, AtAck
<1> QED
  BY <1>2 DEF Taken, TakesCommand, ReadRests, ExecOff

\* And nothing moves but the receiver, which waits for one.
LEMMA RestsClock ==
    ASSUME ReadCalls, ReadTypes, ReadBusSide, ReadRests, NEW e, Clock(e, <<>>),
           ~tx_pr_abort(e)
    PROVE  /\ ExecOff' /\ SendOff' /\ owed' = <<>> /\ recv' \in {"Idle", "RxCmd"}
           /\ queue_select' /\ ~bus_start_r'
<1>1. Handler(e) /\ ~Taken /\ ~TakesCommand
  BY RestsQuiet DEF Clock
<1>2. /\ ExecOff /\ SendOff /\ owed = <<>> /\ recv \in {"Idle", "RxCmd"}
      /\ queue_select /\ ~bus_start_r /\ ~res_valid
  BY DEF ReadRests, ExecOff
<1>3. ExecOff' /\ SendOff'
  BY <1>1, <1>2, ExecOffStays, SendOffStays
<1>4. recv' \in {"Idle", "RxCmd"} /\ queue_select' /\ ~bus_start_r'
  BY <1>1, <1>2, RecvRests, StartNotLatched
<1> QED
  BY <1>1, <1>2, <1>3, <1>4, HistoryStays

\* The PEC starts with the byte of the header.
LEMMA ReadHeaderFeeds ==
    ASSUME ReadCalls, ReadTypes, ReadBusSide, AtAck, Reading
    PROVE  Feed(0, last_byte) = Crc(xfr.tag, 1)
<1>1. xfr.tag \in {1, 2} /\ ~Between /\ xfr.k = 1
  BY DEF AtAck, Between, ReadTypes
<1>2. last_byte.f = xfr.tag /\ last_byte.k = 1
  BY <1>1 DEF ReadBusSide
<1> QED
  BY <1>1, <1>2, FeedNext

\* Without an event there is rest, until the header of a command is checked.
LEMMA RestsTick ==
    ASSUME ReadCalls, ReadTypes, ReadBusSide, ReadSelection, ReadRests, Tick
    PROVE  ReadRests' \/ ReadOpens'
<1>1. PICK e : Clock(e, <<>>) /\ Silent(e)
  BY ReadTickMoves
<1>2. Handler(e) /\ ~tx_pr_abort(e) /\ ~e.start /\ ~e.stop
  BY <1>1, NothingTaken DEF Clock, Silent
<1>3. /\ ExecOff' /\ SendOff' /\ owed' = <<>> /\ recv' \in {"Idle", "RxCmd"}
      /\ queue_select' /\ ~bus_start_r'
  BY <1>1, <1>2, RestsClock
<1>4. /\ phase' = phase /\ xfr' = xfr /\ calm \in Nat
      /\ calm' = IF calm < LongGap THEN calm + 1 ELSE calm
  BY ReadTickMoves
<1>5. /\ (Between' <=> Between) /\ (AtAck' <=> AtAck) /\ (Reading' <=> Reading)
      /\ (Served' <=> Served)
  BY <1>4 DEF Between, AtAck, Reading, Served, IsRead
<1>6. CASE Reading /\ ~Between
  <2>1. AtAck /\ calm = 0
    BY <1>6 DEF ReadRests
  <2>2. calm' = 1 /\ AtAck' /\ Reading'
    BY <1>4, <1>5, <1>6, <2>1, ReadCallFacts
  <2>3. checks_header /\ mode_enter = IF virtual_sel THEN 0 ELSE 2
    BY <2>1, ReadPlaceFacts DEF ReadSelection
  <2>4. mode_enter' = IF virtual_sel THEN mode_enter \div 2 ELSE 2
    BY <1>2, ReadSelectionClock
  <2>5. RxPec(e)
    BY <1>2 DEF Handler
  <2>6. CASE virtual_sel
    <3>1. rx_crc' = Feed(0, last_byte)
      BY <1>2, <2>3, <2>5, <2>6, Zenon DEF RxPec
    <3>2. mode_enter' = 0 /\ rx_crc' = Crc(xfr'.tag, 1)
      BY <1>4, <1>6, <2>1, <2>3, <2>4, <2>6, <3>1, ReadHeaderFeeds
    <3> QED
      BY <1>3, <2>2, <3>2 DEF ReadOpens
  <2>7. CASE ~virtual_sel
    <3>1. rx_crc' = 0
      BY <2>5, <2>7, Zenon DEF RxPec
    <3>2. mode_enter' = 3 - calm'
      BY <2>2, <2>4, <2>7
    <3> QED
      BY <1>3, <2>2, <3>1, <3>2 DEF ReadOpens
  <2> QED
    BY <2>6, <2>7
<1>7. CASE ~(Reading /\ ~Between)
  <2>1. Served /\ phase # "Quiet" => xfr.over
    BY DEF ReadRests
  <2> QED
    BY <1>3, <1>4, <1>5, <1>7, <2>1 DEF ReadRests
<1> QED
  BY <1>6, <1>7

\* There is rest after every event.
LEMMA RestsEvents ==
    ASSUME ReadCalls, ReadTypes, ReadBusSide, ReadSelection, ReadRests,
           ByteEnd \/ BitEnd \/ STOP \/ START \/ RepeatedStart
    PROVE  ReadRests'
<1>1. /\ Reading => Between \/ (AtAck /\ calm = 0)
      /\ Served /\ phase # "Quiet" => xfr.over
  BY DEF ReadRests
<1>2. xfr.k \in Nat /\ xfr.plan.kind \in {"read", "response", "other", "broadcast"}
  BY ReadPlaceFacts DEF ReadTypes
<1>3. CASE ByteEnd
  <2>1. PICK e : Clock(e, <<>>) /\ Dones(e)
    BY <1>3, ReadByteMoves
  <2>2. /\ phase = "Byte" /\ ~xfr.over /\ (xfr.k = 0 \/ xfr.todo # <<>> \/ IsRead)
        /\ phase' = "Bit" /\ calm' = 0
        /\ xfr'.plan = xfr.plan /\ xfr'.k = xfr.k + 1
        /\ xfr'.over = xfr.over /\ xfr'.expected = xfr.expected
    BY <1>3, ReadByteMoves
  <2>3. xfr.k = 0
    <3>1. ASSUME xfr.k > 0 PROVE FALSE
      <4>1. ~Reading /\ ~Served
        BY <1>1, <2>2, <3>1 DEF Between, AtAck
      <4>2. xfr.todo = <<>>
        BY <4>1 DEF ReadBusSide
      <4>3. IsRead
        BY <2>2, <3>1, <4>2
      <4> QED
        BY <2>2, <3>1, <4>1, <4>3 DEF ReadBusSide, ReadFsmAt, IsRead
    <3> QED
      BY <1>2, <3>1
  <2>4. ~tx_pr_abort(e)
    BY <2>1 DEF tx_pr_abort, Dones
  <2>5. /\ ExecOff' /\ SendOff' /\ owed' = <<>> /\ recv' \in {"Idle", "RxCmd"}
        /\ queue_select' /\ ~bus_start_r'
    BY <2>1, <2>4, RestsClock
  <2>6. AtAck' /\ calm' = 0
    BY <2>2, <2>3 DEF AtAck
  <2>7. ~Served'
    <3>1. ~Served
      BY <1>1, <2>2
    <3> QED
      BY <2>2, <3>1 DEF Served, IsRead
  <2> QED
    BY <2>5, <2>6, <2>7 DEF ReadRests
<1>4. CASE BitEnd
  <2>1. PICK e : Clock(e, <<>>) /\ Dones(e)
    BY <1>4, ReadBitMoves
  <2>2. /\ phase = "Bit" /\ calm > 2 /\ calm \in Nat
        /\ phase' = "Byte" /\ calm' = 0
        /\ xfr'.plan = xfr.plan /\ xfr'.k = xfr.k /\ xfr'.expected = xfr.expected
    BY <1>4, ReadBitMoves
  <2>3. ~Reading /\ ~Served
    <3>1. calm # 0 /\ ~xfr.over /\ xfr.k > 0
      BY <2>2 DEF ReadBusSide
    <3> QED
      BY <1>1, <2>2, <3>1 DEF Between
  <2>4. ~tx_pr_abort(e)
    BY <2>1 DEF tx_pr_abort, Dones
  <2>5. /\ ExecOff' /\ SendOff' /\ owed' = <<>> /\ recv' \in {"Idle", "RxCmd"}
        /\ queue_select' /\ ~bus_start_r'
    BY <2>1, <2>4, RestsClock
  <2>6. ~Reading' /\ ~Served'
    BY <2>2, <2>3 DEF Reading, Served, IsRead
  <2> QED
    BY <2>5, <2>6 DEF ReadRests
<1>5. CASE STOP
  <2>1. Clock(StopEvent, <<>>) /\ MayEnd /\ phase' = "Quiet" /\ xfr' = xfr
    BY <1>5 DEF STOP, StopEvent
  <2>2. fsm \in {"Wait", "RxSByte", "RxPWriteData"}
    BY <2>1, ReadEndFacts
  <2>3. ~tx_pr_abort(StopEvent)
    BY <2>2 DEF tx_pr_abort
  <2>4. /\ ExecOff' /\ SendOff' /\ owed' = <<>> /\ recv' \in {"Idle", "RxCmd"}
        /\ queue_select' /\ ~bus_start_r'
    BY <2>1, <2>3, RestsClock
  <2>5. Between' /\ phase' = "Quiet"
    BY <2>1 DEF Between
  <2> QED
    BY <2>4, <2>5 DEF ReadRests
<1>6. CASE START \/ RepeatedStart
  <2>1. PICK p : ReadBegins(p)
    BY <1>6, StartsRead
  <2>2. /\ Clock(StartEvent, Sent) /\ xfr'.k = 0 /\ phase' = "Byte"
        /\ phase = "Quiet" \/ (MayEnd /\ phase = "Byte")
        /\ xfr'.expected = (/\ Sent # <<>> /\ p.kind = "response"
                            /\ xfr.plan.good /\ Allowed(xfr.plan))
    BY <2>1 DEF ReadBegins
  <2>3. Sent = <<>>
    <3>1. CASE phase = "Quiet"
      BY <3>1 DEF Sent
    <3>2. CASE MayEnd /\ phase = "Byte"
      <4>1. xfr.k > 0
        BY <3>2, ReadEndFacts
      <4>2. ~Reading
        BY <1>1, <3>2, <4>1 DEF Between, AtAck
      <4> QED
        BY <4>2 DEF Sent
    <3> QED
      BY <2>2, <3>1, <3>2
  <2>4. ~xfr'.expected
    BY <2>2, <2>3
  <2>5. ~tx_pr_abort(StartEvent)
    <3>1. fsm \in {"Idle", "Wait", "RxSByte", "RxPWriteData"}
      BY <2>2, ReadEndFacts DEF ReadBusSide, ReadFsmAt
    <3> QED
      BY <3>1 DEF tx_pr_abort
  <2>6. /\ ExecOff' /\ SendOff' /\ owed' = <<>> /\ recv' \in {"Idle", "RxCmd"}
        /\ queue_select' /\ ~bus_start_r'
    BY <2>2, <2>3, <2>5, RestsClock
  <2>7. Between' /\ ~Served'
    BY <2>2, <2>4 DEF Between, Served
  <2> QED
    BY <2>6, <2>7 DEF ReadRests
<1> QED
  BY <1>3, <1>4, <1>5, <1>6

\* From rest to rest, or to a command.
LEMMA RestsStep ==
    ASSUME ReadCalls, ReadTypes, ReadBusSide, ReadSelection, ReadRests, Next
    PROVE  ReadRests' \/ ReadOpens'
BY RestsTick, RestsEvents DEF Next

-----------------------------------------------------------------------------
(* A command comes in. *)

\* The handler has the transfer.
LEMMA CheckedPending ==
    ASSUME ReadSelection, Checked, Virtual
    PROVE  virtual_sel /\ xfer_in_progress /\ recovery_pending
BY DEF ReadSelection, recovery_pending

\* Executor and transmitter rest while a command comes in.
LEMMA ComesClock ==
    ASSUME NEW e, Clock(e, <<>>), ExecOff, SendOff, owed = <<>>, queue_select, ~bus_start_r,
           recv \notin {"CmdIsRd", "Cmd", "Busy", "RxData"}, ~tx_pr_abort(e)
    PROVE  /\ ExecOff' /\ SendOff' /\ owed' = <<>> /\ queue_select' /\ ~bus_start_r'
           /\ ~TakesCommand
<1>1. Handler(e) /\ ~res_valid /\ ~TakesCommand
  BY DEF Clock, ExecOff, TakesCommand
<1>2. ExecOff' /\ SendOff'
  BY <1>1, ExecOffStays, SendOffStays
<1>3. queue_select' /\ ~bus_start_r'
  BY <1>1, MuxStays, StartNotLatched
<1> QED
  BY <1>1, <1>2, <1>3, HistoryStays

\* From its header to its bytes.
LEMMA OpensStep ==
    ASSUME ReadCalls, ReadTypes, ReadBusSide, ReadSelection, ReadOpens, Next
    PROVE  ReadOpens' \/ ReadCut'
<1>1. /\ Reading /\ AtAck /\ calm \in 1 .. 2
      /\ ExecOff /\ SendOff /\ owed = <<>> /\ queue_select /\ ~bus_start_r
      /\ recv = "RxCmd" \/ (recv = "Idle" /\ calm = 1)
      /\ \/ mode_enter = 3 - calm /\ rx_crc = 0
         \/ mode_enter = 0 /\ rx_crc = Crc(xfr.tag, 1)
  BY DEF ReadOpens
<1>2. recv \in {"Idle", "RxCmd"} /\ phase = "Bit" /\ xfr.k = 1 /\ ~Between
  BY <1>1 DEF AtAck, Between
<1>3. Tick
  <2>1. ~START /\ ~RepeatedStart /\ ~STOP /\ ~ByteEnd
    BY <1>2 DEF START, RepeatedStart, STOP, ByteEnd, MayEnd
  <2>2. ~BitEnd
    <3>1. ASSUME BitEnd PROVE calm > 2 /\ calm \in Nat
      BY <3>1, ReadBitMoves
    <3> QED
      BY <1>1, <3>1
  <2> QED
    BY <2>1, <2>2 DEF Next
<1>4. PICK e : Clock(e, <<>>) /\ Silent(e)
  BY <1>3, ReadTickMoves
<1>5. Handler(e) /\ ~e.start /\ ~e.stop /\ ~tx_pr_abort(e)
  BY <1>4, NothingTaken DEF Clock, Silent
<1>6. ~rx_valid /\ ~Taken
  BY <1>2 DEF ReadBusSide, Taken
<1>7. ExecOff' /\ SendOff' /\ owed' = <<>> /\ queue_select' /\ ~bus_start_r'
  BY <1>1, <1>2, <1>4, <1>5, ComesClock
<1>8. /\ phase' = phase /\ xfr' = xfr /\ calm' = calm + 1
      /\ Reading' /\ AtAck' /\ ~Between'
  <2>1. phase' = phase /\ xfr' = xfr /\ calm' = IF calm < LongGap THEN calm + 1 ELSE calm
    BY <1>3, ReadTickMoves
  <2>2. calm' = calm + 1
    BY <1>1, <2>1, ReadCallFacts
  <2> QED
    BY <1>1, <1>2, <2>1, <2>2 DEF Reading, AtAck, Between
<1>9. virtual_sel /\ recovery_pending
  <2>1. Checked /\ Virtual
    BY <1>1, <1>2 DEF Checked, Virtual
  <2> QED
    BY <2>1, CheckedPending
<1>10. recv' = "RxCmd"
  BY <1>1, <1>2, <1>5, <1>6, <1>9, RecvRests
<1>11. mode_enter' = mode_enter \div 2 /\ ~checks_header
  <2>1. ~(AtAck /\ calm = 0)
    BY <1>1
  <2> QED
    BY <1>5, <1>9, <2>1, ReadSelectionClock, ReadPlaceFacts
<1>12. CASE calm = 1
  <2>1. rx_crc' = rx_crc
    <3>1. mode_enter # 1
      BY <1>1, <1>12
    <3> QED
      BY <1>5, <1>6, <1>9, <1>11, <3>1, PecWaits
  <2>2. \/ mode_enter' = 1 /\ rx_crc' = 0
        \/ mode_enter' = 0 /\ rx_crc' = Crc(xfr.tag, 1)
    BY <1>1, <1>11, <1>12, <2>1
  <2>3. calm' = 2 /\ 3 - calm' = 1 /\ calm' \in 1 .. 2
    BY <1>8, <1>12
  <2>4. \/ mode_enter' = 3 - calm' /\ rx_crc' = 0
        \/ mode_enter' = 0 /\ rx_crc' = Crc(xfr'.tag, 1)
    BY <1>8, <2>2, <2>3
  <2> QED
    BY <1>7, <1>8, <1>10, <2>3, <2>4 DEF ReadOpens
<1>13. CASE calm = 2
  <2>1. rx_crc' = Crc(xfr.tag, 1)
    <3>1. CASE mode_enter = 1 /\ rx_crc = 0
      <4>1. RxPec(e)
        BY <1>5 DEF Handler
      <4>2. rx_crc' = Feed(rx_crc, last_byte)
        BY <1>5, <1>9, <1>11, <3>1, <4>1, Zenon DEF RxPec
      <4>3. rx_crc' = Feed(0, last_byte)
        BY <3>1, <4>2
      <4> QED
        BY <1>1, <4>3, ReadHeaderFeeds
    <3>2. CASE mode_enter = 0 /\ rx_crc = Crc(xfr.tag, 1)
      <4>1. mode_enter # 1
        BY <3>2
      <4>2. rx_crc' = rx_crc
        BY <1>5, <1>6, <1>9, <1>11, <4>1, PecWaits
      <4> QED
        BY <3>2, <4>2
    <3> QED
      BY <1>1, <1>13, <3>1, <3>2
  <2>2. calm' = 3 /\ xfr'.k = 1 /\ Checked' /\ ~(AtAck' /\ calm' <= 2)
    BY <1>2, <1>8, <1>13 DEF Checked
  <2>3. Got' = 0
    BY <2>2, Zenon DEF Got
  <2>4. data_ready'
    <3>1. recv = "RxCmd"
      BY <1>1, <1>13
    <3> QED
      BY <1>5, <1>9, <3>1, RecvClock
  <2>5. rx_crc' = Crc(xfr'.tag, Got' + 1)
    <3>1. Got' + 1 = 1
      BY <2>3
    <3> QED
      BY <1>8, <2>1, <3>1
  <2>6. Got' # 1 /\ Got' # 2 /\ ~(Got' >= 1)
    BY <2>3
  <2> QED
    BY <1>7, <1>8, <1>10, <2>2, <2>4, <2>5, <2>6 DEF ReadCut
<1> QED
  BY <1>1, <1>12, <1>13

\* What the receiver has cut, and where the bus is.
LEMMA ReadCutFacts ==
    ASSUME ReadCalls, ReadTypes, ReadBusSide, ReadSelection, ReadCut
    PROVE  /\ xfr.k \in 1 .. 3 /\ ~Between /\ phase \in {"Byte", "Bit"} /\ calm \in Nat
           /\ Got \in 0 .. 2
           /\ Got = IF xfr.k = 1 THEN 0
                    ELSE IF phase = "Byte" /\ calm > 0 THEN xfr.k - 1 ELSE xfr.k - 2
           /\ recv = IF Got = 0 THEN "RxCmd" ELSE IF Got = 1 THEN "RxLenL" ELSE "RxLenH"
           /\ virtual_sel /\ xfer_in_progress /\ recovery_pending /\ mode_enter = 0
           /\ to_receiver /\ data_ready /\ ~data_queue_flow /\ ~checks_header
           /\ (rx_valid <=> phase = "Byte" /\ xfr.k > 1 /\ calm = 0) /\ (Taken <=> rx_valid)
           /\ xfr.tag \in {1, 2}
<1>1. /\ Reading /\ Checked /\ ~(AtAck /\ calm <= 2) /\ queue_select /\ data_ready
      /\ Got = 0 => recv = "RxCmd"
      /\ Got = 1 => recv = "RxLenL"
      /\ Got = 2 => recv = "RxLenH"
  BY DEF ReadCut
<1>2. xfr.k \in 1 .. 3 /\ ~Between /\ phase \in {"Byte", "Bit"} /\ calm \in Nat
      /\ xfr.tag \in {1, 2}
  BY <1>1, ReadPlaceFacts DEF ReadBusSide, ReadTypes, Checked, Between
<1>3. Got = IF xfr.k = 1 THEN 0
            ELSE IF phase = "Byte" /\ calm > 0 THEN xfr.k - 1 ELSE xfr.k - 2
  BY GotIs
<1>4. Got \in 0 .. 2
  BY <1>2, <1>3
<1>5. virtual_sel /\ xfer_in_progress /\ recovery_pending
  BY <1>1, CheckedPending DEF Virtual
<1>6. mode_enter = 0 /\ ~checks_header
  <2>1. ~(AtAck /\ calm \in 1 .. 2) /\ ~(AtAck /\ calm = 0)
    BY <1>1, <1>2
  <2> QED
    BY <1>5, <2>1, ReadPlaceFacts DEF ReadSelection
<1>7. to_receiver /\ ~data_queue_flow
  BY <1>1, <1>5 DEF to_receiver, data_queue_flow, data_queue_wvalid
<1>8. /\ rx_valid <=> phase = "Byte" /\ xfr.k > 1 /\ calm = 0
      /\ Taken <=> rx_valid
  BY <1>1, <1>7 DEF ReadBusSide, Taken
<1> QED
  BY <1>1, <1>2, <1>3, <1>4, <1>5, <1>6, <1>7, <1>8

\* Between two bytes the receiver waits.
LEMMA ReadCutWaits ==
    ASSUME ReadCalls, ReadTypes, ReadBusSide, ReadSelection, ReadCut,
           NEW e, Clock(e, <<>>), ~e.start, ~e.stop, ~rx_valid,
           xfr'.plan = xfr.plan, xfr'.tag = xfr.tag, Got' = Got,
           Checked', ~(AtAck' /\ calm' <= 2)
    PROVE  ReadCut'
<1>1. /\ Reading /\ ExecOff /\ SendOff /\ owed = <<>> /\ queue_select /\ ~bus_start_r
      /\ data_ready /\ rx_crc = Crc(xfr.tag, Got + 1)
      /\ Got = 2 => hdr.lsb = PecOf(xfr.plan, xfr.tag) /\ pec_calc = Crc(xfr.tag, 2)
      /\ Got >= 1 => hdr.cmd = [f |-> xfr.tag, k |-> 2, v |-> xfr.plan.cmd]
  BY DEF ReadCut
<1>2. /\ Got \in 0 .. 2 /\ virtual_sel /\ mode_enter # 1 /\ ~checks_header
      /\ ~Taken /\ ~data_queue_flow
      /\ recv = IF Got = 0 THEN "RxCmd" ELSE IF Got = 1 THEN "RxLenL" ELSE "RxLenH"
  BY ReadCutFacts
<1>3. Handler(e) /\ ~tx_pr_abort(e) /\ recv \in {"RxCmd", "RxLenL", "RxLenH"}
  BY <1>2 DEF Clock, tx_pr_abort
<1>4. ExecOff' /\ SendOff' /\ owed' = <<>> /\ queue_select' /\ ~bus_start_r'
  BY <1>1, <1>3, ComesClock
<1>5. recv' = recv /\ hdr' = hdr /\ pec_calc' = pec_calc
  BY <1>2, <1>3, RecvWaits
<1>6. data_ready'
  BY <1>1, <1>2, <1>3, RecvClock
<1>7. rx_crc' = rx_crc
  BY <1>2, <1>3, PecWaits
<1>8. Reading'
  BY <1>1 DEF Reading
<1>9. rx_crc' = Crc(xfr'.tag, Got' + 1)
  BY <1>1, <1>7
<1>10. /\ Got' = 0 => recv' = "RxCmd"
       /\ Got' = 1 => recv' = "RxLenL"
       /\ Got' = 2 => recv' = "RxLenH" /\ hdr'.lsb = PecOf(xfr'.plan, xfr'.tag)
                      /\ pec_calc' = Crc(xfr'.tag, 2)
       /\ Got' >= 1 => hdr'.cmd = [f |-> xfr'.tag, k |-> 2, v |-> xfr'.plan.cmd]
  BY <1>1, <1>2, <1>5
<1> QED
  BY <1>4, <1>6, <1>8, <1>9, <1>10 DEF ReadCut

\* A byte comes.
LEMMA ReadCutTakes ==
    ASSUME ReadCalls, ReadTypes, ReadBusSide, ReadSelection, ReadCut,
           NEW e, Clock(e, <<>>), ~e.start, ~e.stop, rx_valid,
           xfr' = xfr, phase' = phase, calm' = 1
    PROVE  ReadCut'
<1>1. /\ Reading /\ ExecOff /\ SendOff /\ owed = <<>> /\ queue_select /\ ~bus_start_r
      /\ data_ready /\ rx_crc = Crc(xfr.tag, Got + 1)
      /\ Got >= 1 => hdr.cmd = [f |-> xfr.tag, k |-> 2, v |-> xfr.plan.cmd]
  BY DEF ReadCut
<1>2. /\ xfr.k \in {2, 3} /\ phase = "Byte" /\ calm = 0 /\ Got = xfr.k - 2
      /\ virtual_sel /\ ~checks_header /\ Taken /\ ~data_queue_flow /\ ~Between
      /\ recv = IF Got = 0 THEN "RxCmd" ELSE "RxLenL"
      /\ xfr.tag \in {1, 2} /\ mode_enter = 0
  BY ReadCutFacts
<1>3. Handler(e) /\ ~tx_pr_abort(e) /\ recv \in {"RxCmd", "RxLenL"}
  BY <1>2 DEF Clock, tx_pr_abort
<1>4. ExecOff' /\ SendOff' /\ owed' = <<>> /\ queue_select' /\ ~bus_start_r'
  BY <1>1, <1>3, ComesClock
<1>5. Got' = xfr.k - 1 /\ Checked' /\ ~(AtAck' /\ calm' <= 2) /\ Reading'
  <2>1. Got' = xfr'.k - 1
    <3>1. xfr'.k # 1 /\ phase' = "Byte" /\ calm' > 0
      BY <1>2
    <3> QED
      BY <3>1, Zenon DEF Got
  <2> QED
    BY <1>1, <1>2, <2>1 DEF Checked, AtAck, Between, Reading
<1>6. data_ready'
  BY <1>1, <1>2, <1>3, RecvClock
<1>7. last_byte = [f |-> xfr.tag, k |-> xfr.k, v |-> ByteNow]
  BY <1>1, <1>2 DEF ReadBusSide
<1>8. rx_crc' = Crc(xfr'.tag, Got' + 1)
  <2>1. rx_crc' = Feed(rx_crc, last_byte)
    BY <1>1, <1>2, <1>3, PecTakes
  <2>2. PICK t \in {1, 2} : t = xfr.tag
    BY <1>2
  <2>3. PICK n \in Nat : n = xfr.k /\ n >= 2
    BY <1>2
  <2>4. rx_crc = Crc(t, n - 1) /\ last_byte.f = t /\ last_byte.k = n
    BY <1>1, <1>2, <1>7, <2>2, <2>3
  <2>5. Feed(rx_crc, last_byte) = Crc(t, n)
    BY <2>3, <2>4, FeedNext
  <2> QED
    BY <1>5, <2>1, <2>2, <2>3, <2>5
<1>9. CASE xfr.k = 2
  <2>1. recv = "RxCmd" /\ Got' = 1
    BY <1>2, <1>5, <1>9
  <2>2. recv' = "RxLenL" /\ hdr' = [hdr EXCEPT !.cmd = last_byte]
    BY <1>2, <1>3, <2>1, RecvTakes
  <2>3. last_byte = [f |-> xfr.tag, k |-> 2, v |-> xfr.plan.cmd]
    BY <1>7, <1>9 DEF ByteNow
  <2>4. hdr'.cmd = last_byte
    BY <2>2 DEF ReadTypes
  <2>5. Got' # 0 /\ Got' # 2
    BY <2>1
  <2> QED
    BY <1>4, <1>5, <1>6, <1>8, <2>1, <2>2, <2>3, <2>4, <2>5 DEF ReadCut
<1>10. CASE xfr.k = 3
  <2>1. recv = "RxLenL" /\ Got = 1 /\ Got' = 2
    BY <1>2, <1>5, <1>10
  <2>2. recv' = "RxLenH" /\ hdr' = [hdr EXCEPT !.lsb = last_byte.v]
    BY <1>2, <1>3, <2>1, RecvTakes
  <2>3. last_byte.v = PecOf(xfr.plan, xfr.tag)
    BY <1>7, <1>10 DEF ByteNow
  <2>4. hdr'.lsb = last_byte.v /\ hdr'.cmd = hdr.cmd
    BY <2>2 DEF ReadTypes
  <2>5. pec_calc' = Crc(xfr.tag, 2)
    <3>1. Receiver(recv_in(e)) /\ rx_flow(recv_in(e)) /\ recv_in(e).on /\ recv_in(e).crc = rx_crc
      BY <1>2, <1>3, RecvInputs DEF Handler
    <3>2. pec_calc' = rx_crc
      BY <2>1, <3>1 DEF Receiver, PecCapture
    <3> QED
      BY <1>1, <2>1, <3>2
  <2>6. Got' # 0 /\ Got' # 1 /\ hdr.cmd = [f |-> xfr.tag, k |-> 2, v |-> xfr.plan.cmd]
    BY <1>1, <2>1
  <2> QED
    BY <1>4, <1>5, <1>6, <1>8, <2>1, <2>2, <2>3, <2>4, <2>5, <2>6 DEF ReadCut
<1> QED
  BY <1>2, <1>9, <1>10

\* The repeated START after the PEC begins to hand the command over.
LEMMA ReadCutHands ==
    ASSUME ReadCalls, ReadTypes, ReadBusSide, ReadSelection, ReadCut, NEW p, ReadBegins(p)
    PROVE  ReadHands'
<1>1. /\ Clock(StartEvent, Sent) /\ Handler(StartEvent) /\ Starts(StartEvent)
      /\ xfr'.plan = p /\ xfr'.k = 0 /\ phase' = "Byte" /\ calm' = 0
      /\ xfr'.expected = (/\ Sent # <<>> /\ p.kind = "response"
                          /\ xfr.plan.good /\ Allowed(xfr.plan))
      /\ Sent # <<>> => p.kind = "response"
      /\ phase = "Quiet" \/ (MayEnd /\ phase = "Byte")
  BY StartsEvent DEF ReadBegins, Clock
<1>2. /\ Reading /\ ExecOff /\ SendOff /\ owed = <<>> /\ queue_select /\ ~bus_start_r
      /\ Got = 2 => hdr.lsb = PecOf(xfr.plan, xfr.tag) /\ pec_calc = Crc(xfr.tag, 2)
      /\ Got >= 1 => hdr.cmd = [f |-> xfr.tag, k |-> 2, v |-> xfr.plan.cmd]
  BY DEF ReadCut
<1>3. /\ ~Between /\ virtual_sel /\ xfer_in_progress /\ recovery_pending /\ mode_enter = 0
      /\ ~data_queue_flow /\ (Taken <=> rx_valid) /\ xfr.tag \in {1, 2}
      /\ Got = IF xfr.k = 1 THEN 0
               ELSE IF phase = "Byte" /\ calm > 0 THEN xfr.k - 1 ELSE xfr.k - 2
      /\ recv = IF Got = 0 THEN "RxCmd" ELSE IF Got = 1 THEN "RxLenL" ELSE "RxLenH"
  BY ReadCutFacts
<1>4. /\ phase = "Byte" /\ xfr.k = 3 /\ calm > 3 /\ ~xfr.over /\ xfr.todo = <<>> /\ ~rx_valid
      /\ fsm \in {"Wait", "RxSByte", "RxPWriteData"}
  <2>1. MayEnd
    BY <1>1, <1>3 DEF Between
  <2> QED
    BY <1>2, <2>1, ReadEndFacts
<1>5. Got = 2 /\ recv = "RxLenH" /\ ~Taken
  BY <1>3, <1>4, ReadPlaceFacts
<1>6. Sent = <<[plan |-> xfr.plan, tag |-> xfr.tag]>> /\ Sent # <<>>
  BY <1>2, <1>4 DEF Sent
<1>7. AtStart'
  BY <1>1, <1>6 DEF AtStart, IsRead
<1>8. ~tx_pr_abort(StartEvent)
  BY <1>4 DEF tx_pr_abort
<1>9. ExecOff' /\ SendOff' /\ queue_select' /\ ~bus_start_r'
  <2>1. ~res_valid
    BY <1>2 DEF ExecOff
  <2> QED
    BY <1>1, <1>2, <1>5, <1>8, <2>1, ExecOffStays, SendOffStays, MuxStays, StartNotLatched
<1>10. tx_crc' = 0
  BY <1>1, SendCrc DEF Starts
<1>11. Held'
  <2>1. Held /\ phase # "Quiet" /\ ~AtAck
    BY <1>3, <1>4 DEF Held, AtAck
  <2> QED
    BY <1>1, <2>1, HeldStays
<1>12. recv' = "CmdIsRd" /\ hdr' = hdr /\ pec_calc' = pec_calc
  <2> DEFINE i == recv_in(StartEvent)
  <2>1. Receiver(i) /\ i.on /\ ~rx_flow(i) /\ i.start
    BY <1>1, <1>3, <1>5, RecvInputs DEF Handler, Starts
  <2> HIDE DEF i
  <2>2. recv_d(i) = "CmdIsRd"
    BY <1>5, <2>1 DEF recv_d
  <2>3. Header(i) /\ recv' = recv_d(i)
    BY <2>1 DEF Receiver
  <2>4. hdr' = hdr
    BY <1>5, <2>1, <2>3 DEF Header
  <2>5. pec_calc' = pec_calc
    BY <1>5, <2>1 DEF Receiver, PecCapture
  <2> QED
    BY <2>2, <2>3, <2>4, <2>5
<1>13. owed' = <<[plan |-> xfr.plan, tag |-> xfr.tag]>>
  <2>1. ~TakesCommand
    BY <1>2 DEF TakesCommand, ExecOff
  <2> QED
    BY <1>1, <1>2, <1>6, <2>1 DEF Clock
<1>14. PICK q \in AllPlans : q = xfr.plan
  BY DEF ReadTypes
<1>15. PICK t \in {1, 2} : t = xfr.tag
  BY <1>3
<1>16. /\ owed' = <<[plan |-> q, tag |-> t]>> /\ q.kind = "read"
       /\ hdr'.cmd = [f |-> t, k |-> 2, v |-> q.cmd] /\ pec_calc' = Crc(t, 2)
       /\ hdr'.lsb = PecOf(q, t)
  <2>1. Got = 2 /\ Got >= 1
    BY <1>5
  <2> QED
    BY <1>2, <1>12, <1>13, <1>14, <1>15, <2>1 DEF Reading
<1>17. xfr'.expected = (q.good /\ Allowed(q))
  <2>1. p.kind = "response"
    BY <1>1, <1>6
  <2> QED
    BY <1>1, <1>6, <1>14, <2>1, Zenon
<1>18. /\ exec' = "Idle" /\ ~res_valid' /\ ~recv_cmd_valid' /\ ~exec_pending' /\ ~exec_cmd'.valid
       /\ calm' = 0 /\ calm' <= 3 /\ calm' # 2 /\ calm' # 3 /\ recv' = "CmdIsRd"
  BY <1>1, <1>9, <1>12 DEF ExecOff
<1>19. \E pp \in AllPlans, tag \in {1, 2} :
          /\ owed' = <<[plan |-> pp, tag |-> tag]>> /\ pp.kind = "read"
          /\ xfr'.expected = (pp.good /\ Allowed(pp))
          /\ hdr'.cmd = [f |-> tag, k |-> 2, v |-> pp.cmd] /\ pec_calc' = Crc(tag, 2)
          /\ IF calm' = 0 THEN hdr'.lsb = PecOf(pp, tag)
             ELSE hdr'.pec = PecOf(pp, tag) /\ recv_is_rd'
          /\ calm' = 3 => /\ exec_cmd'.is_rd /\ exec_cmd'.cmd = pp.cmd
                          /\ exec_cmd'.error = ~pp.good
  BY <1>16, <1>17, <1>18
<1> QED
  BY <1>7, <1>9, <1>10, <1>11, <1>18, <1>19 DEF ReadHands, Allowed

\* From the bytes of a command to its hand-over.
LEMMA CutStep ==
    ASSUME ReadCalls, ReadTypes, ReadBusSide, ReadSelection, ReadCut, Next
    PROVE  ReadCut' \/ ReadHands' \/ ReadRests'
<1>1. /\ xfr.k \in 1 .. 3 /\ ~Between /\ phase \in {"Byte", "Bit"} /\ calm \in Nat
      /\ Got = IF xfr.k = 1 THEN 0
               ELSE IF phase = "Byte" /\ calm > 0 THEN xfr.k - 1 ELSE xfr.k - 2
      /\ rx_valid <=> phase = "Byte" /\ xfr.k > 1 /\ calm = 0
      /\ Checked /\ ~(AtAck /\ calm <= 2) /\ Reading
  BY ReadCutFacts DEF ReadCut
<1>2. CASE Tick
  <2>1. PICK e : Clock(e, <<>>) /\ Silent(e)
    BY <1>2, ReadTickMoves
  <2>2. /\ phase' = phase /\ xfr' = xfr /\ calm' \in Nat /\ calm' > 0
        /\ calm' = IF calm < LongGap THEN calm + 1 ELSE calm
    BY <1>2, ReadTickMoves
  <2>3. ~e.start /\ ~e.stop
    BY <2>1 DEF Silent
  <2>4. CASE rx_valid
    <3>1. calm' = 1
      BY <1>1, <2>2, <2>4, ReadCallFacts
    <3> QED
      BY <2>1, <2>2, <2>3, <2>4, <3>1, ReadCutTakes
  <2>5. CASE ~rx_valid
    <3>1. Checked' /\ ~(AtAck' /\ calm' <= 2)
      BY <1>1, <2>2 DEF Checked, AtAck, Between
    <3>2. Got' = Got
      <4>1. CASE xfr.k = 1
        <5>1. xfr'.k = 1
          BY <2>2, <4>1
        <5>2. Got' = 0
          BY <5>1, Zenon DEF Got
        <5> QED
          BY <1>1, <4>1, <5>2
      <4>2. CASE xfr.k # 1 /\ phase = "Byte"
        <5>1. calm > 0 /\ xfr'.k # 1 /\ phase' = "Byte" /\ calm' > 0
          BY <1>1, <2>2, <2>5, <4>2
        <5>2. Got' = xfr'.k - 1
          BY <5>1, Zenon DEF Got
        <5> QED
          BY <1>1, <2>2, <4>2, <5>1, <5>2
      <4>3. CASE xfr.k # 1 /\ phase # "Byte"
        <5>1. xfr'.k # 1 /\ phase' # "Byte"
          BY <2>2, <4>3
        <5>2. Got' = xfr'.k - 2
          BY <5>1, Zenon DEF Got
        <5> QED
          BY <1>1, <2>2, <4>3, <5>2
      <4> QED
        BY <4>1, <4>2, <4>3
    <3> QED
      BY <2>1, <2>2, <2>3, <2>5, <3>1, <3>2, ReadCutWaits
  <2> QED
    BY <2>4, <2>5
<1>3. CASE ByteEnd
  <2>1. PICK e : Clock(e, <<>>) /\ Dones(e)
    BY <1>3, ReadByteMoves
  <2>2. /\ phase = "Byte" /\ calm >= LongGap /\ phase' = "Bit" /\ calm' = 0
        /\ xfr'.plan = xfr.plan /\ xfr'.tag = xfr.tag /\ xfr'.k = xfr.k + 1
    BY <1>3, ReadByteMoves
  <2>3. ~e.start /\ ~e.stop /\ calm > 0 /\ ~rx_valid
    BY <1>1, <2>1, <2>2, ReadCallFacts DEF Dones
  <2>4. xfr'.k # 1 /\ ~AtAck' /\ Checked'
    BY <1>1, <2>2 DEF AtAck, Checked, Between
  <2>5. Got' = Got
    <3>1. Got' = xfr'.k - 2
      BY <2>2, <2>4, Zenon DEF Got
    <3> QED
      BY <1>1, <2>2, <2>3, <3>1
  <2> QED
    BY <2>1, <2>2, <2>3, <2>4, <2>5, ReadCutWaits
<1>4. CASE BitEnd
  <2>1. PICK e : Clock(e, <<>>) /\ Dones(e)
    BY <1>4, ReadBitMoves
  <2>2. /\ phase = "Bit" /\ phase' = "Byte" /\ calm' = 0
        /\ xfr'.plan = xfr.plan /\ xfr'.tag = xfr.tag /\ xfr'.k = xfr.k
    BY <1>4, ReadBitMoves
  <2>3. ~e.start /\ ~e.stop /\ ~rx_valid
    BY <1>1, <2>1, <2>2 DEF Dones
  <2>4. ~AtAck' /\ Checked'
    BY <1>1, <2>2 DEF AtAck, Checked, Between
  <2>5. Got' = Got
    <3>1. CASE xfr.k = 1
      <4>1. xfr'.k = 1
        BY <2>2, <3>1
      <4>2. Got' = 0
        BY <4>1, Zenon DEF Got
      <4> QED
        BY <1>1, <3>1, <4>2
    <3>2. CASE xfr.k # 1
      <4>1. xfr'.k # 1 /\ ~(calm' > 0)
        BY <2>2, <3>2
      <4>2. Got' = xfr'.k - 2
        BY <4>1, Zenon DEF Got
      <4> QED
        BY <1>1, <2>2, <3>2, <4>2
    <3> QED
      BY <3>1, <3>2
  <2> QED
    BY <2>1, <2>2, <2>3, <2>4, <2>5, ReadCutWaits
<1>5. CASE START \/ RepeatedStart
  BY <1>5, StartsRead, ReadCutHands
<1>6. CASE STOP
  <2>1. Clock(StopEvent, <<>>) /\ MayEnd /\ phase' = "Quiet" /\ xfr' = xfr
    BY <1>6 DEF STOP, StopEvent
  <2>2. fsm \in {"Wait", "RxSByte", "RxPWriteData"} /\ xfr.k = 3 /\ calm > 3 /\ ~rx_valid
        /\ phase = "Byte"
    BY <1>1, <2>1, ReadEndFacts
  <2>3. recv = "RxLenH" /\ ~Taken /\ virtual_sel
    <3>1. Got = 2
      BY <1>1, <2>2
    <3> QED
      BY <2>2, <3>1, ReadCutFacts
  <2>4. ~tx_pr_abort(StopEvent) /\ Handler(StopEvent) /\ Stops(StopEvent)
    BY <2>1, <2>2, StopsEvent DEF tx_pr_abort, Clock
  <2>5. ExecOff' /\ SendOff' /\ owed' = <<>> /\ queue_select' /\ ~bus_start_r'
    BY <2>1, <2>3, <2>4, ComesClock DEF ReadCut
  <2>6. recv' = "Idle"
    <3> DEFINE i == recv_in(StopEvent)
    <3>1. Receiver(i) /\ i.on /\ ~rx_flow(i) /\ ~i.start /\ i.stop
      BY <2>3, <2>4, RecvInputs DEF Handler, Stops
    <3> HIDE DEF i
    <3>2. recv_d(i) = "Idle"
      BY <2>3, <3>1 DEF recv_d, OnFlow
    <3> QED
      BY <3>1, <3>2 DEF Receiver
  <2>7. Between' /\ phase' = "Quiet"
    BY <2>1 DEF Between
  <2> QED
    BY <2>5, <2>6, <2>7 DEF ReadRests
<1> QED
  BY <1>2, <1>3, <1>4, <1>5, <1>6 DEF Next

-----------------------------------------------------------------------------
(* A command is handed over. *)

\* Under the first bits of the header of a response nothing comes from the bus.
LEMMA HeadWaits ==
    ASSUME ReadCalls, ReadTypes, ReadBusSide, AtStart, calm < 7, Next
    PROVE  /\ \E e : Clock(e, <<>>) /\ Silent(e)
           /\ phase' = phase /\ xfr' = xfr /\ calm \in Nat /\ calm' = calm + 1
           /\ AtStart' /\ ~Reading /\ ~rx_valid
<1>1. phase = "Byte" /\ xfr.k = 0 /\ IsRead /\ calm \in Nat
  BY ReadPlaceFacts DEF AtStart
<1>2. Tick
  <2>1. ~START /\ ~RepeatedStart /\ ~STOP /\ ~BitEnd
    BY <1>1 DEF START, RepeatedStart, STOP, BitEnd, MayEnd
  <2>2. ~ByteEnd
    BY <1>1, ReadCallFacts DEF ByteEnd
  <2> QED
    BY <2>1, <2>2 DEF Next
<1>3. /\ \E e : Clock(e, <<>>) /\ Silent(e)
      /\ phase' = phase /\ xfr' = xfr
      /\ calm' = IF calm < LongGap THEN calm + 1 ELSE calm
  BY <1>2, ReadTickMoves
<1>4. calm' = calm + 1
  BY <1>1, <1>3, ReadCallFacts
<1>5. AtStart' /\ ~Reading
  BY <1>1, <1>3 DEF AtStart, IsRead, Reading
<1>6. ~rx_valid
  BY <1>5 DEF ReadBusSide
<1> QED
  BY <1>1, <1>3, <1>4, <1>5, <1>6

\* The receiver hands a read command over.
LEMMA RecvHands ==
    ASSUME NEW e, Handler(e), virtual_sel, ~Taken, ~data_queue_flow, ~e.start, ~e.stop,
           recv \in {"CmdIsRd", "Cmd", "Busy"}
    PROVE  /\ recv = "CmdIsRd" => /\ recv' = "Cmd" /\ recv_is_rd'
                                  /\ hdr' = [hdr EXCEPT !.lsb = 0, !.msb = 0, !.pec = hdr.lsb]
           /\ recv = "Cmd" => recv' = "Busy" /\ (recv_is_rd => recv_is_rd') /\ hdr' = hdr
           /\ recv = "Busy" /\ ~cmd_done =>
                 recv' = "Busy" /\ (recv_is_rd => recv_is_rd') /\ hdr' = hdr
           /\ recv = "Busy" /\ cmd_done => recv' = "Idle"
           /\ recv_cmd_valid' <=> recv = "Cmd"
           /\ pec_calc' = pec_calc
<1> DEFINE i == recv_in(e)
<1>1. Receiver(i) /\ i.on /\ ~i.qflow /\ ~rx_flow(i) /\ ~i.start /\ ~i.stop /\ i.done = cmd_done
  BY RecvInputs DEF Handler
<1>2. /\ recv_cmd_valid' <=> recv = "Cmd"
      /\ recv_is_rd' <=> recv = "CmdIsRd" \/ (recv_is_rd /\ recv # "Idle")
  BY RecvClock
<1> HIDE DEF i
<1>3. recv' = recv_d(i) /\ Header(i) /\ PecCapture(i)
  BY <1>1 DEF Receiver
<1>4. pec_calc' = pec_calc
  BY <1>1, <1>3 DEF PecCapture
<1>5. CASE recv = "CmdIsRd"
  <2>1. recv_d(i) = "Cmd"
    BY <1>5 DEF recv_d
  <2>2. hdr' = [hdr EXCEPT !.lsb = 0, !.msb = 0, !.pec = hdr.lsb]
    BY <1>1, <1>3, <1>5 DEF Header
  <2> QED
    BY <1>2, <1>3, <1>4, <1>5, <2>1, <2>2
<1>6. CASE recv = "Cmd"
  <2>1. recv_d(i) = "Busy"
    BY <1>6 DEF recv_d
  <2>2. hdr' = hdr
    BY <1>1, <1>3, <1>6 DEF Header
  <2> QED
    BY <1>2, <1>3, <1>4, <1>6, <2>1, <2>2
<1>7. CASE recv = "Busy"
  <2>1. recv_d(i) = IF cmd_done THEN "Idle" ELSE "Busy"
    BY <1>1, <1>7 DEF recv_d
  <2>2. hdr' = hdr
    BY <1>1, <1>3, <1>7 DEF Header
  <2> QED
    BY <1>2, <1>3, <1>4, <1>7, <2>1, <2>2
<1> QED
  BY <1>5, <1>6, <1>7

\* The executor takes a read command up.
LEMMA ExecTakesRead ==
    ASSUME NEW e, Handler(e), virtual_sel, exec = "Idle", exec_cmd.valid, exec_cmd.is_rd
    PROVE  /\ csr_sel' = CsrsOf(exec_cmd.cmd)[1] /\ csr_length' = CsrsOf(exec_cmd.cmd)[3]
           /\ bcnt' = 0 /\ ~res_valid'
           /\ exec' = IF exec_cmd.error \/ (~RecoveryMode /\ exec_cmd.cmd > 39)
                         \/ exec_cmd.cmd > 47 \/ exec_cmd.cmd < 34 THEN "Error"
                      ELSE "CsrRead"
<1> DEFINE i == exec_in(e)
<1>1. Executor(i) /\ i.cmd = exec_cmd /\ i.on = virtual_sel
  BY DEF Handler, exec_in
<1> HIDE DEF i
<1>2. begins(i) /\ ~taken(i) /\ ~NextCsr(i)
  BY <1>1 DEF begins, taken, NextCsr
<1>3. exec_d(i) = IF exec_cmd.error \/ (~RecoveryMode /\ exec_cmd.cmd > 39)
                     \/ exec_cmd.cmd > 47 \/ exec_cmd.cmd < 34 THEN "Error"
                  ELSE "CsrRead"
  BY <1>1 DEF exec_d, refused
<1>4. csr_sel' = CsrsOf(exec_cmd.cmd)[1] /\ csr_length' = CsrsOf(exec_cmd.cmd)[3]
  BY <1>1, <1>2 DEF Executor, Select
<1>5. bcnt' = 0
  BY <1>1, <1>2 DEF Executor, Counters
<1>6. ~res_valid'
  BY <1>1 DEF Executor, Response
<1> QED
  BY <1>1, <1>3, <1>4, <1>5, <1>6 DEF Executor

\* The clocks in which it is handed over.
LEMMA HandsStep ==
    ASSUME ReadCalls, ReadTypes, ReadBusSide, ReadSelection, ReadHands, Next
    PROVE  ReadHands' \/ ReadRefused' \/ Fetches'
<1>1. /\ AtStart /\ calm <= 3
      /\ exec = "Idle" /\ ~res_valid /\ SendOff /\ Held /\ tx_crc = 0
      /\ queue_select /\ ~bus_start_r
      /\ recv = IF calm = 0 THEN "CmdIsRd" ELSE IF calm = 1 THEN "Cmd" ELSE "Busy"
      /\ recv_cmd_valid <=> (calm = 2)
      /\ exec_pending <=> (calm = 3)
      /\ exec_cmd.valid <=> (calm = 3)
  BY DEF ReadHands
<1>2. PICK p \in AllPlans, tag \in {1, 2} :
          /\ owed = <<[plan |-> p, tag |-> tag]>> /\ p.kind = "read"
          /\ xfr.expected = (p.good /\ Allowed(p))
          /\ hdr.cmd = [f |-> tag, k |-> 2, v |-> p.cmd] /\ pec_calc = Crc(tag, 2)
          /\ IF calm = 0 THEN hdr.lsb = PecOf(p, tag)
             ELSE hdr.pec = PecOf(p, tag) /\ recv_is_rd
          /\ calm = 3 => /\ exec_cmd.is_rd /\ exec_cmd.cmd = p.cmd
                         /\ exec_cmd.error = ~p.good
  BY DEF ReadHands
<1>3. calm \in Nat /\ calm < 7
  BY <1>1, ReadPlaceFacts
<1>4. /\ \E e : Clock(e, <<>>) /\ Silent(e)
      /\ phase' = phase /\ xfr' = xfr /\ calm' = calm + 1
      /\ AtStart' /\ ~Reading /\ ~rx_valid
  BY <1>1, <1>3, HeadWaits
<1>5. PICK e : Clock(e, <<>>) /\ Silent(e)
  BY <1>4
<1>6. Handler(e) /\ ~e.start /\ ~e.stop /\ ~e.done /\ ~tx_pr_abort(e)
  BY <1>5, NothingTaken DEF Clock, Silent
<1>7. virtual_sel /\ recovery_pending /\ ~Taken /\ ~data_queue_flow
  BY <1>1, <1>4, HeldPending DEF Held, Taken, data_queue_flow, data_queue_wvalid
<1>8. SendOff' /\ queue_select' /\ ~bus_start_r' /\ tx_crc' = 0
  <2>1. recv # "RxData" /\ xmit = "Idle"
    BY <1>1 DEF SendOff
  <2> QED
    BY <1>1, <1>6, <2>1, SendOffStays, MuxStays, StartNotLatched, SendCrc
<1>9. Held'
  <2>1. phase # "Quiet" /\ ~AtAck
    BY <1>1 DEF AtStart, AtAck
  <2> QED
    BY <1>1, <1>6, <2>1, HeldStays
<1>10. /\ recv' = IF calm = 0 THEN "Cmd" ELSE "Busy"
       /\ recv_is_rd' /\ pec_calc' = Crc(tag, 2)
       /\ hdr'.cmd = [f |-> tag, k |-> 2, v |-> p.cmd] /\ hdr'.pec = PecOf(p, tag)
       /\ recv_cmd_valid' <=> (calm = 1)
  <2>0. recv \in {"CmdIsRd", "Cmd", "Busy"} /\ ~cmd_done
    BY <1>1 DEF cmd_done
  <2>1. /\ recv = "CmdIsRd" => /\ recv' = "Cmd" /\ recv_is_rd'
                               /\ hdr' = [hdr EXCEPT !.lsb = 0, !.msb = 0, !.pec = hdr.lsb]
        /\ recv = "Cmd" => recv' = "Busy" /\ (recv_is_rd => recv_is_rd') /\ hdr' = hdr
        /\ recv = "Busy" => recv' = "Busy" /\ (recv_is_rd => recv_is_rd') /\ hdr' = hdr
        /\ recv_cmd_valid' <=> recv = "Cmd"
        /\ pec_calc' = pec_calc
    BY <1>6, <1>7, <2>0, RecvHands
  <2>2. CASE calm = 0
    <3>1. recv = "CmdIsRd" /\ hdr.lsb = PecOf(p, tag)
      BY <1>1, <1>2, <2>2
    <3>2. hdr'.cmd = hdr.cmd /\ hdr'.pec = hdr.lsb
      BY <2>1, <3>1 DEF ReadTypes
    <3> QED
      BY <1>2, <2>1, <2>2, <3>1, <3>2
  <2>3. CASE calm # 0
    <3>1. recv = IF calm = 1 THEN "Cmd" ELSE "Busy"
      BY <1>1, <2>3
    <3> QED
      BY <1>2, <2>1, <2>3, <3>1
  <2> QED
    BY <2>2, <2>3
<1>11. exec_pending' <=> calm \in {2, 3}
  <2>1. ~cmd_done
    BY <1>1 DEF cmd_done
  <2>2. exec_pending' = (recv_cmd_valid \/ (exec_pending /\ ~cmd_done))
    BY <1>6 DEF Handler, ExecPending
  <2>3. exec_pending' <=> (recv_cmd_valid \/ exec_pending)
    BY <2>1, <2>2, Zenon
  <2> QED
    BY <1>1, <2>3
<1>12. /\ exec_cmd'.valid = recv_cmd_valid /\ exec_cmd'.is_rd = recv_is_rd
       /\ exec_cmd'.cmd = hdr.cmd.v /\ exec_cmd'.error = cmd_error
  BY <1>6 DEF Handler, Registers
<1>13. CASE calm < 3
  <2>1. exec' = "Idle" /\ ~res_valid'
    <3>1. ~exec_cmd.valid
      BY <1>1, <1>13
    <3>2. exec' = "Idle"
      BY <1>1, <1>6, <3>1, ExecWaits
    <3>3. ~res_valid'
      BY <1>1, <1>6 DEF Handler, Executor, Response
    <3> QED
      BY <3>2, <3>3
  <2>2. /\ calm' \in 1 .. 3 /\ calm' # 0 /\ (calm' = 1 <=> calm = 0) /\ (calm' = 2 <=> calm = 1)
        /\ calm' = 3 <=> calm = 2
    BY <1>3, <1>4, <1>13
  <2>3. recv' = IF calm' = 1 THEN "Cmd" ELSE "Busy"
    BY <1>10, <2>2
  <2>4. /\ recv_cmd_valid' <=> (calm' = 2)
        /\ exec_pending' <=> (calm' = 3)
        /\ exec_cmd'.valid <=> (calm' = 3)
    BY <1>1, <1>10, <1>11, <1>12, <1>13, <2>2
  <2>5. owed' = owed
    <3>1. ~TakesCommand
      BY <1>1, <1>13 DEF TakesCommand
    <3> QED
      BY <1>2, <1>5, <3>1 DEF Clock
  <2>6. calm' = 3 => exec_cmd'.is_rd /\ exec_cmd'.cmd = p.cmd /\ exec_cmd'.error = ~p.good
    <3>1. SUFFICES ASSUME calm = 2
                   PROVE  exec_cmd'.is_rd /\ exec_cmd'.cmd = p.cmd /\ exec_cmd'.error = ~p.good
      BY <2>2
    <3>2. recv_is_rd /\ hdr.cmd.v = p.cmd /\ hdr.pec = PecOf(p, tag)
      BY <1>2, <3>1
    <3>3. cmd_error <=> ~p.good
      <4>1. p.good \in BOOLEAN
        BY ReadPlanFacts
      <4>2. PecOf(p, tag) = IF p.good THEN 1000 * tag + 2 ELSE 998
        BY DEF PecOf, BadPec, Crc
      <4>3. pec_calc = 1000 * tag + 2
        BY <1>2 DEF Crc
      <4>4. pec_calc # 998
        BY <4>3
      <4>5. cmd_error <=> pec_calc # hdr.pec
        BY DEF cmd_error
      <4> QED
        BY <3>2, <4>1, <4>2, <4>3, <4>4, <4>5
    <3>4. cmd_error \in BOOLEAN
      BY DEF cmd_error
    <3> QED
      BY <1>12, <3>2, <3>3, <3>4
  <2>7. \E pp \in AllPlans, tt \in {1, 2} :
          /\ owed' = <<[plan |-> pp, tag |-> tt]>> /\ pp.kind = "read"
          /\ xfr'.expected = (pp.good /\ Allowed(pp))
          /\ hdr'.cmd = [f |-> tt, k |-> 2, v |-> pp.cmd] /\ pec_calc' = Crc(tt, 2)
          /\ IF calm' = 0 THEN hdr'.lsb = PecOf(pp, tt)
             ELSE hdr'.pec = PecOf(pp, tt) /\ recv_is_rd'
          /\ calm' = 3 => /\ exec_cmd'.is_rd /\ exec_cmd'.cmd = pp.cmd
                          /\ exec_cmd'.error = ~pp.good
    BY <1>2, <1>4, <1>10, <2>2, <2>5, <2>6
  <2>8. calm' <= 3 /\ recv' = IF calm' = 0 THEN "CmdIsRd" ELSE IF calm' = 1 THEN "Cmd" ELSE "Busy"
    BY <2>2, <2>3
  <2>9. ReadHands'
    BY <1>4, <1>8, <1>9, <2>1, <2>4, <2>7, <2>8 DEF ReadHands, Allowed
  <2> QED
    BY <2>9
<1>14. CASE calm = 3
  <2>1. /\ exec_cmd.valid /\ exec_cmd.is_rd /\ exec_cmd.cmd = p.cmd /\ exec_cmd.error = ~p.good
        /\ TakesCommand
    BY <1>1, <1>2, <1>14 DEF TakesCommand
  <2>2. /\ csr_sel' = CsrsOf(p.cmd)[1] /\ csr_length' = CsrsOf(p.cmd)[3]
        /\ bcnt' = 0 /\ ~res_valid'
        /\ exec' = IF ~p.good \/ (~RecoveryMode /\ p.cmd > 39)
                      \/ p.cmd > 47 \/ p.cmd < 34 THEN "Error" ELSE "CsrRead"
    BY <1>1, <1>6, <1>7, <2>1, ExecTakesRead
  <2>3. owed' = <<>> /\ current' = [plan |-> p, tag |-> tag]
    <3>1. owed # <<>> /\ owed[1] = [plan |-> p, tag |-> tag]
      BY <1>2
    <3> QED
      BY <1>5, <2>1, <3>1 DEF Clock
  <2>4. calm' = 4 /\ recv' = "Busy" /\ exec_pending' /\ ~exec_cmd'.valid /\ ~recv_cmd_valid'
    BY <1>1, <1>4, <1>10, <1>11, <1>12, <1>14
  <2>5. InHand'
    BY <1>8, <1>9, <2>3, <2>4 DEF InHand
  <2>6. xfr'.expected <=> p.good /\ Allowed(p)
    BY <1>2, <1>4
  <2>7. p.cmd \in Nat /\ p.good \in BOOLEAN
    BY ReadPlanFacts
  <2>8. CASE p.good /\ Allowed(p)
    <3>1. exec' = "CsrRead" /\ p.cmd \in 34 .. 47
      BY <2>2, <2>7, <2>8 DEF Allowed
    <3>2. Carries'
      <4>1. current'.plan.cmd = p.cmd
        BY <2>3
      <4> QED
        BY <1>4, <2>6, <2>8, <3>1, <4>1 DEF Carries, Served, AtStart
    <3>3. AtFirst'
      <4>1. current'.plan.cmd = p.cmd
        BY <2>3
      <4> QED
        BY <2>2, <4>1 DEF AtFirst, FirstOf, LenOf
    <3>4. xmit' = "Idle" /\ TxdOff' /\ ~tx_end_xfer'
      BY <1>8 DEF SendOff
    <3>5. Fetches'
      BY <1>4, <1>8, <2>2, <2>4, <2>5, <3>1, <3>2, <3>3, <3>4 DEF Fetches
    <3> QED
      BY <3>5
  <2>9. CASE ~(p.good /\ Allowed(p))
    <3>1. exec' = "Error"
      BY <2>2, <2>7, <2>9 DEF Allowed
    <3>2. ReadRefused'
      BY <1>4, <1>8, <2>2, <2>4, <2>5, <2>6, <2>9, <3>1 DEF ReadRefused
    <3> QED
      BY <3>2
  <2> QED
    BY <2>8, <2>9
<1> QED
  BY <1>1, <1>3, <1>13, <1>14

-----------------------------------------------------------------------------
(* A command is refused. *)

\* While the executor has a command.
LEMMA InHandClock ==
    ASSUME ReadCalls, ReadTypes, ReadBusSide, NEW e, Clock(e, <<>>), InHand,
           phase # "Quiet", AtAck /\ calm = 0 => Virtual, ~e.start, ~e.stop, ~rx_valid
    PROVE  /\ owed' = <<>> /\ current' = current /\ Held' /\ queue_select' /\ ~bus_start_r'
           /\ ~recv_cmd_valid' /\ ~exec_cmd'.valid
           /\ ~cmd_done => recv' = "Busy" /\ exec_pending' /\ InHand'
           /\ cmd_done => recv' = "Idle" /\ ~exec_pending'
<1>1. /\ recv = "Busy" /\ exec_pending /\ ~exec_cmd.valid /\ ~recv_cmd_valid
      /\ owed = <<>> /\ Held /\ queue_select /\ ~bus_start_r
  BY DEF InHand
<1>2. Handler(e) /\ ~TakesCommand
  BY <1>1 DEF Clock, TakesCommand
<1>3. virtual_sel /\ ~Taken /\ ~data_queue_flow
  BY <1>1 DEF Held, Taken, data_queue_flow, data_queue_wvalid
<1>4. owed' = <<>> /\ current' = current
  BY <1>1, <1>2, HistoryStays
<1>5. Held'
  BY <1>1, <1>2, HeldStays
<1>6. queue_select' /\ ~bus_start_r'
  BY <1>1, <1>2, MuxStays, StartNotLatched
<1>7. /\ ~cmd_done => recv' = "Busy"
      /\ cmd_done => recv' = "Idle"
      /\ ~recv_cmd_valid'
  BY <1>1, <1>2, <1>3, RecvHands
<1>8. ~exec_cmd'.valid
  BY <1>1, <1>2 DEF Handler, Registers
<1>9. exec_pending' <=> ~cmd_done
  <2>1. exec_pending' = (recv_cmd_valid \/ (exec_pending /\ ~cmd_done))
    BY <1>2 DEF Handler, ExecPending
  <2>2. cmd_done \in BOOLEAN
    BY DEF cmd_done
  <2> QED
    BY <1>1, <2>1, <2>2
<1> QED
  BY <1>4, <1>5, <1>6, <1>7, <1>8, <1>9 DEF InHand

\* A refused command is done with before the header is over.
LEMMA RefusedStep ==
    ASSUME ReadCalls, ReadTypes, ReadBusSide, ReadSelection, ReadRefused, Next
    PROVE  ReadRefused' \/ ReadRests'
<1>1. /\ AtStart /\ ~xfr.expected /\ InHand /\ ~res_valid /\ SendOff
      /\ (exec = "Error" /\ calm = 4) \/ (exec = "Done" /\ calm = 5)
  BY DEF ReadRefused
<1>2. /\ \E e : Clock(e, <<>>) /\ Silent(e)
      /\ phase' = phase /\ xfr' = xfr /\ calm' = calm + 1
      /\ AtStart' /\ ~Reading /\ ~rx_valid
  BY <1>1, HeadWaits
<1>3. PICK e : Clock(e, <<>>) /\ Silent(e)
  BY <1>2
<1>4. Handler(e) /\ ~e.start /\ ~e.stop /\ ~tx_pr_abort(e) /\ virtual_sel
  BY <1>1, <1>3, NothingTaken DEF Clock, Silent, InHand, Held
<1>5. /\ owed' = <<>> /\ Held' /\ queue_select' /\ ~bus_start_r'
      /\ ~recv_cmd_valid' /\ ~exec_cmd'.valid
      /\ ~cmd_done => InHand'
      /\ cmd_done => recv' = "Idle" /\ ~exec_pending'
  <2>1. phase # "Quiet" /\ ~AtAck
    BY <1>1 DEF AtStart, AtAck
  <2> QED
    BY <1>1, <1>2, <1>3, <1>4, <2>1, InHandClock
<1>6. SendOff'
  BY <1>1, <1>4, SendOffStays
<1>7. /\ exec = "Error" => exec' = "Done" /\ ~res_valid'
      /\ exec = "Done" => exec' = "Idle" /\ ~res_valid'
  BY <1>4, ExecReads
<1>8. CASE exec = "Error" /\ calm = 4
  <2>1. ~cmd_done /\ calm' = 5
    BY <1>2, <1>8 DEF cmd_done
  <2> QED
    BY <1>1, <1>2, <1>5, <1>6, <1>7, <1>8, <2>1 DEF ReadRefused
<1>9. CASE exec = "Done" /\ calm = 5
  <2>1. cmd_done
    BY <1>9 DEF cmd_done
  <2>2. ExecOff'
    BY <1>5, <1>7, <1>9, <2>1 DEF ExecOff
  <2>3. ~Reading' /\ ~Served'
    BY <1>1, <1>2 DEF Reading, Served
  <2> QED
    BY <1>5, <1>6, <2>1, <2>2, <2>3 DEF ReadRests
<1> QED
  BY <1>1, <1>8, <1>9

-----------------------------------------------------------------------------
(* A command is carried out. *)

\* The first byte waits.
LEMMA LoadedStays ==
    ASSUME ReadCalls, ReadTypes, NEW e, Handler(e), virtual_sel, ~e.stop, Loaded,
           ~res_dready(xmit_in(e)), current' = current
    PROVE  Loaded' /\ ~res_valid'
<1>1. /\ csr_sel = FirstOf /\ bcnt = 0 /\ csr_length = LenOf
      /\ exec = "CsrReadData" /\ csr_data = FirstOf /\ dcnt = LenOf
      /\ ~res_dlast /\ csr_end = Invalid
  BY DEF Loaded, AtFirst
<1>2. /\ csr_length' = csr_length /\ csr_end' = csr_end /\ ~res_valid'
      /\ csr_data' = csr_sel /\ (res_dlast' <=> dcnt = 1)
      /\ exec' = exec /\ csr_sel' = csr_sel /\ bcnt' = bcnt /\ dcnt' = dcnt
  BY <1>1, ExecReads
<1>3. LenOf # 1
  BY RespFacts
<1>4. LenOf' = LenOf /\ FirstOf' = FirstOf
  BY LengthStays
<1> QED
  BY <1>1, <1>2, <1>3, <1>4 DEF Loaded, AtFirst

\* A command whose response is served stays the same one.
LEMMA CarriesStays ==
    ASSUME Carries, xfr'.plan = xfr.plan, xfr'.expected = xfr.expected, current' = current
    PROVE  Carries' /\ Served'
BY DEF Carries, Served, IsRead

\* From the hand-over to the first byte.
LEMMA FetchesLoads ==
    ASSUME ReadCalls, ReadTypes, ReadBusSide, ReadSelection, Fetches, AtStart, calm < 7, Next
    PROVE  Fetches'
<1>1. /\ Carries /\ InHand /\ TxdOff /\ ~tx_end_xfer /\ tx_crc = 0 /\ xmit = "Idle"
      /\ \/ calm = 4 /\ exec = "CsrRead" /\ AtFirst /\ ~res_valid
         \/ calm = 5 /\ exec = "CsrReadLen" /\ AtFirst /\ csr_end = Invalid /\ ~res_valid
         \/ calm = 6 /\ Loaded /\ res_valid
  <2>1. ~AtAck /\ calm \in Nat
    BY ReadPlaceFacts DEF AtStart, AtAck
  <2> QED
    BY <2>1 DEF Fetches
<1>2. /\ \E e : Clock(e, <<>>) /\ Silent(e)
      /\ phase' = phase /\ xfr' = xfr /\ calm' = calm + 1
      /\ AtStart' /\ ~Reading /\ ~rx_valid
  BY HeadWaits
<1>3. PICK e : Clock(e, <<>>) /\ Silent(e)
  BY <1>2
<1>4. Handler(e) /\ ~e.start /\ ~e.stop /\ ~e.done /\ ~tx_pr_abort(e) /\ virtual_sel
  BY <1>1, <1>3, NothingTaken DEF Clock, Silent, InHand, Held
<1>5. InHand' /\ current' = current
  <2>1. phase # "Quiet" /\ ~AtAck
    BY DEF AtStart, AtAck
  <2>2. ~cmd_done
    BY <1>1 DEF cmd_done, Loaded
  <2> QED
    BY <1>1, <1>2, <1>3, <1>4, <2>1, <2>2, InHandClock
<1>6. TxdOff' /\ ~tx_end_xfer' /\ tx_crc' = 0
  BY <1>1, <1>4, TxdRests, EndNotTold, SendCrc
<1>7. Carries' /\ LenOf' = LenOf /\ FirstOf' = FirstOf
  BY <1>1, <1>2, <1>5, CarriesStays, LengthStays
<1>8. CASE calm = 4 /\ exec = "CsrRead" /\ AtFirst /\ ~res_valid
  <2>1. /\ exec' = "CsrReadLen" /\ csr_sel' = csr_sel /\ bcnt' = bcnt
        /\ csr_length' = csr_length /\ csr_end' = Invalid /\ ~res_valid'
    BY <1>1, <1>4, <1>8, ExecReads
  <2>2. AtFirst'
    BY <1>7, <1>8, <2>1 DEF AtFirst
  <2>3. xmit' = "Idle"
    BY <1>1, <1>4, <1>8, XmitIdles
  <2>4. calm' = 5
    BY <1>2, <1>8
  <2> QED
    BY <1>2, <1>5, <1>6, <1>7, <2>1, <2>2, <2>3, <2>4 DEF Fetches
<1>9. CASE calm = 5 /\ exec = "CsrReadLen" /\ AtFirst /\ csr_end = Invalid /\ ~res_valid
  <2>1. /\ exec' = "CsrReadData" /\ csr_sel' = csr_sel /\ bcnt' = bcnt
        /\ csr_length' = csr_length /\ csr_end' = Invalid /\ ~res_dlast'
        /\ csr_data' = csr_sel /\ dcnt' = csr_length /\ res_valid'
    BY <1>1, <1>4, <1>9, ExecReads
  <2>2. Loaded'
    BY <1>7, <1>9, <2>1 DEF AtFirst, Loaded
  <2>3. xmit' = "Idle"
    BY <1>1, <1>4, <1>9, XmitIdles
  <2>4. calm' = 6
    BY <1>2, <1>9
  <2> QED
    BY <1>2, <1>5, <1>6, <1>7, <2>1, <2>2, <2>3, <2>4 DEF Fetches
<1>10. CASE calm = 6 /\ Loaded /\ res_valid
  <2> DEFINE i == xmit_in(e)
  <2>1. Transmitter(i) /\ i.on /\ i.res_valid /\ i.res_len = csr_length
    BY <1>4, <1>10 DEF Handler, xmit_in
  <2>2. ~res_dready(i)
    BY <1>1 DEF res_dready
  <2>3. Loaded' /\ ~res_valid'
    BY <1>4, <1>5, <1>10, <2>2, LoadedStays
  <2> HIDE DEF i
  <2>4. xmit' = "TxDesc" /\ len_q' = csr_length
    BY <1>1, <2>1 DEF Transmitter, xmit_d, res_ready
  <2>5. len_q' = LenOf'
    BY <1>7, <1>10, <2>4 DEF Loaded, AtFirst
  <2>6. calm' >= 7
    BY <1>2, <1>10
  <2> QED
    BY <1>2, <1>5, <1>6, <1>7, <2>3, <2>4, <2>5, <2>6 DEF Fetches
<1> QED
  BY <1>1, <1>8, <1>9, <1>10

\* Until the header is over.
LEMMA FetchesWaits ==
    ASSUME ReadCalls, ReadTypes, ReadBusSide, ReadSelection, Fetches, AtStart, calm >= 7,
           NEW e, Clock(e, <<>>), ~e.start, ~e.stop,
           xfr'.plan = xfr.plan, xfr'.expected = xfr.expected,
           (AtStart' /\ calm' >= 7) \/ (AtAck' /\ calm' = 0)
    PROVE  Fetches'
<1>1. /\ Carries /\ InHand /\ TxdOff /\ ~tx_end_xfer /\ tx_crc = 0
      /\ Loaded /\ xmit = "TxDesc" /\ len_q = LenOf /\ ~res_valid
  <2>1. ~(calm = 4 \/ calm = 5 \/ calm = 6)
    OBVIOUS
  <2> QED
    BY <2>1 DEF Fetches
<1>2. ~AtAck /\ ~rx_valid /\ ~checks_header /\ phase # "Quiet"
  <2>1. ~AtAck /\ ~Reading /\ phase # "Quiet"
    BY DEF AtStart, AtAck, Reading, IsRead
  <2> QED
    BY <2>1, ReadPlaceFacts DEF ReadBusSide
<1>3. Handler(e) /\ virtual_sel /\ ~tx_pr_abort(e)
  BY <1>1 DEF Clock, InHand, Held, tx_pr_abort
<1>4. InHand' /\ current' = current
  <2>1. ~cmd_done
    BY <1>1 DEF cmd_done, Loaded
  <2> QED
    BY <1>1, <1>2, <2>1, InHandClock
<1>5. TxdOff'
  BY <1>1, <1>2, <1>3, TxdRests
<1>6. ~desc_rready(txd_in(e)) /\ ~tx_queue_rready(txd_in(e))
  BY <1>1, <1>2 DEF desc_rready, tx_queue_rready, tx_byte_valid, txd_in, tx_pr_start, TxdOff
<1>7. xmit' = xmit /\ len_q' = len_q /\ ~res_dready(xmit_in(e))
  BY <1>1, <1>3, <1>6, XmitWaits
<1>8. Loaded' /\ ~res_valid'
  BY <1>1, <1>3, <1>4, <1>7, LoadedStays
<1>9. ~tx_end_xfer' /\ tx_crc' = 0
  <2>1. byte_counter # 1
    BY <1>1 DEF TxdOff
  <2> QED
    BY <1>1, <1>3, <2>1, EndNotTold, SendCrc
<1>10. Carries' /\ LenOf' = LenOf
  BY <1>1, <1>4, CarriesStays, LengthStays
<1> QED
  BY <1>1, <1>4, <1>5, <1>7, <1>8, <1>9, <1>10 DEF Fetches

\* Its check takes the descriptor.
LEMMA FetchesGranted ==
    ASSUME ReadCalls, ReadTypes, ReadBusSide, ReadSelection, Fetches, AtAck, calm = 0,
           NEW e, Clock(e, <<>>), Silent(e), phase' = phase, xfr' = xfr, calm' = 1
    PROVE  Granted'
<1>1. /\ Carries /\ InHand /\ TxdOff /\ ~tx_end_xfer /\ tx_crc = 0
      /\ Loaded /\ xmit = "TxDesc" /\ len_q = LenOf /\ ~res_valid
  <2>1. ~AtStart
    BY DEF AtAck, AtStart
  <2> QED
    BY <2>1 DEF Fetches
<1>2. /\ ~rx_valid /\ checks_header /\ phase # "Quiet" /\ Virtual /\ ~Between
      /\ addressed /\ bus_addr.rnw
  <2>1. ~Between /\ phase # "Quiet" /\ phase # "Byte" /\ IsRead /\ Virtual
    BY <1>1 DEF AtAck, Between, Carries, Served, Virtual
  <2>2. ~rx_valid
    BY <2>1 DEF ReadBusSide
  <2> QED
    BY <2>1, <2>2, ReadPlaceFacts
<1>3. /\ Handler(e) /\ virtual_sel /\ ~tx_pr_abort(e) /\ ~e.start /\ ~e.stop /\ ~e.done
      /\ mode_enter = 0 /\ recovery_pending
  BY <1>1, NothingTaken, HeldPending DEF Clock, InHand, Held, Silent
<1>4. InHand' /\ current' = current
  <2>1. ~cmd_done
    BY <1>1 DEF cmd_done, Loaded
  <2> QED
    BY <1>1, <1>2, <1>3, <2>1, InHandClock
<1> DEFINE i == txd_in(e)
<1>5. /\ DescTx(i) /\ i.start /\ i.desc_rvalid /\ ~i.abort /\ ~i.enter /\ i.desc_len = len_q + 3
  <2>1. DescTx(i)
    BY <1>3 DEF Handler
  <2>2. tx_pr_start
    BY <1>2 DEF tx_pr_start
  <2>3. tx_desc_avail
    BY <1>1, <1>3 DEF tx_desc_avail, desc_valid
  <2>4. mode_enter # 1
    BY <1>3
  <2>5. i.start /\ i.desc_rvalid /\ ~i.abort /\ ~i.enter
    BY <1>3, <2>2, <2>3, <2>4 DEF txd_in
  <2>6. i.desc_len = len_q + 3
    BY DEF txd_in, desc_data
  <2> QED
    BY <2>1, <2>5, <2>6
<1>6. ~descriptor_valid /\ ~tx_pending /\ byte_counter = 0 /\ ~tx_flush
  BY <1>1 DEF TxdOff
<1> HIDE DEF i
<1>7. desc_rready(i) /\ ~tx_start(i) /\ ~tx_end(i) /\ ~tx_queue_rready(i)
  BY <1>5, <1>6 DEF desc_rready, tx_start, tx_end, tx_queue_rready, tx_byte_valid
<1>8. descriptor_valid' /\ data_len' = len_q + 3
  BY <1>5, <1>7 DEF DescTx, TxDescriptor
<1>9. ~tx_flush'
  BY <1>5, <1>6 DEF DescTx, FlushAborted
<1>10. ~tx_pending'
  BY <1>5, <1>6, <1>7 DEF DescTx, TxPending
<1>11. byte_counter' = 0
  BY <1>5, <1>6, <1>7 DEF DescTx, TxCount
<1>12. xmit' = "TxLenL" /\ len_q' = len_q /\ ~res_dready(xmit_in(e))
  <2> DEFINE x == xmit_in(e)
  <2>1. Transmitter(x) /\ x.on /\ ~x.abort /\ x.desc_ready
    BY <1>3, <1>7 DEF Handler, xmit_in, i
  <2> HIDE DEF x
  <2>2. xmit' = "TxLenL" /\ len_q' = len_q
    BY <1>1, <2>1 DEF Transmitter, xmit_d, Step, res_ready
  <2>3. ~res_dready(x)
    BY <1>1 DEF res_dready
  <2> QED
    BY <2>2, <2>3 DEF x
<1>13. Loaded' /\ ~res_valid'
  BY <1>1, <1>3, <1>4, <1>12, LoadedStays
<1>14. ~tx_end_xfer' /\ tx_crc' = 0
  BY <1>1, <1>3, EndNotTold, SendCrc
<1>15. Carries' /\ LenOf' = LenOf
  BY <1>1, <1>4, CarriesStays, LengthStays
<1>16. AtAck' /\ calm' = 1 /\ calm' > 0
  BY DEF AtAck
<1> QED
  BY <1>1, <1>4, <1>8, <1>9, <1>10, <1>11, <1>12, <1>13, <1>14, <1>15, <1>16 DEF Granted

\* From the hand-over to the acknowledge.
LEMMA FetchesStep ==
    ASSUME ReadCalls, ReadTypes, ReadBusSide, ReadSelection, Fetches, Next
    PROVE  Fetches' \/ Granted'
<1>1. calm \in Nat /\ LongGap >= 7 /\ LongGap \in Nat /\ ShortGap >= 5
  BY ReadPlaceFacts, ReadCallFacts
<1>2. CASE AtStart /\ calm < 7
  BY <1>2, FetchesLoads
<1>3. CASE AtStart /\ calm >= 7
  <2>1. phase = "Byte" /\ xfr.k = 0 /\ IsRead
    BY <1>3 DEF AtStart
  <2>2. Tick \/ ByteEnd
    BY <2>1 DEF Next, START, RepeatedStart, STOP, BitEnd, MayEnd
  <2>3. CASE Tick
    <3>1. PICK e : Clock(e, <<>>) /\ Silent(e)
      BY <2>3, ReadTickMoves
    <3>2. phase' = phase /\ xfr' = xfr /\ calm' = IF calm < LongGap THEN calm + 1 ELSE calm
      BY <2>3, ReadTickMoves
    <3>3. AtStart' /\ calm' >= 7
      BY <1>1, <1>3, <3>2 DEF AtStart, IsRead
    <3> QED
      BY <1>3, <3>1, <3>2, <3>3, FetchesWaits DEF Silent
  <2>4. CASE ByteEnd
    <3>1. PICK e : Clock(e, <<>>) /\ Dones(e)
      BY <2>4, ReadByteMoves
    <3>2. /\ phase' = "Bit" /\ calm' = 0 /\ xfr'.plan = xfr.plan /\ xfr'.k = xfr.k + 1
          /\ xfr'.expected = xfr.expected
      BY <2>4, ReadByteMoves
    <3>3. AtAck' /\ calm' = 0
      BY <2>1, <3>2 DEF AtAck
    <3> QED
      BY <1>3, <3>1, <3>2, <3>3, FetchesWaits DEF Dones
  <2> QED
    BY <2>2, <2>3, <2>4
<1>4. CASE AtAck /\ calm = 0
  <2>1. phase = "Bit"
    BY <1>4 DEF AtAck
  <2>2. Tick
    <3>1. ~START /\ ~RepeatedStart /\ ~STOP /\ ~ByteEnd
      BY <2>1 DEF START, RepeatedStart, STOP, ByteEnd, MayEnd
    <3>2. ~BitEnd
      BY <1>4, ReadBitMoves
    <3> QED
      BY <3>1, <3>2 DEF Next
  <2>3. PICK e : Clock(e, <<>>) /\ Silent(e)
    BY <2>2, ReadTickMoves
  <2>4. phase' = phase /\ xfr' = xfr /\ calm' = 1
    BY <1>1, <1>4, <2>2, ReadTickMoves
  <2> QED
    BY <1>4, <2>3, <2>4, FetchesGranted
<1>5. AtStart \/ (AtAck /\ calm = 0)
  BY DEF Fetches
<1> QED
  BY <1>1, <1>2, <1>3, <1>4, <1>5

-----------------------------------------------------------------------------
(* The first byte. *)

\* descriptor_tx announces the response a clock after it took the descriptor.
LEMMA TxdStarts ==
    ASSUME NEW e, Handler(e), descriptor_valid, ~tx_pending, byte_counter = 0, ~tx_flush,
           mode_enter # 1, recovery_pending, ~tx_fifo_rready(e), ~tx_pr_abort(e),
           NEW n \in Nat, n <= 27, data_len = n
    PROVE  /\ descriptor_valid' /\ tx_pending' /\ byte_counter' = n /\ ~tx_flush'
           /\ data_len' = data_len
           /\ ~desc_rready(txd_in(e)) /\ ~tx_queue_rready(txd_in(e))
<1> DEFINE i == txd_in(e)
<1>1. DescTx(i) /\ ~i.abort /\ ~i.enter /\ ~i.byte_ready /\ i.depth = 31
  BY DEF Handler, txd_in, tx_depth
<1> HIDE DEF i
<1>2. ~desc_rready(i) /\ ~tx_queue_rready(i) /\ ~tx_end(i)
  BY <1>1 DEF desc_rready, tx_queue_rready, tx_end, tx_byte_valid
<1>3. tx_start(i)
  <2>1. n \div 4 <= 6 /\ n \div 4 \in Nat
    OBVIOUS
  <2>2. i.depth + 1 >= data_len \div 4
    BY <1>1, <2>1
  <2> QED
    BY <2>2 DEF tx_start
<1>4. descriptor_valid' /\ data_len' = data_len
  BY <1>1, <1>2 DEF DescTx, TxDescriptor
<1>5. tx_pending'
  BY <1>1, <1>3 DEF DescTx, TxPending
<1>6. byte_counter' = n
  BY <1>1, <1>3 DEF DescTx, TxCount
<1>7. ~tx_flush'
  BY <1>1 DEF DescTx, FlushAborted
<1> QED
  BY <1>2, <1>4, <1>5, <1>6, <1>7 DEF i

\* What is known of the acknowledge.
LEMMA GrantedFacts ==
    ASSUME ReadCalls, ReadTypes, ReadBusSide, Granted
    PROVE  /\ phase = "Bit" /\ xfr.k = 1 /\ ~Between /\ ~rx_valid /\ calm \in Nat /\ calm > 0
           /\ ~checks_header /\ addressed /\ bus_addr.rnw
           /\ fsm \in {"TxAckFByte", "TxAckSByte"}
           /\ Served /\ IsRead /\ virtual_sel /\ mode_enter = 0 /\ recovery_pending
           /\ ~cmd_done /\ exec = "CsrReadData"
<1>1. Carries /\ AtAck /\ calm > 0 /\ InHand /\ Loaded
  BY DEF Granted
<1>2. phase = "Bit" /\ xfr.k = 1 /\ ~Between /\ Served /\ IsRead
  BY <1>1 DEF AtAck, Between, Carries, Served
<1>3. ~rx_valid
  BY <1>2 DEF ReadBusSide
<1>4. xfr.plan.kind # "broadcast"
  BY <1>2 DEF IsRead
<1>5. fsm \in {"TxAckFByte", "TxAckSByte"}
  BY <1>1, <1>2, <1>4 DEF ReadBusSide, ReadFsmAt
<1>6. Virtual /\ calm # 0 /\ calm \in Nat
  BY <1>1, <1>2, ReadPlaceFacts DEF Virtual
<1>7. virtual_sel /\ mode_enter = 0 /\ recovery_pending
  BY <1>1, HeldPending DEF InHand, Held
<1>8. ~cmd_done /\ exec = "CsrReadData"
  BY <1>1 DEF Loaded, cmd_done
<1>9. ~checks_header /\ addressed /\ bus_addr.rnw
  BY <1>2, <1>6, ReadPlaceFacts
<1> QED
  BY <1>1, <1>2, <1>3, <1>5, <1>6, <1>7, <1>8, <1>9

\* During the acknowledge descriptor_tx starts.
LEMMA GrantedWaits ==
    ASSUME ReadCalls, ReadTypes, ReadBusSide, ReadSelection, Granted,
           NEW e, Clock(e, <<>>), Silent(e), phase' = phase, xfr' = xfr, calm' \in Nat, calm' >= 2
    PROVE  Granted'
<1>1. /\ Carries /\ AtAck /\ calm > 0 /\ InHand /\ Loaded
      /\ xmit = "TxLenL" /\ len_q = LenOf /\ ~res_valid /\ tx_crc = 0
      /\ descriptor_valid /\ data_len = LenOf + 3 /\ ~tx_flush /\ ~tx_end_xfer
      /\ calm = 1 => ~tx_pending /\ byte_counter = 0
      /\ calm # 1 => tx_pending /\ byte_counter = LenOf + 3
  BY DEF Granted
<1>2. /\ phase = "Bit" /\ xfr.k = 1 /\ ~rx_valid /\ virtual_sel /\ mode_enter = 0
      /\ recovery_pending /\ ~cmd_done /\ calm \in Nat
  BY GrantedFacts
<1>3. Handler(e) /\ ~tx_pr_abort(e) /\ ~tx_fifo_rready(e) /\ ~e.start /\ ~e.stop /\ ~e.done
  BY NothingTaken DEF Clock, Silent
<1>4. InHand' /\ current' = current
  <2>1. phase # "Quiet" /\ ~(AtAck /\ calm = 0)
    BY <1>1, <1>2
  <2> QED
    BY <1>1, <1>2, <1>3, <2>1, InHandClock
<1>5. PICK n \in Nat : n = LenOf + 3 /\ n <= 27
  BY RespFacts
<1>6. /\ descriptor_valid' /\ tx_pending' /\ byte_counter' = LenOf + 3 /\ ~tx_flush'
      /\ data_len' = data_len
      /\ ~desc_rready(txd_in(e)) /\ ~tx_queue_rready(txd_in(e))
  <2>0. mode_enter # 1
    BY <1>2
  <2>1. CASE calm = 1
    BY <1>1, <1>2, <1>3, <1>5, <2>0, <2>1, TxdStarts
  <2>2. CASE calm # 1
    BY <1>1, <1>3, <2>0, <2>2, TxdWaits
  <2> QED
    BY <2>1, <2>2
<1>7. xmit' = xmit /\ len_q' = len_q /\ tx_crc' = tx_crc /\ ~res_dready(xmit_in(e))
  BY <1>1, <1>2, <1>3, <1>6, XmitWaits
<1>8. Loaded' /\ ~res_valid'
  BY <1>1, <1>2, <1>3, <1>4, <1>7, LoadedStays
<1>9. ~tx_end_xfer'
  BY <1>1, <1>3, EndNotTold
<1>10. Carries' /\ LenOf' = LenOf
  BY <1>1, <1>4, CarriesStays, LengthStays
<1>11. AtAck' /\ calm' > 0 /\ calm' # 1
  <2>1. AtAck'
    BY <1>2 DEF AtAck
  <2> QED
    BY <2>1
<1> QED
  BY <1>1, <1>4, <1>6, <1>7, <1>8, <1>9, <1>10, <1>11 DEF Granted

\* After it the target FSM takes the first byte.
LEMMA GrantedTakes ==
    ASSUME ReadCalls, ReadTypes, ReadBusSide, ReadSelection, Granted,
           NEW e, Clock(e, <<>>), Dones(e), calm > 2,
           phase' = "Byte", calm' = 0, xfr'.plan = xfr.plan, xfr'.k = xfr.k,
           xfr'.expected = xfr.expected, ~xfr'.over
    PROVE  /\ Sends' /\ tx_fifo_rready(e) /\ data_byte(xmit_in(e)) = <<"len", 0, LenOf>>
           /\ current' = current
<1>1. /\ Carries /\ AtAck /\ InHand /\ Loaded
      /\ xmit = "TxLenL" /\ len_q = LenOf /\ ~res_valid /\ tx_crc = 0
      /\ descriptor_valid /\ data_len = LenOf + 3 /\ ~tx_flush /\ ~tx_end_xfer
      /\ tx_pending /\ byte_counter = LenOf + 3
  BY DEF Granted
<1>2. /\ phase = "Bit" /\ xfr.k = 1 /\ ~rx_valid /\ virtual_sel /\ mode_enter = 0
      /\ recovery_pending /\ ~cmd_done /\ addressed /\ bus_addr.rnw
      /\ fsm \in {"TxAckFByte", "TxAckSByte"}
  BY GrantedFacts
<1>3. Handler(e) /\ ~tx_pr_abort(e) /\ ~e.start /\ ~e.stop
  BY DEF Clock, Dones, tx_pr_abort
<1>4. tx_fifo_rready(e)
  <2>1. fsm_next(e) = "TxPReadData"
    BY <1>2, ReadFsmDones
  <2> QED
    BY <1>2, <2>1 DEF tx_fifo_rready
<1>5. tx_rvalid
  BY <1>1, <1>2 DEF tx_rvalid, data_valid
<1>6. InHand' /\ current' = current
  <2>1. phase # "Quiet" /\ ~(AtAck /\ calm = 0)
    BY <1>2
  <2> QED
    BY <1>1, <1>2, <1>3, <2>1, InHandClock
<1>7. LenOf \in Nat /\ LenOf >= 2 /\ LenOf <= 24 /\ FirstOf \in Nat
  BY RespFacts
<1>8. PICK n \in Nat : n = LenOf + 3 /\ n >= 1 /\ n <= 27
  BY <1>7
<1>9. /\ byte_counter' = LenOf + 2 /\ ~tx_flush' /\ descriptor_valid' /\ tx_pending'
      /\ tx_queue_rready(txd_in(e))
  <2>0. mode_enter # 1
    BY <1>2
  <2>1. /\ byte_counter' = n - 1 /\ ~tx_flush'
        /\ descriptor_valid' <=> n > 1
        /\ tx_pending' <=> n > 1
        /\ tx_queue_rready(txd_in(e))
    BY <1>1, <1>3, <1>4, <1>5, <1>8, <2>0, TxdTakes
  <2>2. n > 1 /\ n - 1 = LenOf + 2
    BY <1>7, <1>8
  <2> QED
    BY <2>1, <2>2
<1>10. /\ xmit' = "TxLenH" /\ tx_crc' = tx_crc + 1 /\ ~res_dready(xmit_in(e))
       /\ data_byte(xmit_in(e)) = <<"len", 0, len_q>>
  BY <1>1, <1>2, <1>3, <1>9, XmitSends
<1>11. Loaded' /\ ~res_valid'
  BY <1>1, <1>2, <1>3, <1>6, <1>10, LoadedStays
<1>12. ~tx_end_xfer'
  <2>1. byte_counter # 1
    BY <1>1, <1>7
  <2> QED
    BY <1>1, <1>3, <2>1, EndNotTold
<1>13. Carries' /\ LenOf' = LenOf /\ FirstOf' = FirstOf
  BY <1>1, <1>6, CarriesStays, LengthStays
<1>14. Out' = 1 /\ JustTaken' /\ ~Between' /\ ~AtAck' /\ DataOut' = 0
  <2>1. Out' = 1
    BY <1>2 DEF Out
  <2> QED
    BY <1>2, <2>1 DEF JustTaken, Between, AtAck, DataOut
<1>15. SendsCsrs'
  <2>1. /\ csr_sel' = FirstOf' /\ bcnt' = 0 /\ exec' = "CsrReadData" /\ dcnt' = LenOf'
        /\ csr_end' = Invalid
    BY <1>11 DEF Loaded, AtFirst
  <2>2. recv' = "Busy" /\ exec_pending'
    BY <1>6 DEF InHand
  <2>3. LenOf' - 0 = LenOf' /\ 0 % 4 = 0 /\ FirstOf' + 0 \div 4 = FirstOf'
    BY <1>7, <1>13
  <2> QED
    BY <1>14, <2>1, <2>2, <2>3 DEF SendsCsrs
<1>16. /\ owed' = <<>> /\ Held' /\ queue_select' /\ ~bus_start_r'
       /\ ~exec_cmd'.valid /\ ~recv_cmd_valid' /\ ~res_valid'
  BY <1>6, <1>11 DEF InHand
<1>17. /\ 1 \in 1 .. LenOf' + 3 /\ 1 < LenOf' + 3 /\ 1 < LenOf' + 2
       /\ LenOf' + 2 = LenOf' + 3 - 1 /\ 1 \notin 2 .. LenOf' + 1 /\ 1 # LenOf' + 2
       /\ 1 # LenOf' + 3
  BY <1>7, <1>13
<1>18. byte_counter' = LenOf' + 3 - 1 /\ tx_crc' = 1
  BY <1>1, <1>9, <1>10, <1>13, <1>17
<1>19. Sends'
  BY <1>9, <1>10, <1>12, <1>13, <1>14, <1>15, <1>16, <1>17, <1>18 DEF Sends
<1> QED
  BY <1>1, <1>4, <1>6, <1>10, <1>19

\* From the acknowledge to the first byte.
LEMMA GrantedStep ==
    ASSUME ReadCalls, ReadTypes, ReadBusSide, ReadSelection, Granted, Next
    PROVE  Granted' \/ Sends'
<1>1. /\ phase = "Bit" /\ xfr.k = 1 /\ calm \in Nat /\ calm > 0
      /\ fsm \in {"TxAckFByte", "TxAckSByte"}
  BY GrantedFacts
<1>2. Tick \/ BitEnd
  BY <1>1 DEF Next, START, RepeatedStart, STOP, ByteEnd, MayEnd
<1>3. CASE Tick
  <2>1. PICK e : Clock(e, <<>>) /\ Silent(e)
    BY <1>3, ReadTickMoves
  <2>2. phase' = phase /\ xfr' = xfr /\ calm' = IF calm < LongGap THEN calm + 1 ELSE calm
    BY <1>3, ReadTickMoves
  <2>3. calm' \in Nat /\ calm' >= 2
    BY <1>1, <2>2, ReadCallFacts
  <2> QED
    BY <2>1, <2>2, <2>3, GrantedWaits
<1>4. CASE BitEnd
  <2>1. PICK e : Clock(e, <<>>) /\ Dones(e)
    BY <1>4, ReadBitMoves
  <2>2. /\ calm > 2 /\ phase' = "Byte" /\ calm' = 0
        /\ xfr'.plan = xfr.plan /\ xfr'.k = xfr.k /\ (xfr'.over <=> ~Acked)
        /\ xfr'.expected = xfr.expected
    BY <1>1, <1>4, ReadBitMoves
  <2>3. Acked
    BY <1>1 DEF Acked
  <2> QED
    BY <2>1, <2>2, <2>3, GrantedTakes
<1> QED
  BY <1>2, <1>3, <1>4

-----------------------------------------------------------------------------
(* The bytes of a response. *)

\* What is known while they go out.
LEMMA SendsFacts ==
    ASSUME ReadCalls, ReadTypes, ReadBusSide, Sends
    PROVE  /\ Served /\ IsRead /\ ~Reading /\ ~rx_valid /\ ~checks_header /\ ~Taken
           /\ ~data_queue_flow
           /\ phase \in {"Byte", "Bit"} /\ xfr.k \in Nat /\ xfr.k > 0 /\ calm \in Nat
           /\ phase = "Byte" => fsm = "TxPReadData" /\ Out = xfr.k
           /\ phase = "Bit" => fsm = "TxPReadTbit" /\ Out = xfr.k - 1 /\ xfr.k > 1
           /\ virtual_sel /\ mode_enter = 0 /\ recovery_pending
           /\ LenOf \in Nat /\ LenOf >= 2 /\ LenOf <= 24 /\ FirstOf \in Nat
           /\ FirstOf <= 24 \/ (FirstOf = 255 /\ LenOf = 4)
           /\ Out \in Nat /\ Out >= 1 /\ Out <= LenOf + 3
<1>1. Carries /\ ~Between /\ ~AtAck /\ ~xfr.over /\ Out \in 1 .. LenOf + 3 /\ Held
  BY DEF Sends
<1>2. /\ LenOf \in Nat /\ LenOf >= 2 /\ LenOf <= 24 /\ FirstOf \in Nat
      /\ FirstOf <= 24 \/ (FirstOf = 255 /\ LenOf = 4)
  BY RespFacts
<1>3. Served /\ IsRead /\ ~Reading
  BY <1>1 DEF Carries, Served, IsRead, Reading
<1>4. phase \in {"Byte", "Bit"} /\ xfr.k \in Nat /\ xfr.k > 0 /\ calm \in Nat
  BY <1>1, ReadPlaceFacts DEF ReadTypes, Between
<1>5. /\ phase = "Byte" => Out = xfr.k
      /\ phase = "Bit" => Out = xfr.k - 1 /\ xfr.k > 1
  BY <1>1, <1>4 DEF Out, AtAck
<1>6. virtual_sel /\ mode_enter = 0 /\ recovery_pending
  BY <1>1, HeldPending DEF Held
<1>7. ~rx_valid /\ ~Taken /\ ~data_queue_flow
  BY <1>3 DEF ReadBusSide, Taken, data_queue_flow, data_queue_wvalid
<1>8. ~checks_header
  BY <1>1, ReadPlaceFacts
<1>9. phase = "Byte" => fsm = "TxPReadData"
  BY <1>1, <1>3, <1>4 DEF ReadBusSide, ReadFsmAt, Reading, IsRead
<1>10. phase = "Bit" => fsm = "TxPReadTbit"
  BY <1>3, <1>5 DEF ReadBusSide, ReadFsmAt
<1> QED
  BY <1>1, <1>2, <1>3, <1>4, <1>5, <1>6, <1>7, <1>8, <1>9, <1>10

\* The end of the response is told at a T-bit, and only there.
LEMMA EndKept ==
    ASSUME NEW e, Handler(e), ~e.done \/ fsm = "TxPReadData"
    PROVE  tx_end_xfer' = tx_end_xfer
BY DEF Handler, Latches, fsm_tx_bit

\* The receiver, under a response.
LEMMA SendsRecv ==
    ASSUME ReadCalls, ReadTypes, ReadBusSide, Sends, NEW e, Clock(e, <<>>), ~e.start, ~e.stop
    PROVE  /\ owed' = <<>> /\ current' = current /\ Held' /\ queue_select' /\ ~bus_start_r'
           /\ ~recv_cmd_valid' /\ ~exec_cmd'.valid
           /\ exec_pending' <=> exec_pending /\ ~cmd_done
           /\ recv = "Busy" => recv' = IF cmd_done THEN "Idle" ELSE "Busy"
           /\ recv \in {"Idle", "RxCmd"} => recv' \in {"Idle", "RxCmd"}
<1>1. /\ owed = <<>> /\ Held /\ queue_select /\ ~bus_start_r
      /\ ~exec_cmd.valid /\ ~recv_cmd_valid
      /\ recv \in {"Busy", "Idle", "RxCmd"}
  BY DEF Sends, SendsCsrs, AfterCsrs
<1>2. /\ phase \in {"Byte", "Bit"} /\ virtual_sel /\ ~Taken /\ ~data_queue_flow
      /\ ~AtAck
  BY SendsFacts DEF Sends
<1>3. Handler(e) /\ ~TakesCommand
  BY <1>1 DEF Clock, TakesCommand
<1>4. owed' = <<>> /\ current' = current
  BY <1>1, <1>3, HistoryStays
<1>5. Held'
  BY <1>1, <1>2, <1>3, HeldStays
<1>6. queue_select' /\ ~bus_start_r'
  BY <1>1, <1>3, MuxStays, StartNotLatched
<1>7. recv = "Busy" => recv' = IF cmd_done THEN "Idle" ELSE "Busy"
  BY <1>2, <1>3, RecvHands
<1>8. recv \in {"Idle", "RxCmd"} => recv' \in {"Idle", "RxCmd"}
  BY <1>1, <1>2, <1>3, RecvRests
<1>9. ~recv_cmd_valid'
  BY <1>1, <1>2, <1>3, RecvClock
<1>10. ~exec_cmd'.valid
  BY <1>1, <1>3 DEF Handler, Registers
<1>11. exec_pending' <=> exec_pending /\ ~cmd_done
  <2>1. exec_pending' = (recv_cmd_valid \/ (exec_pending /\ ~cmd_done))
    BY <1>3 DEF Handler, ExecPending
  <2>2. exec_pending' <=> (recv_cmd_valid \/ (exec_pending /\ ~cmd_done))
    BY <2>1, Zenon
  <2> QED
    BY <1>1, <2>2
<1> QED
  BY <1>4, <1>5, <1>6, <1>7, <1>8, <1>9, <1>10, <1>11

\* Where the executor is, it is done with the CSRs.
LEMMA SendsExec ==
    ASSUME ReadCalls, ReadTypes, ReadBusSide, Sends, NEW e, Clock(e, <<>>), ~e.start, ~e.stop,
           Out >= LenOf + 2
    PROVE  /\ exec' = "Idle" /\ ~exec_pending' /\ recv' \in {"Idle", "RxCmd"} /\ ~res_valid'
           /\ exec \in {"Done", "Idle"}
           /\ ~JustTaken => exec = "Idle" /\ ~exec_pending /\ recv \in {"Idle", "RxCmd"}
<1>1. AfterCsrs
  <2>1. ~(Out < LenOf + 2)
    BY SendsFacts
  <2> QED
    BY <2>1 DEF Sends
<1>2. /\ Handler(e) /\ virtual_sel
      /\ exec_pending' <=> exec_pending /\ ~cmd_done
      /\ recv = "Busy" => recv' = IF cmd_done THEN "Idle" ELSE "Busy"
      /\ recv \in {"Idle", "RxCmd"} => recv' \in {"Idle", "RxCmd"}
  BY SendsRecv, SendsFacts DEF Clock
<1>3. CASE JustTaken /\ exec = "Done" /\ recv = "Busy" /\ exec_pending
  <2>1. exec' = "Idle" /\ ~res_valid'
    BY <1>2, <1>3, ExecReads
  <2>2. cmd_done
    BY <1>3 DEF cmd_done
  <2> QED
    BY <1>2, <1>3, <2>1, <2>2
<1>4. CASE exec = "Idle" /\ ~exec_pending /\ recv \in {"Idle", "RxCmd"}
  <2>1. exec' = "Idle"
    BY <1>2, <1>4, ExecWaits DEF Sends
  <2>2. ~res_valid'
    BY <1>2, <1>4 DEF Handler, Executor, Response
  <2> QED
    BY <1>2, <1>4, <2>1, <2>2
<1> QED
  BY <1>1, <1>3, <1>4 DEF AfterCsrs

\* Where it is not.
LEMMA SendsOffers ==
    ASSUME ReadCalls, ReadTypes, ReadBusSide, Sends, Out < LenOf + 2
    PROVE  /\ recv = "Busy" /\ exec_pending /\ exec = "CsrReadData" /\ csr_end = Invalid
           /\ dcnt = LenOf - DataOut /\ bcnt = DataOut % 4 /\ csr_sel = FirstOf + DataOut \div 4
           /\ ~JustTaken => csr_data = csr_sel /\ (res_dlast <=> (dcnt = 1))
           /\ ~cmd_done /\ tx_pending /\ descriptor_valid /\ ~tx_end_xfer
           /\ DataOut \in Nat /\ DataOut <= LenOf - 1
           /\ DataOut = IF Out <= 2 THEN 0 ELSE Out - 2
           /\ xmit = IF Out = 1 THEN "TxLenH" ELSE "TxData"
<1>1. SendsCsrs
  BY DEF Sends
<1>2. LenOf \in Nat /\ LenOf >= 2 /\ Out \in Nat /\ Out >= 1 /\ Out < LenOf + 3 /\ Out # LenOf + 3
  BY SendsFacts
<1>3. tx_pending /\ descriptor_valid /\ ~tx_end_xfer
  BY <1>2 DEF Sends
<1>4. /\ DataOut \in Nat /\ DataOut <= LenOf - 1
      /\ DataOut = IF Out <= 2 THEN 0 ELSE Out - 2
  BY <1>2 DEF DataOut
<1>5. xmit = IF Out = 1 THEN "TxLenH" ELSE "TxData"
  <2>1. Out = 1 \/ Out \in 2 .. LenOf + 1
    BY <1>2
  <2> QED
    BY <2>1 DEF Sends
<1>6. ~cmd_done
  BY <1>1 DEF SendsCsrs, cmd_done
<1> QED
  BY <1>1, <1>3, <1>4, <1>5, <1>6 DEF SendsCsrs

\* Between two bytes of the response everything waits.
LEMMA SendsWaits ==
    ASSUME ReadCalls, ReadTypes, ReadBusSide, ReadSelection, Sends,
           NEW e, Clock(e, <<>>), ~e.start, ~e.stop, ~tx_fifo_rready(e),
           ~e.done \/ fsm = "TxPReadData",
           xfr'.plan = xfr.plan, xfr'.expected = xfr.expected, ~xfr'.over,
           ~Between', ~AtAck', Out' = Out, ~JustTaken'
    PROVE  Sends'
<1>1. /\ Carries /\ owed = <<>> /\ Held /\ ~res_valid
      /\ Out = 1 => xmit = "TxLenH"
      /\ Out \in 2 .. LenOf + 1 => xmit = "TxData"
      /\ Out = LenOf + 2 => xmit = "TxPEC"
      /\ Out = LenOf + 3 => xmit = "Idle"
      /\ Out < LenOf + 3 => tx_crc = Out
      /\ byte_counter = LenOf + 3 - Out /\ ~tx_flush
      /\ tx_pending <=> (Out < LenOf + 3)
      /\ descriptor_valid <=> (Out < LenOf + 3)
      /\ tx_end_xfer <=> (Out = LenOf + 3)
  BY DEF Sends
<1>2. /\ virtual_sel /\ mode_enter = 0 /\ recovery_pending /\ ~checks_header
      /\ LenOf \in Nat /\ LenOf >= 2 /\ FirstOf \in Nat
      /\ Out \in Nat /\ Out >= 1 /\ Out <= LenOf + 3
  BY SendsFacts
<1>3. Handler(e) /\ ~tx_pr_abort(e) /\ mode_enter # 1
  BY <1>2 DEF Clock, tx_pr_abort
<1>4. /\ owed' = <<>> /\ current' = current /\ Held' /\ queue_select' /\ ~bus_start_r'
      /\ ~recv_cmd_valid' /\ ~exec_cmd'.valid
      /\ exec_pending' <=> exec_pending /\ ~cmd_done
      /\ recv = "Busy" => recv' = IF cmd_done THEN "Idle" ELSE "Busy"
  BY SendsRecv
<1>5. tx_end_xfer' <=> (Out = LenOf + 3)
  <2>1. tx_end_xfer' = tx_end_xfer
    BY <1>3, EndKept
  <2> QED
    BY <1>1, <2>1
<1>6. Carries' /\ LenOf' = LenOf /\ FirstOf' = FirstOf /\ DataOut' = DataOut
  <2>1. DataOut' = DataOut
    BY DEF DataOut
  <2> QED
    BY <1>1, <1>4, <2>1, CarriesStays, LengthStays
<1>7. /\ xmit' = xmit /\ (Out < LenOf + 3 => tx_crc' = tx_crc /\ ~res_dready(xmit_in(e)))
      /\ byte_counter' = byte_counter /\ ~tx_flush'
      /\ tx_pending' <=> (Out < LenOf + 3)
      /\ descriptor_valid' <=> (Out < LenOf + 3)
  <2>1. CASE Out < LenOf + 3
    <3>1. /\ descriptor_valid' /\ tx_pending' /\ byte_counter' = byte_counter /\ ~tx_flush'
          /\ ~desc_rready(txd_in(e)) /\ ~tx_queue_rready(txd_in(e))
      BY <1>1, <1>3, <2>1, TxdWaits
    <3>2. xmit \in {"TxDesc", "TxLenL", "TxLenH", "TxData", "TxPEC"}
      <4>1. Out = 1 \/ Out \in 2 .. LenOf + 1 \/ Out = LenOf + 2
        BY <1>2, <2>1
      <4> QED
        BY <1>1, <4>1
    <3>3. xmit' = xmit /\ tx_crc' = tx_crc /\ ~res_dready(xmit_in(e))
      BY <1>2, <1>3, <3>1, <3>2, XmitWaits
    <3> QED
      BY <2>1, <3>1, <3>3
  <2>2. CASE ~(Out < LenOf + 3)
    <3>1. Out = LenOf + 3
      BY <1>2, <2>2
    <3>2. byte_counter = 0
      BY <1>1, <1>2, <3>1
    <3>3. TxdOff /\ xmit = "Idle"
      BY <1>1, <2>2, <3>1, <3>2 DEF TxdOff
    <3>4. TxdOff'
      BY <1>3, <3>3, TxdRests
    <3>5. xmit' = "Idle"
      BY <1>1, <1>3, <3>3, XmitIdles
    <3> QED
      BY <2>2, <3>2, <3>3, <3>4, <3>5 DEF TxdOff
  <2> QED
    BY <2>1, <2>2
<1>8. CASE Out < LenOf + 2
  <2>1. /\ recv = "Busy" /\ exec_pending /\ exec = "CsrReadData" /\ csr_end = Invalid
        /\ dcnt = LenOf - DataOut /\ bcnt = DataOut % 4 /\ csr_sel = FirstOf + DataOut \div 4
        /\ ~cmd_done
    BY <1>8, SendsOffers
  <2>2. Out < LenOf + 3
    BY <1>2, <1>8
  <2>3. /\ csr_end' = csr_end /\ ~res_valid' /\ csr_data' = csr_sel
        /\ (res_dlast' <=> dcnt = 1)
        /\ exec' = exec /\ csr_sel' = csr_sel /\ bcnt' = bcnt /\ dcnt' = dcnt
    BY <1>2, <1>3, <1>7, <2>1, <2>2, ExecReads
  <2>4. SendsCsrs'
    BY <1>4, <1>6, <2>1, <2>3 DEF SendsCsrs
  <2>5. Out' < LenOf' + 2 /\ Out' \in 1 .. LenOf' + 3
    BY <1>2, <1>6, <1>8
  <2> QED
    BY <1>1, <1>4, <1>5, <1>6, <1>7, <2>3, <2>4, <2>5 DEF Sends
<1>9. CASE ~(Out < LenOf + 2)
  <2>1. Out >= LenOf + 2
    BY <1>2, <1>9
  <2>2. exec' = "Idle" /\ ~exec_pending' /\ recv' \in {"Idle", "RxCmd"} /\ ~res_valid'
    BY <2>1, SendsExec
  <2>3. AfterCsrs'
    BY <2>2 DEF AfterCsrs
  <2>4. ~(Out' < LenOf' + 2) /\ Out' \in 1 .. LenOf' + 3
    BY <1>2, <1>6, <1>9
  <2> QED
    BY <1>1, <1>4, <1>5, <1>6, <1>7, <2>2, <2>3, <2>4 DEF Sends
<1> QED
  BY <1>8, <1>9

\* There is another byte until the last one is out.
LEMMA SendsMore ==
    ASSUME ReadCalls, ReadTypes, ReadBusSide, Sends, phase = "Bit"
    PROVE  /\ Out < LenOf + 3 => tx_rvalid /\ More /\ ~tx_end_xfer
           /\ Out = LenOf + 3 => ~More /\ tx_end_xfer
<1>1. /\ Out = LenOf + 2 => xmit = "TxPEC"
      /\ tx_pending <=> (Out < LenOf + 3)
      /\ tx_end_xfer <=> (Out = LenOf + 3)
  BY DEF Sends
<1>2. recovery_pending /\ LenOf \in Nat /\ Out \in Nat
  BY SendsFacts
<1>3. ASSUME Out < LenOf + 3 PROVE tx_rvalid /\ More /\ ~tx_end_xfer
  <2>1. tx_rvalid
    <3>1. CASE Out < LenOf + 2
      <4>1. exec = "CsrReadData" /\ xmit \in {"TxLenH", "TxData"}
        BY <3>1, SendsOffers
      <4> QED
        BY <1>2, <4>1 DEF tx_rvalid, data_valid, res_dvalid
    <3>2. CASE Out = LenOf + 2
      BY <1>1, <1>2, <3>2 DEF tx_rvalid, data_valid
    <3> QED
      BY <1>2, <1>3, <3>1, <3>2
  <2>2. tx_pending /\ ~tx_end_xfer
    BY <1>1, <1>2, <1>3
  <2> QED
    BY <2>1, <2>2 DEF More
<1>4. ASSUME Out = LenOf + 3 PROVE ~More /\ tx_end_xfer
  BY <1>1, <1>4 DEF More
<1> QED
  BY <1>3, <1>4

\* At the T-bit of a byte that is not the last the target FSM takes the next.
LEMMA SendsNext ==
    ASSUME ReadCalls, ReadTypes, ReadBusSide, Sends, phase = "Bit",
           NEW n \in Nat, n = Out, n < LenOf + 3, NEW e, Clock(e, <<>>), Dones(e)
    PROVE  /\ tx_fifo_rready(e) /\ More /\ ~tx_end_xfer
           /\ byte_counter' = LenOf + 2 - n /\ ~tx_flush'
           /\ descriptor_valid' <=> n < LenOf + 2
           /\ tx_pending' <=> n < LenOf + 2
           /\ tx_end_xfer' <=> n = LenOf + 2
           /\ tx_queue_rready(txd_in(e))
<1>1. /\ Out = LenOf + 2 => xmit = "TxPEC"
      /\ byte_counter = LenOf + 3 - n /\ ~tx_flush
      /\ tx_pending /\ descriptor_valid /\ ~tx_end_xfer
  BY DEF Sends
<1>2. /\ fsm = "TxPReadTbit" /\ recovery_pending /\ mode_enter # 1
      /\ LenOf \in Nat /\ LenOf >= 2 /\ LenOf <= 24 /\ n >= 1
  BY SendsFacts
<1>3. Handler(e) /\ ~tx_pr_abort(e) /\ e.done
  BY DEF Clock, tx_pr_abort, Dones
<1>4. tx_rvalid /\ More
  BY SendsMore
<1>6. tx_fifo_rready(e)
  <2>1. fsm_next(e) = "TxPReadData"
    BY <1>2, <1>4, ReadFsmDones
  <2> QED
    BY <1>2, <2>1 DEF tx_fifo_rready
<1>7. PICK m \in Nat : m = LenOf + 3 - n /\ m >= 1 /\ m <= 27
  BY <1>2
<1>8. /\ byte_counter' = m - 1 /\ ~tx_flush'
      /\ descriptor_valid' <=> m > 1
      /\ tx_pending' <=> m > 1
      /\ tx_queue_rready(txd_in(e))
  BY <1>1, <1>2, <1>3, <1>4, <1>6, <1>7, TxdTakes
<1>9. m - 1 = LenOf + 2 - n /\ (m > 1 <=> n < LenOf + 2) /\ (m = 1 <=> n = LenOf + 2)
  BY <1>2, <1>7
<1>10. tx_end_xfer' <=> n = LenOf + 2
  <2>1. tx_end_xfer' = tx_byte_last
    BY <1>2, <1>3 DEF Handler, Latches, fsm_tx_bit
  <2>2. tx_byte_last <=> m = 1
    BY <1>1, <1>7 DEF tx_byte_last
  <2>3. tx_end_xfer' <=> m = 1
    BY <2>1, <2>2
  <2> QED
    BY <1>9, <2>3
<1> QED
  BY <1>1, <1>4, <1>6, <1>8, <1>9, <1>10

\* It is the next byte of the response.
LEMMA SendsByte ==
    ASSUME ReadCalls, ReadTypes, ReadBusSide, Sends, phase = "Bit",
           NEW n \in Nat, n = Out, n < LenOf + 3, NEW e, Clock(e, <<>>), Dones(e)
    PROVE  /\ data_byte(xmit_in(e)) = Resp[n + 1]
           /\ xmit' = IF n < LenOf + 1 THEN "TxData"
                      ELSE IF n = LenOf + 1 THEN "TxPEC" ELSE "Idle"
           /\ n < LenOf + 2 => tx_crc' = n + 1
           /\ res_dready(xmit_in(e)) <=> n >= 2 /\ n < LenOf + 2
<1>1. /\ Handler(e) /\ ~e.start /\ ~e.stop /\ tx_queue_rready(txd_in(e)) /\ ~JustTaken
  BY SendsNext DEF Clock, Dones, JustTaken
<1>2. /\ virtual_sel /\ recovery_pending /\ LenOf \in Nat /\ LenOf >= 2 /\ LenOf <= 24
      /\ FirstOf \in Nat /\ n >= 1
  BY SendsFacts
<1>3. tx_crc = n /\ (n = LenOf + 2 => xmit = "TxPEC")
  BY DEF Sends
<1>4. /\ Resp[2] = <<"len", 1, 0>>
      /\ \A j \in 1 .. LenOf : Resp[2 + j] = <<"csr", FirstOf + (j - 1) \div 4, (j - 1) % 4>>
      /\ Resp[LenOf + 3] = <<"pec", 2 + LenOf, 0>>
  BY RespFacts
<1>5. CASE n = 1
  <2>1. xmit = "TxLenH"
    BY <1>2, <1>5, SendsOffers
  <2>2. /\ xmit' = "TxData" /\ tx_crc' = tx_crc + 1 /\ ~res_dready(xmit_in(e))
        /\ data_byte(xmit_in(e)) = <<"len", 1, 0>>
    BY <1>1, <1>2, <2>1, XmitSends
  <2>3. n < LenOf + 1 /\ n < LenOf + 2 /\ ~(n >= 2) /\ n + 1 = 2
    BY <1>2, <1>5
  <2> QED
    BY <1>3, <1>4, <2>2, <2>3
<1>6. CASE n >= 2 /\ n < LenOf + 2
  <2>0. n # 1 /\ n + 1 >= 3
    BY <1>6
  <2>1. /\ xmit = "TxData" /\ exec = "CsrReadData" /\ csr_data = FirstOf + DataOut \div 4
        /\ bcnt = DataOut % 4 /\ (res_dlast <=> dcnt = 1) /\ dcnt = LenOf - DataOut
        /\ DataOut = IF n <= 2 THEN 0 ELSE n - 2
    BY <1>1, <1>6, <2>0, SendsOffers
  <2>2. DataOut = n - 2
    BY <1>6, <2>1
  <2>3. /\ xmit' = IF res_dlast THEN "TxPEC" ELSE xmit
        /\ tx_crc' = tx_crc + 1 /\ res_dready(xmit_in(e))
        /\ data_byte(xmit_in(e)) = <<"csr", csr_data, bcnt>>
    BY <1>1, <1>2, <2>1, XmitSends
  <2>4. data_byte(xmit_in(e)) = <<"csr", FirstOf + (n - 2) \div 4, (n - 2) % 4>>
    BY <2>1, <2>2, <2>3
  <2>5. Resp[n + 1] = <<"csr", FirstOf + (n - 2) \div 4, (n - 2) % 4>>
    <3>1. n - 1 \in 1 .. LenOf /\ 2 + (n - 1) = n + 1 /\ (n - 1) - 1 = n - 2
      BY <1>2, <1>6
    <3> QED
      BY <1>4, <3>1
  <2>6. dcnt = 1 <=> n = LenOf + 1
    BY <1>2, <1>6, <2>1, <2>2
  <2>7. xmit' = IF n < LenOf + 1 THEN "TxData" ELSE "TxPEC"
    BY <1>2, <1>6, <2>1, <2>3, <2>6
  <2>8. n < LenOf + 1 \/ n = LenOf + 1
    BY <1>2, <1>6
  <2> QED
    BY <1>3, <1>6, <2>3, <2>4, <2>5, <2>7, <2>8
<1>7. CASE n = LenOf + 2
  <2>1. /\ xmit' = "Idle" /\ ~res_dready(xmit_in(e))
        /\ data_byte(xmit_in(e)) = <<"pec", tx_crc, 0>>
    BY <1>1, <1>2, <1>3, <1>7, XmitSends
  <2>2. n + 1 = LenOf + 3 /\ tx_crc = 2 + LenOf /\ ~(n < LenOf + 2) /\ ~(n < LenOf + 1)
        /\ n # LenOf + 1
    BY <1>2, <1>3, <1>7
  <2> QED
    BY <1>4, <2>1, <2>2
<1> QED
  BY <1>2, <1>5, <1>6, <1>7

\* The executor goes on to the byte after it.
LEMMA SendsCounts ==
    ASSUME ReadCalls, ReadTypes, ReadBusSide, Sends, phase = "Bit",
           NEW n \in Nat, n = Out, n < LenOf + 2, NEW e, Clock(e, <<>>), Dones(e),
           Out' = n + 1, JustTaken', current' = current
    PROVE  /\ n < LenOf + 1 => SendsCsrs'
           /\ n = LenOf + 1 => AfterCsrs'
           /\ ~res_valid'
<1>1. Handler(e) /\ ~e.start /\ ~e.stop
  BY DEF Clock, Dones
<1>2. /\ virtual_sel /\ LenOf \in Nat /\ LenOf >= 2 /\ LenOf <= 24 /\ FirstOf \in Nat
      /\ FirstOf <= 24 \/ (FirstOf = 255 /\ LenOf = 4)
      /\ n >= 1
  BY SendsFacts
<1>3. n < LenOf + 3
  BY <1>2
<1>4. res_dready(xmit_in(e)) <=> n >= 2
  BY <1>3, SendsByte
<1>5. /\ recv = "Busy" /\ exec_pending /\ exec = "CsrReadData" /\ csr_end = Invalid
      /\ dcnt = LenOf - DataOut /\ bcnt = DataOut % 4 /\ csr_sel = FirstOf + DataOut \div 4
      /\ ~cmd_done /\ DataOut \in Nat /\ DataOut <= LenOf - 1
      /\ DataOut = IF n <= 2 THEN 0 ELSE n - 2
  BY SendsOffers
<1>6. recv' = "Busy" /\ exec_pending'
  BY <1>1, <1>5, SendsRecv
<1>7. /\ csr_end' = csr_end /\ ~res_valid'
      /\ ~res_dready(xmit_in(e)) =>
            exec' = exec /\ csr_sel' = csr_sel /\ bcnt' = bcnt /\ dcnt' = dcnt
      /\ res_dready(xmit_in(e)) =>
            /\ exec' = IF dcnt = 1 THEN "Done" ELSE exec
            /\ csr_sel' = IF bcnt = 3 /\ csr_sel < csr_end THEN csr_sel + 1 ELSE csr_sel
            /\ bcnt' = (bcnt + 1) % 4 /\ dcnt' = (dcnt + 65535) % 65536
  BY <1>1, <1>2, <1>5, ExecReads
<1>8. LenOf' = LenOf /\ FirstOf' = FirstOf
  BY LengthStays
<1>9. DataOut' = n - 1
  <2>1. DataOut' = IF n + 1 <= 2 THEN 0 ELSE n + 1 - 2
    BY DEF DataOut
  <2> QED
    BY <1>2, <2>1
<1>10. CASE n = 1
  <2>1. DataOut = 0 /\ DataOut' = 0 /\ ~(n >= 2) /\ n # LenOf + 1
    BY <1>2, <1>5, <1>9, <1>10
  <2>2. exec' = exec /\ csr_sel' = csr_sel /\ bcnt' = bcnt /\ dcnt' = dcnt
    BY <1>4, <1>7, <2>1
  <2>3. dcnt' = LenOf' - DataOut' /\ bcnt' = DataOut' % 4 /\ csr_sel' = FirstOf' + DataOut' \div 4
    BY <1>5, <1>8, <2>1, <2>2
  <2> QED
    BY <1>5, <1>6, <1>7, <2>1, <2>2, <2>3 DEF SendsCsrs
<1>11. CASE n >= 2
  <2>1. PICK m \in Nat : m = n - 2
    BY <1>11
  <2>2. DataOut = m /\ DataOut' = m + 1 /\ m <= LenOf - 1
    BY <1>5, <1>9, <1>11, <2>1
  <2>3. /\ exec' = IF dcnt = 1 THEN "Done" ELSE exec
        /\ csr_sel' = IF bcnt = 3 /\ csr_sel < csr_end THEN csr_sel + 1 ELSE csr_sel
        /\ bcnt' = (bcnt + 1) % 4 /\ dcnt' = (dcnt + 65535) % 65536
    BY <1>4, <1>7, <1>11
  <2>4. dcnt = LenOf - m /\ bcnt = m % 4 /\ csr_sel = FirstOf + m \div 4
    BY <1>5, <2>2
  <2>5. CASE n < LenOf + 1
    <3>1. dcnt # 1 /\ n # LenOf + 1
      BY <1>2, <2>1, <2>4, <2>5
    <3>2. dcnt' = LenOf' - DataOut'
      <4>1. (LenOf - m + 65535) % 65536 = LenOf - (m + 1)
        BY <1>2, <2>2
      <4> QED
        BY <1>8, <2>2, <2>3, <2>4, <4>1
    <3>3. bcnt' = DataOut' % 4
      <4>1. ((m % 4) + 1) % 4 = (m + 1) % 4
        OBVIOUS
      <4> QED
        BY <2>2, <2>3, <2>4, <4>1
    <3>4. csr_sel' = FirstOf' + DataOut' \div 4
      <4>1. IF m % 4 = 3 THEN (m + 1) \div 4 = m \div 4 + 1 ELSE (m + 1) \div 4 = m \div 4
        OBVIOUS
      <4>2. m % 4 = 3 => FirstOf + m \div 4 < 255
        <5>1. m <= LenOf - 2
          BY <1>2, <2>1, <2>5
        <5>2. ASSUME m % 4 = 3, FirstOf = 255, LenOf = 4 PROVE FALSE
          BY <5>1, <5>2
        <5>3. m \div 4 <= 6 /\ m \div 4 \in Nat
          BY <1>2, <2>2
        <5> QED
          BY <1>2, <5>2, <5>3
      <4>3. csr_end = 255
        BY <1>5 DEF Invalid
      <4>4. csr_sel' = IF m % 4 = 3 THEN csr_sel + 1 ELSE csr_sel
        BY <2>3, <2>4, <4>2, <4>3
      <4>5. csr_sel' = FirstOf + (m + 1) \div 4
        <5>1. m \div 4 \in Nat
          OBVIOUS
        <5> QED
          BY <1>2, <2>4, <4>1, <4>4, <5>1
      <4> QED
        BY <1>8, <2>2, <4>5
    <3>5. exec' = "CsrReadData" /\ csr_end' = Invalid
      BY <1>5, <1>7, <2>3, <3>1
    <3>6. SendsCsrs'
      BY <1>6, <3>2, <3>3, <3>4, <3>5 DEF SendsCsrs
    <3> QED
      BY <1>7, <3>1, <3>6
  <2>6. CASE n = LenOf + 1
    <3>1. dcnt = 1 /\ ~(n < LenOf + 1)
      <4>1. PICK l \in Nat : l = LenOf
        BY <1>2
      <4>2. n = l + 1 /\ m = l - 1
        BY <2>1, <2>6, <4>1
      <4>3. dcnt = l - m
        BY <2>4, <4>1
      <4> QED
        BY <4>1, <4>2, <4>3
    <3>2. exec' = "Done"
      BY <2>3, <3>1
    <3>3. Out' = LenOf' + 2
      BY <1>2, <1>8, <2>6
    <3> QED
      BY <1>6, <1>7, <3>1, <3>2, <3>3 DEF AfterCsrs
  <2> QED
    BY <1>2, <2>5, <2>6
<1> QED
  BY <1>2, <1>10, <1>11

\* One byte more is out.
LEMMA SendsTakes ==
    ASSUME ReadCalls, ReadTypes, ReadBusSide, ReadSelection, Sends, phase = "Bit",
           NEW n \in Nat, n = Out, n < LenOf + 3, NEW e, Clock(e, <<>>), Dones(e),
           phase' = "Byte", calm' = 0, xfr'.plan = xfr.plan, xfr'.k = xfr.k,
           xfr'.expected = xfr.expected, ~xfr'.over
    PROVE  Sends'
<1>1. /\ byte_counter' = LenOf + 2 - n /\ ~tx_flush'
      /\ descriptor_valid' <=> n < LenOf + 2
      /\ tx_pending' <=> n < LenOf + 2
      /\ tx_end_xfer' <=> n = LenOf + 2
  BY SendsNext
<1>2. /\ xmit' = IF n < LenOf + 1 THEN "TxData"
                 ELSE IF n = LenOf + 1 THEN "TxPEC" ELSE "Idle"
      /\ n < LenOf + 2 => tx_crc' = n + 1
  BY SendsByte
<1>3. /\ owed' = <<>> /\ current' = current /\ Held' /\ queue_select' /\ ~bus_start_r'
      /\ ~recv_cmd_valid' /\ ~exec_cmd'.valid
  BY SendsRecv DEF Dones
<1>4. LenOf \in Nat /\ LenOf >= 2 /\ n >= 1 /\ xfr.k \in Nat /\ Out = xfr.k - 1
  BY SendsFacts
<1>5. Out' = n + 1 /\ JustTaken' /\ ~Between' /\ ~AtAck'
  <2>1. Out' = xfr'.k
    BY DEF Out
  <2>2. xfr.k = n + 1
    BY <1>4
  <2> QED
    BY <1>4, <2>1, <2>2 DEF JustTaken, Between, AtAck
<1>6. Carries' /\ LenOf' = LenOf
  BY <1>3, CarriesStays, LengthStays DEF Sends
<1>7. /\ n < LenOf + 1 => SendsCsrs'
      /\ n = LenOf + 1 => AfterCsrs'
      /\ n = LenOf + 2 => AfterCsrs'
      /\ ~res_valid'
  <2>1. CASE n < LenOf + 2
    <3>1. n # LenOf + 2
      BY <1>4, <2>1
    <3> QED
      BY <1>3, <1>5, <2>1, <3>1, SendsCounts
  <2>2. CASE n = LenOf + 2
    <3>1. Out >= LenOf + 2 /\ ~(n < LenOf + 1) /\ n # LenOf + 1
      BY <1>4, <2>2
    <3>2. exec' = "Idle" /\ ~exec_pending' /\ recv' \in {"Idle", "RxCmd"} /\ ~res_valid'
      BY <3>1, SendsExec DEF Dones
    <3> QED
      BY <3>1, <3>2 DEF AfterCsrs
  <2> QED
    BY <1>4, <2>1, <2>2
<1>8. /\ Out' \in 1 .. LenOf' + 3 /\ Out' # 1
      /\ Out' \in 2 .. LenOf' + 1 => n < LenOf + 1
      /\ Out' = LenOf' + 2 <=> n = LenOf + 1
      /\ Out' = LenOf' + 3 <=> n = LenOf + 2
      /\ Out' < LenOf' + 3 <=> n < LenOf + 2
      /\ Out' < LenOf' + 2 <=> n < LenOf + 1
      /\ LenOf' + 3 - Out' = LenOf + 2 - n
      /\ n < LenOf + 1 \/ n = LenOf + 1 \/ n = LenOf + 2
  <2>1. PICK l \in Nat : l = LenOf /\ l >= 2
    BY <1>4
  <2>2. n >= 1 /\ n < l + 3
    BY <1>4, <2>1
  <2>3. /\ n + 1 \in 1 .. l + 3 /\ n + 1 # 1
        /\ n + 1 \in 2 .. l + 1 => n < l + 1
        /\ n + 1 = l + 2 <=> n = l + 1
        /\ n + 1 = l + 3 <=> n = l + 2
        /\ n + 1 < l + 3 <=> n < l + 2
        /\ n + 1 < l + 2 <=> n < l + 1
        /\ l + 3 - (n + 1) = l + 2 - n
        /\ n < l + 1 \/ n = l + 1 \/ n = l + 2
    BY <2>1, <2>2
  <2>4. Out' = n + 1 /\ LenOf' = l /\ LenOf = l
    BY <1>5, <1>6, <2>1
  <2> QED
    BY <2>3, <2>4
<1>9. /\ Out' \in 2 .. LenOf' + 1 => xmit' = "TxData"
      /\ Out' = LenOf' + 2 => xmit' = "TxPEC"
      /\ Out' = LenOf' + 3 => xmit' = "Idle"
  <2>1. /\ n = LenOf + 1 => ~(n < LenOf + 1)
        /\ n = LenOf + 2 => ~(n < LenOf + 1) /\ n # LenOf + 1
    BY <1>4
  <2> QED
    BY <1>2, <1>8, <2>1
<1>10. IF Out' < LenOf' + 2 THEN SendsCsrs' ELSE AfterCsrs'
  BY <1>7, <1>8
<1>11. Out' < LenOf' + 3 => tx_crc' = Out'
  BY <1>2, <1>5, <1>8
<1>12. /\ tx_pending' <=> (Out' < LenOf' + 3)
       /\ descriptor_valid' <=> (Out' < LenOf' + 3)
       /\ tx_end_xfer' <=> (Out' = LenOf' + 3)
       /\ byte_counter' = LenOf' + 3 - Out'
  BY <1>1, <1>8
<1> QED
  BY <1>1, <1>3, <1>5, <1>6, <1>7, <1>8, <1>9, <1>10, <1>11, <1>12 DEF Sends

\* After the last byte there is rest.
LEMMA SendsEnds ==
    ASSUME ReadCalls, ReadTypes, ReadBusSide, ReadSelection, Sends, phase = "Bit",
           Out = LenOf + 3, NEW e, Clock(e, <<>>), Dones(e),
           phase' = "Byte", xfr'.plan = xfr.plan, xfr'.expected = xfr.expected, xfr'.over
    PROVE  ReadRests' /\ ~tx_fifo_rready(e) /\ current' = current
<1>1. /\ xmit = "Idle" /\ ~tx_flush /\ ~tx_pending /\ ~descriptor_valid /\ tx_end_xfer
      /\ byte_counter = LenOf + 3 - Out /\ ~res_valid
  BY DEF Sends
<1>2. LenOf \in Nat /\ ~checks_header /\ fsm = "TxPReadTbit" /\ IsRead /\ ~Reading
  BY SendsFacts
<1>3. TxdOff
  BY <1>1, <1>2 DEF TxdOff
<1>4. Handler(e) /\ ~tx_pr_abort(e) /\ e.done /\ ~e.start /\ ~e.stop
  BY DEF Clock, tx_pr_abort, Dones
<1>5. TxdOff' /\ xmit' = "Idle"
  BY <1>1, <1>3, <1>4, TxdRests, XmitIdles
<1>6. ~tx_end_xfer'
  <2>1. tx_end_xfer' = tx_byte_last
    BY <1>2, <1>4 DEF Handler, Latches, fsm_tx_bit
  <2>2. ~tx_byte_last
    BY <1>3 DEF tx_byte_last, TxdOff
  <2> QED
    BY <2>1, <2>2
<1>7. /\ owed' = <<>> /\ current' = current /\ queue_select' /\ ~bus_start_r'
      /\ ~recv_cmd_valid' /\ ~exec_cmd'.valid
  BY <1>4, SendsRecv
<1>8. exec' = "Idle" /\ ~exec_pending' /\ recv' \in {"Idle", "RxCmd"} /\ ~res_valid'
  <2>1. Out >= LenOf + 2
    BY <1>2
  <2> QED
    BY <1>4, <2>1, SendsExec
<1>9. ExecOff' /\ SendOff'
  BY <1>5, <1>6, <1>7, <1>8 DEF ExecOff, SendOff
<1>10. ~Reading'
  BY <1>2 DEF Reading
<1>11. ~tx_fifo_rready(e)
  <2>1. ~More
    BY <1>1 DEF More
  <2>2. fsm_next(e) = "Wait"
    BY <1>2, <2>1, ReadFsmDones
  <2> QED
    BY <2>2 DEF tx_fifo_rready
<1> QED
  BY <1>7, <1>8, <1>9, <1>10, <1>11 DEF ReadRests

\* From byte to byte.
LEMMA SendsStep ==
    ASSUME ReadCalls, ReadTypes, ReadBusSide, ReadSelection, Sends, Next
    PROVE  Sends' \/ ReadRests'
<1>1. /\ Served /\ IsRead /\ phase \in {"Byte", "Bit"} /\ xfr.k \in Nat /\ xfr.k > 0 /\ calm \in Nat
      /\ phase = "Byte" => fsm = "TxPReadData" /\ Out = xfr.k
      /\ phase = "Bit" => fsm = "TxPReadTbit" /\ Out = xfr.k - 1 /\ xfr.k > 1
      /\ LenOf \in Nat /\ Out \in Nat /\ Out >= 1 /\ Out <= LenOf + 3
  BY SendsFacts
<1>2. ~xfr.over /\ ~AtAck /\ ~Between /\ (tx_end_xfer <=> Out = LenOf + 3)
  BY DEF Sends
<1>3. ~START /\ ~RepeatedStart /\ ~STOP
  <2>1. ~MayEnd
    BY <1>1, <1>2, ReadEndFacts
  <2> QED
    BY <1>1, <2>1 DEF START, RepeatedStart, STOP
<1>4. CASE Tick
  <2>1. PICK e : Clock(e, <<>>) /\ Silent(e)
    BY <1>4, ReadTickMoves
  <2>2. phase' = phase /\ xfr' = xfr /\ calm' > 0
    BY <1>4, ReadTickMoves
  <2>3. ~tx_fifo_rready(e) /\ ~e.start /\ ~e.stop /\ ~e.done
    BY <2>1, NothingTaken DEF Silent
  <2>4. ~Between' /\ ~AtAck' /\ Out' = Out /\ ~xfr'.over
    BY <1>2, <2>2 DEF Between, AtAck, Out
  <2>5. ~JustTaken'
    <3>1. calm' \in Nat /\ calm' # 0
      BY <1>4, <2>2, ReadTickMoves
    <3> QED
      BY <3>1 DEF JustTaken
  <2> QED
    BY <2>1, <2>2, <2>3, <2>4, <2>5, SendsWaits
<1>5. CASE ByteEnd
  <2>1. PICK e : Clock(e, <<>>) /\ Dones(e)
    BY <1>5, ReadByteMoves
  <2>2. /\ phase = "Byte" /\ phase' = "Bit" /\ xfr'.plan = xfr.plan /\ xfr'.k = xfr.k + 1
        /\ xfr'.expected = xfr.expected /\ xfr'.over = xfr.over
    BY <1>5, ReadByteMoves
  <2>3. ~tx_fifo_rready(e) /\ ~e.start /\ ~e.stop
    BY <1>1, <2>1, <2>2 DEF tx_fifo_rready, Dones
  <2>4. ~Between' /\ ~AtAck' /\ ~JustTaken'
    BY <1>1, <2>2 DEF Between, AtAck, JustTaken
  <2>5. Out' = Out
    <3>1. Out' = xfr'.k - 1
      BY <2>2 DEF Out
    <3> QED
      BY <1>1, <2>2, <3>1
  <2> QED
    BY <1>1, <1>2, <2>1, <2>2, <2>3, <2>4, <2>5, SendsWaits
<1>6. CASE BitEnd
  <2>1. PICK e : Clock(e, <<>>) /\ Dones(e)
    BY <1>6, ReadBitMoves
  <2>2. /\ phase = "Bit" /\ phase' = "Byte" /\ calm' = 0 /\ xfr'.plan = xfr.plan
        /\ xfr'.k = xfr.k /\ xfr'.expected = xfr.expected
        /\ xfr.k # 1 => (xfr'.over <=> IsRead /\ tx_end_xfer)
    BY <1>6, ReadBitMoves
  <2>3. xfr'.over <=> Out = LenOf + 3
    BY <1>1, <1>2, <2>2
  <2>4. CASE Out = LenOf + 3
    BY <2>1, <2>2, <2>3, <2>4, SendsEnds
  <2>5. CASE Out # LenOf + 3
    <3>1. PICK n \in Nat : n = Out /\ n < LenOf + 3
      BY <1>1, <2>5
    <3> QED
      BY <2>1, <2>2, <2>3, <2>5, <3>1, SendsTakes
  <2> QED
    BY <2>4, <2>5
<1> QED
  BY <1>3, <1>4, <1>5, <1>6 DEF Next

-----------------------------------------------------------------------------
(* What the bus side needs of the handler. *)

\* In every stage it answers the header, takes the byte, and ends the response.
LEMMA StagesReady ==
    ASSUME ReadCalls, ReadTypes, ReadBusSide, ReadSelection, ReadStages
    PROVE  ReadReady /\ OwedKnown
<1>1. /\ Reading => ~IsRead
      /\ AtStart => ~AtAck /\ phase = "Byte" /\ ~Reading
      /\ AtAck => phase = "Bit" /\ xfr.k = 1
      /\ phase = "Bit" => ~xfr.over
      /\ rx_valid => Reading /\ phase = "Byte" /\ xfr.k > 1
  BY DEF Reading, IsRead, AtStart, AtAck, ReadBusSide
<1>2. CASE ReadOpens
  <2>1. Reading /\ AtAck /\ owed = <<>> /\ ~TakesCommand
    BY <1>2 DEF ReadOpens, ExecOff, TakesCommand
  <2> QED
    BY <1>1, <2>1 DEF ReadReady, OwedKnown, Served
<1>3. CASE ReadCut
  <2>1. Reading /\ owed = <<>> /\ ~TakesCommand
    BY <1>3 DEF ReadCut, ExecOff, TakesCommand
  <2>2. rx_wready
    BY <1>3, ReadCutFacts DEF rx_wready
  <2> QED
    BY <1>1, <2>1, <2>2 DEF ReadReady, OwedKnown, Served
<1>4. CASE ReadHands
  <2>1. AtStart /\ \E p \in AllPlans, tag \in {1, 2} : owed = <<[plan |-> p, tag |-> tag]>>
    BY <1>4 DEF ReadHands
  <2>2. PICK p \in AllPlans, tag \in {1, 2} : owed = <<[plan |-> p, tag |-> tag]>>
    BY <2>1
  <2>3. OwedKnown
    BY <2>2 DEF OwedKnown
  <2> QED
    BY <1>1, <2>1, <2>3 DEF ReadReady
<1>5. CASE ReadRefused
  <2>1. AtStart /\ owed = <<>>
    BY <1>5 DEF ReadRefused, InHand
  <2> QED
    BY <1>1, <2>1 DEF ReadReady, OwedKnown
<1>6. CASE Fetches
  <2>1. owed = <<>> /\ ~TakesCommand /\ Served /\ ~Reading /\ recovery_pending
    BY <1>6, HeldPending DEF Fetches, InHand, Carries, TakesCommand, Served, Reading, IsRead
  <2>2. CASE AtStart
    BY <1>1, <2>1, <2>2 DEF ReadReady, OwedKnown
  <2>3. CASE AtAck
    <3>1. xmit = "TxDesc"
      BY <1>1, <1>6, <2>3 DEF Fetches
    <3>2. tx_desc_avail /\ xfr.expected
      BY <2>1, <3>1 DEF tx_desc_avail, desc_valid, Served
    <3>3. ~(xfr.k > 1)
      BY <1>1, <2>3
    <3> QED
      BY <1>1, <2>1, <2>3, <3>2, <3>3 DEF ReadReady, OwedKnown
  <2> QED
    BY <1>6, <2>2, <2>3 DEF Fetches
<1>7. CASE Granted
  <2>1. owed = <<>> /\ ~TakesCommand /\ ~rx_valid /\ calm # 0 /\ ~(xfr.k > 1)
    BY <1>7, GrantedFacts DEF Granted, InHand, TakesCommand
  <2> QED
    BY <2>1 DEF ReadReady, OwedKnown
<1>8. CASE Sends
  <2>1. owed = <<>> /\ ~TakesCommand /\ ~AtAck
    BY <1>8 DEF Sends, TakesCommand
  <2>2. ~rx_valid /\ LenOf \in Nat /\ Out \in Nat /\ Out <= LenOf + 3
    BY <1>8, SendsFacts
  <2>3. ASSUME phase = "Bit"
        PROVE  /\ xfr.k <= LenOf + 4
               /\ More <=> xfr.k < LenOf + 4
               /\ tx_end_xfer <=> xfr.k = LenOf + 4
    <3>1. Out = xfr.k - 1 /\ xfr.k \in Nat
      BY <1>8, <2>3, SendsFacts
    <3>2. CASE Out < LenOf + 3
      <4>1. More /\ ~tx_end_xfer
        BY <1>8, <2>3, <3>2, SendsMore
      <4> QED
        BY <2>2, <3>1, <3>2, <4>1
    <3>3. CASE Out = LenOf + 3
      <4>1. ~More /\ tx_end_xfer
        BY <1>8, <2>3, <3>3, SendsMore
      <4> QED
        BY <2>2, <3>1, <3>3, <4>1
    <3> QED
      BY <2>2, <3>2, <3>3
  <2> QED
    BY <2>1, <2>2, <2>3 DEF ReadReady, OwedKnown
<1>9. CASE ReadRests
  <2>1. owed = <<>> /\ ~TakesCommand /\ ~rx_valid
    BY <1>9, RestsQuiet DEF ReadRests
  <2>2. Served => phase # "Bit"
    BY <1>1, <1>9 DEF ReadRests
  <2>3. ~tx_desc_avail
    BY <1>9 DEF ReadRests, SendOff, tx_desc_avail, desc_valid
  <2>4. AtAck /\ IsRead => ~xfr.expected
    BY <1>1, <2>2 DEF Served
  <2> QED
    BY <2>1, <2>2, <2>3, <2>4 DEF ReadReady, OwedKnown
<1> QED
  BY <1>2, <1>3, <1>4, <1>5, <1>6, <1>7, <1>8, <1>9 DEF ReadStages

\* From stage to stage.
LEMMA ReadStagesStep ==
    ASSUME ReadCalls, ReadTypes, ReadBusSide, ReadSelection, ReadStages, Next
    PROVE  ReadStages'
<1>1. CASE ReadOpens
  BY <1>1, OpensStep DEF ReadStages
<1>2. CASE ReadCut
  BY <1>2, CutStep DEF ReadStages
<1>3. CASE ReadHands
  BY <1>3, HandsStep DEF ReadStages
<1>4. CASE ReadRefused
  BY <1>4, RefusedStep DEF ReadStages
<1>5. CASE Fetches
  BY <1>5, FetchesStep DEF ReadStages
<1>6. CASE Granted
  BY <1>6, GrantedStep DEF ReadStages
<1>7. CASE Sends
  BY <1>7, SendsStep DEF ReadStages
<1>8. CASE ReadRests
  BY <1>8, RestsStep DEF ReadStages
<1> QED
  BY <1>1, <1>2, <1>3, <1>4, <1>5, <1>6, <1>7, <1>8 DEF ReadStages

-----------------------------------------------------------------------------
(* The bytes that are out. *)

\* No byte begins every response.
LEMMA NothingBegins ==
    ASSUME NEW c \in Nat
    PROVE  IsPrefix(<<>>, ResponseTo(c))
<1>1. CsrsOf(c)[1] \in Nat /\ CsrsOf(c)[3] \in Nat
  BY CsrRanges
<1>2. ResponseTo(c) \in Seq(ByteTags)
  BY <1>1, ResponseBytes
<1>3. PICK s \in Seq(ByteTags) : s = ResponseTo(c)
  BY <1>2
<1>4. PICK n \in Nat : n = 0 /\ n <= Len(s)
  BY <1>3
<1>5. IsPrefix(SubSeq(s, 1, n), s) /\ SubSeq(s, 1, n) = <<>>
  BY <1>4, Beginnings
<1> QED
  BY <1>3, <1>5

\* A transfer in which no byte is out yet.
LEMMA OutEmpty ==
    ASSUME ReadCalls, ReadTypes', out' = <<>>, ~Served' \/ xfr'.k = 0 \/ AtAck',
           xfr'.k \in Nat
    PROVE  OutAt'
<1>1. current'.plan.cmd \in Nat
  BY ReadPlanFacts DEF ReadTypes
<1>2. IsPrefix(out', Resp')
  BY <1>1, NothingBegins DEF Resp
<1>3. ~(Served' /\ xfr'.k > 0 /\ ~AtAck')
  OBVIOUS
<1> QED
  BY <1>2, <1>3 DEF OutAt

\* The first n bytes of a response.
LEMMA OutBegins ==
    ASSUME ReadCalls, ReadTypes, current' = current, NEW n \in Nat, n <= LenOf + 3,
           out' = SubSeq(Resp, 1, n), Served', xfr'.k > 0, ~AtAck',
           n = IF xfr'.over THEN LenOf + 3 ELSE Out'
    PROVE  OutAt'
<1>1. LenOf' = LenOf /\ Resp' = Resp
  BY LengthStays
<1>2. Resp \in Seq(ByteTags) /\ Len(Resp) = LenOf + 3
  BY RespFacts
<1>3. PICK s \in Seq(ByteTags) : s = Resp /\ n <= Len(s)
  BY <1>2
<1>4. IsPrefix(SubSeq(s, 1, n), s)
  BY <1>3, Beginnings
<1>5. IsPrefix(out', Resp')
  BY <1>1, <1>3, <1>4
<1>6. out' = SubSeq(Resp', 1, IF xfr'.over THEN LenOf' + 3 ELSE Out')
  BY <1>1
<1> QED
  BY <1>5, <1>6 DEF OutAt

\* A byte that is not the first of a served response is not taken from it.
LEMMA OutTick ==
    ASSUME ReadCalls, ReadTypes, ReadBusSide, OutAt, ReadReady, ReadTypes', Tick
    PROVE  OutAt'
<1>1. PICK e : Clock(e, <<>>) /\ Silent(e)
  BY ReadTickMoves
<1>2. phase' = phase /\ xfr' = xfr
  BY ReadTickMoves
<1>3. out' = out
  BY <1>1, NothingTaken, OutClock DEF Silent
<1>4. CASE TakesCommand
  <2>1. AtStart
    BY <1>4 DEF ReadReady
  <2>2. phase # "Quiet" /\ xfr.k = 0
    BY <2>1 DEF AtStart
  <2>3. out' = <<>>
    BY <1>3, <2>2 DEF OutAt
  <2> QED
    BY <1>2, <2>2, <2>3, OutEmpty
<1>5. CASE ~TakesCommand
  <2>1. current' = current
    BY <1>1, <1>5, CurrentStays
  <2>2. LenOf' = LenOf /\ Resp' = Resp
    BY <2>1, LengthStays
  <2>3. Out' = Out /\ (AtAck' <=> AtAck) /\ (Served' <=> Served)
    BY <1>2 DEF Out, AtAck, Served, IsRead
  <2> QED
    BY <1>2, <1>3, <2>2, <2>3 DEF OutAt
<1> QED
  BY <1>4, <1>5

\* At the end of a byte none is taken.
LEMMA OutByte ==
    ASSUME ReadCalls, ReadTypes, ReadBusSide, OutAt, ReadReady, ReadTypes', ReadStages, ByteEnd
    PROVE  OutAt'
<1>1. PICK e : Clock(e, <<>>) /\ Dones(e)
  BY ReadByteMoves
<1>2. /\ phase = "Byte" /\ ~xfr.over /\ phase' = "Bit"
      /\ xfr.k = 0 \/ xfr.todo # <<>> \/ IsRead
      /\ xfr'.plan = xfr.plan /\ xfr'.k = xfr.k + 1 /\ xfr'.over = xfr.over
      /\ xfr'.expected = xfr.expected
  BY ReadByteMoves
<1>3. xfr.k \in Nat /\ (Served' <=> Served)
  BY <1>2 DEF ReadTypes, Served, IsRead
<1>4. fsm \in {"RxFByte", "RxSByteRepeated", "RxPWriteData", "TxPReadData"}
  <2>1. CASE xfr.k = 0
    BY <1>2, <2>1 DEF ReadBusSide, ReadFsmAt
  <2>2. CASE xfr.k > 0
    <3>1. IsRead \/ Reading
      BY <1>2, <2>2 DEF ReadBusSide
    <3>2. xfr.plan.kind # "broadcast"
      BY <3>1 DEF IsRead, Reading
    <3> QED
      BY <1>2, <2>2, <3>2 DEF ReadBusSide, ReadFsmAt
  <2> QED
    BY <1>3, <2>1, <2>2
<1>5. ~tx_fifo_rready(e)
  <2>1. fsm = "TxPReadData" \/ fsm_next(e) \in {"CheckFByte", "CheckSByte", "RxPWriteTbit"}
    BY <1>1, <1>4, ReadFsmDones
  <2> QED
    BY <2>1 DEF tx_fifo_rready
<1>6. out' = out
  BY <1>1, <1>5, OutClock DEF Dones
<1>7. CASE xfr.k = 0
  <2>1. AtAck'
    BY <1>2, <1>7 DEF AtAck
  <2>2. out' = <<>> /\ xfr'.k \in Nat
    BY <1>2, <1>6, <1>7 DEF OutAt
  <2> QED
    BY <2>1, <2>2, OutEmpty
<1>8. CASE xfr.k > 0 /\ ~Served
  <2>1. out' = <<>> /\ xfr'.k \in Nat
    BY <1>2, <1>3, <1>6, <1>8 DEF OutAt
  <2> QED
    BY <1>3, <1>8, <2>1, OutEmpty
<1>9. CASE xfr.k > 0 /\ Served
  <2>1. ~AtStart /\ ~AtAck /\ ~Between
    BY <1>2, <1>9 DEF AtStart, AtAck, Between
  <2>2. current' = current
    BY <1>1, <2>1, CurrentStays DEF ReadReady
  <2>3. Out = xfr.k /\ Out' = xfr.k
    <3>1. Out' = xfr'.k - 1
      BY <1>2 DEF Out
    <3> QED
      BY <1>2, <1>3, <3>1 DEF Out
  <2>4. out' = SubSeq(Resp, 1, Out)
    BY <1>2, <1>6, <1>9, <2>1 DEF OutAt
  <2>5. Out \in Nat /\ Out <= LenOf + 3
    <3>1. ~Reading /\ ~xfr.over
      BY <1>2, <1>9 DEF Served, IsRead, Reading
    <3>2. Sends
      BY <1>2, <1>9, <2>1, <3>1
         DEF ReadStages, ReadOpens, ReadCut, ReadHands, ReadRefused, Fetches, Granted, ReadRests
    <3> QED
      BY <3>2, SendsFacts
  <2>6. PICK n \in Nat : n = Out /\ n <= LenOf + 3
    BY <2>5
  <2>7. xfr'.k > 0 /\ ~AtAck' /\ ~xfr'.over
    BY <1>2, <1>3, <1>9 DEF AtAck
  <2>8. n = IF xfr'.over THEN LenOf + 3 ELSE Out'
    BY <2>3, <2>6, <2>7
  <2> QED
    BY <1>3, <1>9, <2>2, <2>4, <2>6, <2>7, <2>8, OutBegins
<1> QED
  BY <1>3, <1>7, <1>8, <1>9

\* At the end of its ACK or T-bit the next one is.
LEMMA OutBit ==
    ASSUME ReadCalls, ReadTypes, ReadBusSide, ReadSelection, OutAt, ReadReady, ReadTypes',
           ReadStages, BitEnd
    PROVE  OutAt'
<1>1. PICK e : Clock(e, <<>>) /\ Dones(e)
  BY ReadBitMoves
<1>2. /\ phase = "Bit" /\ calm > 2 /\ calm \in Nat /\ phase' = "Byte" /\ calm' = 0
      /\ xfr'.plan = xfr.plan /\ xfr'.k = xfr.k
      /\ xfr.k = 1 => (xfr'.over <=> ~Acked)
      /\ xfr.k # 1 => (xfr'.over <=> IsRead /\ tx_end_xfer)
      /\ xfr'.expected = xfr.expected
  BY ReadBitMoves
<1>3. /\ xfr.k \in Nat /\ xfr.k > 0 /\ (Served' <=> Served) /\ ~AtStart /\ ~xfr.over /\ ~AtAck'
      /\ ~Between
  BY <1>2 DEF ReadTypes, ReadBusSide, Served, IsRead, AtStart, AtAck, Between
<1>4. current' = current
  BY <1>1, <1>3, CurrentStays DEF ReadReady
<1>5. CASE ~Served
  <2>1. out = <<>>
    BY <1>2, <1>5 DEF OutAt
  <2>2. ~tx_fifo_rready(e)
    <3>1. CASE AtAck
      <4>1. /\ (bus_addr.rnw <=> IsRead) /\ (addressed <=> Virtual)
            /\ (is_rsvd_byte_match <=> xfr.plan.kind = "broadcast")
        BY <1>3, ReadPlaceFacts
      <4>2. \/ fsm \in {"TxAckFByte", "TxAckSByte"} /\ Reading
            \/ fsm = "TxAckFByte" /\ xfr.plan.kind = "broadcast"
            \/ fsm = "Wait"
        BY <1>2, <1>5, <3>1 DEF ReadBusSide, ReadFsmAt
      <4>3. Reading => addressed /\ ~bus_addr.rnw
        BY <4>1 DEF Virtual, Reading, IsRead
      <4>4. fsm_next(e) \in {"RxPWriteData", "RxSByte", "Wait"}
        BY <1>1, <4>1, <4>2, <4>3, ReadFsmDones
      <4> QED
        BY <4>4 DEF tx_fifo_rready
    <3>2. CASE ~AtAck
      <4>1. fsm = "RxPWriteTbit"
        BY <1>2, <1>3, <1>5, <3>2 DEF ReadBusSide, ReadFsmAt, AtAck
      <4>2. fsm_next(e) = "RxPWriteData"
        BY <1>1, <4>1, ReadFsmDones
      <4> QED
        BY <4>2 DEF tx_fifo_rready
    <3> QED
      BY <3>1, <3>2
  <2>3. out' = <<>>
    BY <1>1, <2>1, <2>2, OutClock DEF Dones
  <2> QED
    BY <1>2, <1>3, <1>5, <2>3, OutEmpty
<1>6. CASE Served /\ AtAck
  <2>1. Granted
    <3>1. ~Reading /\ calm # 0 /\ ~(calm \in 1 .. 2)
      BY <1>2, <1>6 DEF Served, IsRead, Reading
    <3> QED
      BY <1>2, <1>3, <1>6, <3>1
         DEF ReadStages, ReadOpens, ReadCut, ReadHands, ReadRefused, Fetches, Sends, ReadRests
  <2>2. xfr.k = 1 /\ ~xfr'.over
    BY <1>2, <2>1, GrantedFacts DEF Acked
  <2>3. tx_fifo_rready(e) /\ data_byte(xmit_in(e)) = <<"len", 0, LenOf>>
    BY <1>1, <1>2, <2>1, <2>2, GrantedTakes
  <2>4. out = <<>>
    BY <1>2, <1>6 DEF OutAt
  <2>5. out' = Append(<<>>, <<"len", 0, LenOf>>)
    BY <1>1, <2>3, <2>4, OutClock DEF Dones
  <2>6. LenOf \in Nat /\ Resp \in Seq(ByteTags) /\ Len(Resp) = LenOf + 3 /\ Resp[1] = <<"len", 0, LenOf>>
    BY RespFacts
  <2>7. PICK s \in Seq(ByteTags) : s = Resp
    BY <2>6
  <2>8. PICK z \in Nat : z = 0 /\ z <= Len(s) /\ z < Len(s) /\ z + 1 = 1
    BY <2>6, <2>7
  <2>9. Append(SubSeq(s, 1, z), s[z + 1]) = SubSeq(s, 1, z + 1) /\ SubSeq(s, 1, z) = <<>>
    BY <2>8, Beginnings
  <2>10. Append(<<>>, s[1]) = SubSeq(s, 1, 1)
    BY <2>8, <2>9
  <2>11. out' = SubSeq(Resp, 1, 1)
    BY <2>5, <2>6, <2>7, <2>10
  <2>12. Out' = 1
    BY <1>2, <2>2 DEF Out
  <2>13. PICK n \in Nat : n = 1 /\ n <= LenOf + 3
    BY <2>6
  <2>14. n = IF xfr'.over THEN LenOf + 3 ELSE Out'
    BY <2>2, <2>12, <2>13
  <2>15. out' = SubSeq(Resp, 1, n) /\ xfr'.k > 0
    BY <1>2, <1>3, <2>11, <2>13
  <2> QED
    BY <1>3, <1>4, <1>6, <2>13, <2>14, <2>15, OutBegins
<1>7. CASE Served /\ ~AtAck
  <2>1. Sends
    <3>1. ~Reading
      BY <1>7 DEF Served, IsRead, Reading
    <3> QED
      BY <1>2, <1>3, <1>7, <3>1
         DEF ReadStages, ReadOpens, ReadCut, ReadHands, ReadRefused, Fetches, Granted, ReadRests
  <2>2. /\ IsRead /\ Out = xfr.k - 1 /\ xfr.k > 1 /\ LenOf \in Nat /\ Out \in Nat
        /\ Out <= LenOf + 3
    BY <1>2, <2>1, SendsFacts
  <2>3. xfr'.over <=> Out = LenOf + 3
    BY <1>2, <2>1, <2>2 DEF Sends
  <2>4. out = SubSeq(Resp, 1, Out)
    BY <1>2, <1>3, <1>7 DEF OutAt
  <2>5. CASE Out = LenOf + 3
    <3>1. ~tx_fifo_rready(e)
      BY <1>1, <1>2, <2>1, <2>3, <2>5, SendsEnds
    <3>2. out' = out
      BY <1>1, <3>1, OutClock DEF Dones
    <3>3. PICK n \in Nat : n = LenOf + 3 /\ n <= LenOf + 3
      BY <2>2
    <3>4. out' = SubSeq(Resp, 1, n) /\ n = IF xfr'.over THEN LenOf + 3 ELSE Out'
      BY <2>3, <2>4, <2>5, <3>2, <3>3
    <3>5. xfr'.k > 0
      BY <1>2, <1>3
    <3> QED
      BY <1>3, <1>4, <1>7, <3>3, <3>4, <3>5, OutBegins
  <2>6. CASE Out # LenOf + 3
    <3>1. PICK n \in Nat : n = Out /\ n < LenOf + 3
      BY <2>2, <2>6
    <3>2. tx_fifo_rready(e) /\ data_byte(xmit_in(e)) = Resp[n + 1]
      BY <1>1, <1>2, <2>1, <3>1, SendsNext, SendsByte
    <3>3. out' = Append(SubSeq(Resp, 1, n), Resp[n + 1])
      BY <1>1, <2>4, <3>1, <3>2, OutClock DEF Dones
    <3>4. Resp \in Seq(ByteTags) /\ Len(Resp) = LenOf + 3
      BY RespFacts
    <3>5. PICK s \in Seq(ByteTags) : s = Resp /\ n < Len(s) /\ n <= Len(s)
      BY <2>2, <3>1, <3>4
    <3>6. Append(SubSeq(s, 1, n), s[n + 1]) = SubSeq(s, 1, n + 1)
      BY <3>5, Beginnings
    <3>7. PICK m \in Nat : m = n + 1 /\ m <= LenOf + 3
      BY <2>2, <3>1
    <3>8. out' = SubSeq(Resp, 1, m)
      BY <3>3, <3>5, <3>6, <3>7
    <3>9. Out' = m
      <4>1. Out' = xfr'.k
        BY <1>2 DEF Out
      <4> QED
        BY <1>2, <1>3, <2>2, <3>1, <3>7, <4>1
    <3>10. xfr'.k > 0 /\ m = IF xfr'.over THEN LenOf + 3 ELSE Out'
      BY <1>2, <1>3, <2>3, <2>6, <3>9
    <3> QED
      BY <1>3, <1>4, <1>7, <3>7, <3>8, <3>10, OutBegins
  <2> QED
    BY <2>5, <2>6
<1> QED
  BY <1>5, <1>6, <1>7

\* A START begins anew, and a STOP leaves the bytes.
LEMMA OutEvents ==
    ASSUME ReadCalls, ReadTypes, ReadBusSide, OutAt, ReadReady, ReadTypes',
           START \/ RepeatedStart \/ STOP
    PROVE  OutAt'
<1>1. CASE START \/ RepeatedStart
  <2>1. PICK p : ReadBegins(p)
    BY <1>1, StartsRead
  <2>2. Clock(StartEvent, Sent) /\ xfr'.k = 0
    BY <2>1 DEF ReadBegins
  <2>3. out' = <<>>
    BY <2>2, StartsEvent, OutClock DEF Starts
  <2> QED
    BY <2>2, <2>3, OutEmpty
<1>2. CASE STOP
  <2>1. Clock(StopEvent, <<>>) /\ MayEnd /\ phase' = "Quiet" /\ xfr' = xfr
    BY <1>2 DEF STOP, StopEvent
  <2>2. fsm \in {"Wait", "RxSByte", "RxPWriteData"} /\ xfr.k > 0 /\ xfr.k \in Nat
    BY <2>1, ReadEndFacts DEF ReadTypes
  <2>3. ~tx_fifo_rready(StopEvent)
    <3>1. fsm_next(StopEvent) = "Idle"
      BY <2>2, StopsEvent, FsmStops DEF Places
    <3> QED
      BY <3>1 DEF tx_fifo_rready
  <2>4. out' = out
    BY <2>1, <2>3, StopsEvent, OutClock DEF Stops
  <2>5. current' = current
    <3>1. ~AtStart
      BY <2>2 DEF AtStart
    <3> QED
      BY <2>1, <3>1, CurrentStays DEF ReadReady
  <2>6. Resp' = Resp
    BY <2>5, LengthStays
  <2> QED
    BY <2>1, <2>4, <2>6 DEF OutAt
<1> QED
  BY <1>1, <1>2

\* The bytes that are out, in every step.
LEMMA OutStep ==
    ASSUME ReadCalls, ReadTypes, ReadBusSide, ReadSelection, OutAt, ReadReady, ReadTypes',
           ReadStages, Next
    PROVE  OutAt'
BY OutTick, OutByte, OutBit, OutEvents DEF Next

-----------------------------------------------------------------------------
(* The invariant, and the properties. *)

\* It is kept by every step.
LEMMA ReadInvNext ==
    ASSUME ReadCalls, ReadInv, Next
    PROVE  ReadInv'
<1>1. ReadTypes /\ ReadBusSide /\ ReadSelection /\ OutAt /\ ReadStages
  BY DEF ReadInv
<1>2. ReadReady /\ OwedKnown
  BY <1>1, StagesReady
<1>3. ReadTypes'
  BY <1>1, <1>2, ReadTypesStep
<1>4. ReadBusSide'
  BY <1>1, <1>2, ReadBusStep
<1>5. ReadSelection'
  BY <1>1, ReadSelectionStep
<1>6. OutAt'
  BY <1>1, <1>2, <1>3, OutStep
<1>7. ReadStages'
  BY <1>1, ReadStagesStep
<1> QED
  BY <1>3, <1>4, <1>5, <1>6, <1>7 DEF ReadInv

\* It holds initially.
LEMMA ReadInvInit ==
    ASSUME ReadCalls, Init
    PROVE  ReadInv
<1>1. /\ phase = "Quiet" /\ calm = LongGap /\ xfr = NoTransfer /\ owed = <<>>
      /\ current = NoCmd /\ out = <<>> /\ HandlerInit
  BY DEF Init
<1>2. LongGap \in Nat /\ LongGap >= 7
  BY DEF ReadCalls
<1>3. /\ xfr.plan = NoTransfer.plan /\ xfr.plan.kind = "other" /\ xfr.k = 0
      /\ xfr.todo = <<>> /\ xfr.tag = 2 /\ xfr.over = TRUE /\ xfr.expected = FALSE
  BY <1>1 DEF NoTransfer, Plan
<1>4. current.plan = NoTransfer.plan
  BY <1>1 DEF NoCmd, NoTransfer
<1>5. Between /\ ~AtAck /\ ~Reading /\ ~IsRead /\ ~Virtual /\ ~Checked
  BY <1>1, <1>3 DEF Between, AtAck, Reading, IsRead, Virtual, Checked
<1>6. ReadTypes
  <2>1. xfr = [plan |-> xfr.plan, tag |-> xfr.tag, todo |-> xfr.todo, k |-> xfr.k,
               over |-> xfr.over, expected |-> xfr.expected]
    BY <1>1 DEF NoTransfer
  <2>2. virtual_sel = FALSE /\ xfer_in_progress = FALSE /\ mode_enter = 2
    BY <1>1 DEF HandlerInit
  <2>3. DOMAIN hdr = {"cmd", "lsb", "msb", "pec"}
    BY <1>1 DEF HandlerInit, ReceiverInit
  <2>4. calm \in 0 .. LongGap
    BY <1>1, <1>2
  <2>5. xfr.plan \in AllPlans /\ current.plan \in AllPlans
    BY <1>3, <1>4 DEF AllPlans
  <2>6. xfr.tag \in {1, 2} /\ xfr.k \in Nat
    BY <1>3
  <2>9. xfr.over \in BOOLEAN
    BY <1>3
  <2>10. xfr.expected \in BOOLEAN
    BY <1>3
  <2>7. phase \in {"Quiet", "Byte", "Bit"}
    BY <1>1
  <2>8. mode_enter \in 0 .. 2
    BY <2>2
  <2>11. virtual_sel \in BOOLEAN
    BY <2>2
  <2>12. xfer_in_progress \in BOOLEAN
    BY <2>2
  <2> QED
    BY ONLY <2>1, <2>3, <2>4, <2>5, <2>6, <2>7, <2>8, <2>9, <2>10, <2>11, <2>12
       DEF ReadTypes
<1>7. ReadBusSide
  <2>1. ReadFsmAt
    BY <1>1, <1>3, <1>5 DEF ReadFsmAt, HandlerInit, FsmInit
  <2>2. rx_valid = FALSE /\ parity_err = FALSE
    BY <1>1 DEF HandlerInit
  <2> QED
    BY <1>1, <1>3, <1>5, <2>1, <2>2 DEF ReadBusSide
<1>8. ReadSelection
  <2>1. virtual_sel = FALSE /\ xfer_in_progress = FALSE /\ mode_enter = 2
    BY <1>1 DEF HandlerInit
  <2> QED
    BY <1>5, <2>1 DEF ReadSelection
<1>9. OutAt
  <2>1. current.plan.cmd \in Nat
    BY <1>4 DEF NoTransfer, Plan
  <2> QED
    BY <1>1, <2>1, NothingBegins DEF OutAt, Resp
<1>10. ReadRests
  <2>1. ExecOff
    BY <1>1 DEF HandlerInit, ExecutorInit, ReceiverInit, NoCommand, ExecOff
  <2>2. SendOff
    BY <1>1 DEF HandlerInit, TransmitterInit, DescriptorTxInit, SendOff, TxdOff
  <2>3. recv = "Idle" /\ queue_select = TRUE /\ bus_start_r = FALSE
    BY <1>1 DEF HandlerInit, ReceiverInit
  <2> QED
    BY <1>1, <1>5, <2>1, <2>2, <2>3 DEF ReadRests
<1> QED
  BY <1>6, <1>7, <1>8, <1>9, <1>10 DEF ReadInv, ReadStages

\* A stuttering step, the variables that Unchanged does not name.
LEMMA UnchangedToo ==
    ASSUME UNCHANGED vars
    PROVE  /\ out' = out /\ bus_start_r' = bus_start_r
           /\ bcnt' = bcnt /\ csr_length' = csr_length /\ csr_data' = csr_data
           /\ res_valid' = res_valid /\ res_dlast' = res_dlast
           /\ xmit' = xmit /\ len_q' = len_q /\ tx_crc' = tx_crc
           /\ descriptor_valid' = descriptor_valid /\ data_len' = data_len
           /\ tx_pending' = tx_pending /\ byte_counter' = byte_counter
           /\ tx_flush' = tx_flush /\ tx_end_xfer' = tx_end_xfer
BY DEF vars, busVars, allVars, recvVars, execVars, xmitVars, txdVars, handlerVars

\* The invariant holds after a stuttering step.
LEMMA ReadInvStutter ==
    ASSUME ReadInv, UNCHANGED vars
    PROVE  ReadInv'
<1>1. ReadTypes'
  BY Unchanged DEF ReadInv, ReadTypes
<1>2. /\ (Between' <=> Between) /\ (AtAck' <=> AtAck) /\ (Reading' <=> Reading)
      /\ (IsRead' <=> IsRead) /\ (Virtual' <=> Virtual) /\ (Checked' <=> Checked)
      /\ (Served' <=> Served) /\ (AtStart' <=> AtStart)
  BY Unchanged DEF Between, AtAck, Reading, IsRead, Virtual, Checked, Served, AtStart
<1>3. /\ LenOf' = LenOf /\ FirstOf' = FirstOf /\ Resp' = Resp /\ Out' = Out
      /\ ToAsk' = ToAsk /\ ByteNow' = ByteNow
  <2>1. LenOf' = LenOf /\ FirstOf' = FirstOf /\ Resp' = Resp
    BY Unchanged, LengthStays
  <2>2. Out' = Out
    BY Unchanged DEF Out
  <2>3. ToAsk' = ToAsk /\ ByteNow' = ByteNow
    BY Unchanged DEF ToAsk, ByteNow
  <2> QED
    BY <2>1, <2>2, <2>3
<1>4. /\ (ExecOff' <=> ExecOff) /\ (TxdOff' <=> TxdOff) /\ (SendOff' <=> SendOff)
      /\ (Held' <=> Held)
  BY Unchanged, UnchangedToo DEF ExecOff, TxdOff, SendOff, Held
<1>5. /\ (InHand' <=> InHand) /\ (AtFirst' <=> AtFirst) /\ (Loaded' <=> Loaded)
      /\ (Carries' <=> Carries) /\ DataOut' = DataOut /\ (JustTaken' <=> JustTaken)
  <2>1. InHand' <=> InHand
    BY <1>4, Unchanged, UnchangedToo DEF InHand
  <2>2. AtFirst' <=> AtFirst
    BY <1>3, Unchanged, UnchangedToo DEF AtFirst
  <2>3. Loaded' <=> Loaded
    BY <1>3, <2>2, Unchanged, UnchangedToo DEF Loaded
  <2>4. Carries' <=> Carries
    BY <1>2, Unchanged DEF Carries
  <2>5. DataOut' = DataOut
    BY <1>3 DEF DataOut
  <2>6. JustTaken' <=> JustTaken
    BY Unchanged DEF JustTaken
  <2> QED
    BY <2>1, <2>2, <2>3, <2>4, <2>5, <2>6
<1>6. ReadBusSide'
  <2>1. ReadFsmAt'
    BY <1>2, <1>3, Unchanged DEF ReadInv, ReadBusSide, ReadFsmAt
  <2> QED
    BY <1>2, <1>3, <2>1, Unchanged DEF ReadInv, ReadBusSide
<1>7. ReadSelection'
  BY <1>2, Unchanged DEF ReadInv, ReadSelection
<1>8. OutAt'
  BY <1>2, <1>3, Unchanged, UnchangedToo DEF ReadInv, OutAt
<1>9. ASSUME ReadOpens PROVE ReadOpens'
  BY <1>2, <1>4, <1>9, Unchanged, UnchangedToo DEF ReadOpens
<1>10. ASSUME ReadCut PROVE ReadCut'
  <2>1. Got' = Got
    BY Unchanged DEF Got
  <2> QED
    BY <1>2, <1>4, <1>10, <2>1, Unchanged, UnchangedToo DEF ReadCut
<1>11. ASSUME ReadHands PROVE ReadHands'
  <2>1. PICK p \in AllPlans, tag \in {1, 2} :
           /\ owed = <<[plan |-> p, tag |-> tag]>> /\ p.kind = "read"
           /\ xfr.expected = (p.good /\ Allowed(p))
           /\ hdr.cmd = [f |-> tag, k |-> 2, v |-> p.cmd] /\ pec_calc = Crc(tag, 2)
           /\ IF calm = 0 THEN hdr.lsb = PecOf(p, tag)
              ELSE hdr.pec = PecOf(p, tag) /\ recv_is_rd
           /\ calm = 3 => /\ exec_cmd.is_rd /\ exec_cmd.cmd = p.cmd
                          /\ exec_cmd.error = ~p.good
    BY <1>11 DEF ReadHands
  <2>2. /\ owed' = <<[plan |-> p, tag |-> tag]>> /\ p.kind = "read"
        /\ hdr'.cmd = [f |-> tag, k |-> 2, v |-> p.cmd] /\ pec_calc' = Crc(tag, 2)
        /\ IF calm' = 0 THEN hdr'.lsb = PecOf(p, tag)
           ELSE hdr'.pec = PecOf(p, tag) /\ recv_is_rd'
    BY <2>1, Unchanged
  <2>3. xfr'.expected = (p.good /\ Allowed(p))
    BY <2>1, Unchanged
  <2>4. calm' = 3 => /\ exec_cmd'.is_rd /\ exec_cmd'.cmd = p.cmd
                     /\ exec_cmd'.error = ~p.good
    BY <2>1, Unchanged
  <2>5. /\ AtStart' /\ calm' <= 3
        /\ exec' = "Idle" /\ ~res_valid' /\ SendOff' /\ Held' /\ tx_crc' = 0
        /\ queue_select' /\ ~bus_start_r'
        /\ recv' = IF calm' = 0 THEN "CmdIsRd" ELSE IF calm' = 1 THEN "Cmd" ELSE "Busy"
        /\ recv_cmd_valid' <=> (calm' = 2)
        /\ exec_pending' <=> (calm' = 3)
        /\ exec_cmd'.valid <=> (calm' = 3)
    BY <1>2, <1>4, <1>11, Unchanged, UnchangedToo DEF ReadHands
  <2> QED
    BY <2>2, <2>3, <2>4, <2>5 DEF ReadHands
<1>12. ASSUME ReadRefused PROVE ReadRefused'
  BY <1>2, <1>4, <1>5, <1>12, Unchanged, UnchangedToo DEF ReadRefused
<1>13. ASSUME Fetches PROVE Fetches'
  BY <1>2, <1>3, <1>4, <1>5, <1>13, Unchanged, UnchangedToo DEF Fetches
<1>14. ASSUME Granted PROVE Granted'
  BY <1>2, <1>3, <1>5, <1>14, Unchanged, UnchangedToo DEF Granted
<1>15. ASSUME Sends PROVE Sends'
  <2>1. SendsCsrs => SendsCsrs'
    BY <1>3, <1>5, Unchanged, UnchangedToo DEF SendsCsrs
  <2>2. AfterCsrs => AfterCsrs'
    BY <1>3, <1>5, Unchanged DEF AfterCsrs
  <2> QED
    BY <1>2, <1>3, <1>4, <1>5, <1>15, <2>1, <2>2, Unchanged, UnchangedToo DEF Sends
<1>16. ASSUME ReadRests PROVE ReadRests'
  BY <1>2, <1>4, <1>16, Unchanged, UnchangedToo DEF ReadRests
<1> QED
  BY <1>1, <1>6, <1>7, <1>8, <1>9, <1>10, <1>11, <1>12, <1>13, <1>14, <1>15, <1>16
     DEF ReadInv, ReadStages

\* Where the target FSM is while the bytes of a response go out.
LEMMA Answering ==
    ASSUME ReadCalls, ReadInv, IsRead, phase = "Byte", xfr.k > 0
    PROVE  \/ fsm = "Wait" /\ xfr.over = TRUE /\ xfr.k = 1 /\ xfr.expected = FALSE
           \/ fsm = "TxPReadData" /\ xfr.over = FALSE /\ Served /\ xfr.k = Out
              /\ xfr.k <= LenOf + 3
           \/ fsm = "Wait" /\ xfr.over = TRUE /\ xfr.k = LenOf + 4 /\ Served
<1>1. ReadTypes /\ ReadBusSide /\ ReadStages
  BY DEF ReadInv
<1>2. ~Reading /\ xfr.plan.kind # "broadcast"
  BY DEF IsRead, Reading
<1>3. xfr.over \in BOOLEAN /\ xfr.expected \in BOOLEAN
  BY <1>1 DEF ReadTypes
<1>4. \/ fsm = "Wait" /\ xfr.over /\ xfr.k = 1 /\ ~Served
      \/ fsm = "TxPReadData" /\ ~xfr.over /\ Served
      \/ fsm = "Wait" /\ xfr.over /\ xfr.k = LenOf + 4 /\ Served
  BY <1>1, <1>2 DEF ReadBusSide, ReadFsmAt
<1>5. ~Served => xfr.expected = FALSE
  BY <1>3 DEF Served
<1>6. ASSUME ~xfr.over, Served PROVE xfr.k = Out /\ xfr.k <= LenOf + 3
  <2>1. ~AtStart /\ ~AtAck /\ ~Between
    BY <1>1 DEF AtStart, AtAck, Between, ReadTypes
  <2>2. Sends
    BY <1>1, <1>2, <1>6, <2>1
       DEF ReadStages, ReadOpens, ReadCut, ReadHands, ReadRefused, Fetches, Granted, ReadRests
  <2> QED
    BY <1>1, <2>2, SendsFacts
<1> QED
  BY <1>3, <1>4, <1>5, <1>6

\* What is out is the beginning of the response, and the response is over when
\* all of it is.
LEMMA WholeHolds ==
    ASSUME ReadCalls, ReadInv
    PROVE  ResponseWhole
<1>1. ReadTypes /\ OutAt
  BY DEF ReadInv
<1>2. LenOf \in Nat /\ Resp \in Seq(ByteTags) /\ Len(Resp) = LenOf + 3
  BY <1>1, RespFacts
<1>3. PICK s \in Seq(ByteTags), n \in Nat : s = Resp /\ n = LenOf + 3 /\ n = Len(s)
  BY <1>2
<1>4. ASSUME IsRead, phase = "Byte", xfr.k > 1
      PROVE  xfr.over = (SubSeq(out, 1, xfr.k - 1) = Resp)
  <2>1. ~AtAck /\ xfr.k \in Nat /\ xfr.k # 1 /\ xfr.k > 0
    BY <1>1, <1>4 DEF AtAck, ReadTypes
  <2>2. PICK m \in Nat : m + 1 = xfr.k /\ m = xfr.k - 1
    BY <1>4, <2>1
  <2>3. \/ xfr.over = FALSE /\ Served /\ xfr.k = Out /\ xfr.k <= LenOf + 3
        \/ xfr.over = TRUE /\ xfr.k = LenOf + 4 /\ Served
    BY <1>4, <2>1, Answering
  <2>4. CASE xfr.over = FALSE
    <3>1. out = SubSeq(s, 1, m + 1) /\ m + 1 <= n /\ m < Len(s) /\ m <= m + 1
      <4>1. xfr.k = Out /\ Served /\ xfr.k <= LenOf + 3 /\ ~xfr.over
        BY <2>3, <2>4
      <4>2. out = SubSeq(Resp, 1, Out)
        BY <1>1, <1>4, <2>1, <4>1 DEF OutAt
      <4> QED
        BY <1>3, <2>2, <4>1, <4>2
    <3>2. PICK t \in Seq(ByteTags) : t = out /\ Len(t) = m + 1
      <4>1. PICK z \in Nat : z = m + 1 /\ z <= Len(s)
        BY <1>3, <3>1
      <4>2. SubSeq(s, 1, z) \in Seq(ByteTags) /\ Len(SubSeq(s, 1, z)) = z
        BY <4>1, Beginnings
      <4> QED
        BY <3>1, <4>1, <4>2
    <3>3. Len(SubSeq(t, 1, m)) = m
      BY <3>2, Beginnings
    <3>4. SubSeq(t, 1, m) # s
      BY <3>1, <3>3
    <3>5. SubSeq(out, 1, xfr.k - 1) # Resp
      BY <1>3, <2>2, <3>2, <3>4
    <3> QED
      BY <2>4, <3>5
  <2>5. CASE xfr.over = TRUE
    <3>1. out = SubSeq(s, 1, n) /\ m = n
      <4>1. xfr.k = LenOf + 4 /\ Served /\ xfr.over
        BY <2>3, <2>5
      <4>2. out = SubSeq(Resp, 1, LenOf + 3)
        BY <1>1, <1>4, <2>1, <4>1 DEF OutAt
      <4> QED
        BY <1>2, <1>3, <2>2, <4>1, <4>2
    <3>2. SubSeq(s, 1, n) = s
      BY <1>3, Beginnings
    <3>3. SubSeq(out, 1, xfr.k - 1) = Resp
      BY <1>3, <2>2, <3>1, <3>2
    <3> QED
      BY <2>5, <3>3
  <2> QED
    BY <2>3, <2>4, <2>5
<1>5. IsPrefix(out, Resp)
  BY <1>1 DEF OutAt
<1> QED
  BY <1>4, <1>5 DEF ResponseWhole, Resp

\* The header of a response is acknowledged exactly if a response is due.
LEMMA AnsweredHolds ==
    ASSUME ReadCalls, ReadInv
    PROVE  ReadAnswered
<1> SUFFICES ASSUME IsRead, phase = "Byte", xfr.k = 1
             PROVE  xfr.over = ~xfr.expected
  BY DEF ReadAnswered
<1>1. ReadTypes
  BY DEF ReadInv
<1>2. xfr.over \in BOOLEAN /\ xfr.expected \in BOOLEAN /\ LenOf \in Nat
  BY <1>1, RespFacts DEF ReadTypes
<1>3. \/ xfr.over = TRUE /\ xfr.expected = FALSE
      \/ xfr.over = FALSE /\ xfr.expected
  <2>1. xfr.k > 0 /\ xfr.k # LenOf + 4
    BY <1>2
  <2>2. \/ xfr.over = TRUE /\ xfr.expected = FALSE
        \/ xfr.over = FALSE /\ Served
    BY <2>1, Answering
  <2> QED
    BY <2>2 DEF Served
<1>4. xfr.over <=> ~xfr.expected
  BY <1>3
<1> QED
  BY <1>2, <1>4

\* Receiver, executor, transmitter and descriptor_tx are where the read on the
\* bus puts them, for every set of read commands, responses and transfers to
\* others, known codes and unknown ones, and both modes.
THEOREM ReadsInvariance ==
    ASSUME ReadCalls
    PROVE  Spec => []ReadInv
<1>1. Init => ReadInv
  BY ReadInvInit
<1>2. ReadInv /\ [Next]_vars => ReadInv'
  BY ReadInvNext, ReadInvStutter
<1> QED
  BY <1>1, <1>2, PTL DEF Spec

\* The bytes that the controller reads are those of the response to its command,
\* in order, and the target ends the read with the last of them, neither sooner
\* nor later.
THEOREM ResponsesWhole ==
    ASSUME ReadCalls
    PROVE  Spec => []ResponseWhole
<1>1. ReadInv => ResponseWhole
  BY WholeHolds
<1> QED
  BY <1>1, ReadsInvariance, PTL

\* The read of a response is acknowledged if a good and allowed read command
\* came just before it, and refused otherwise.
THEOREM ReadsAnswered ==
    ASSUME ReadCalls
    PROVE  Spec => []ReadAnswered
<1>1. ReadInv => ReadAnswered
  BY AnsweredHolds
<1> QED
  BY <1>1, ReadsInvariance, PTL
=============================================================================
