----------------------- MODULE RecoveryTransferProofs -----------------------
(***************************************************************************)
(* Theorems about RecoveryTransfer.  The first part proves NoStrayDescriptor*)
(* for every controller: whatever it sends, in whatever rhythm, and with   *)
(* all the habits of RecoveryTransfer.  The second part proves             *)
(* ExactlyTheCommands, PayloadIsOwn, WritesJustified and NormalBypass for   *)
(* the controllers of WriteCalls, which send writes only, by an invariant  *)
(* that says for every place in a transfer how far receiver, executor and  *)
(* queue have come.                                                        *)
(***************************************************************************)
EXTENDS RecoveryTransfer, SequenceTheorems, TLAPS

(* Every controller: the selection stands as long as the transfer.         *)

\* The states in which the target has checked a header that names it.
Serving == {"TxAckFByte", "TxAckSByte", "RxPWriteData", "RxPWriteTbit",
            "TxPReadData", "TxPReadTbit"}

\* The selection of the virtual target and the mark of its transfer stand as
\* long as the target serves the header that made them, and one clock longer,
\* for the last byte.
Selected == xfer_in_progress /\ virtual_sel

HeaderInv ==
    /\ fsm \in FsmStates
    /\ fsm \in Serving =>
          /\ addressed \/ (fsm = "TxAckFByte" /\ is_rsvd_byte_match)
          /\ bus_addr.addr = "virtual" => Selected
    /\ last_q =>
          /\ bus_addr.addr \in {"ours", "virtual"}
          /\ bus_addr.addr = "virtual" => Selected

-----------------------------------------------------------------------------
LEMMA HeaderInit == Init => HeaderInv
BY DEF Init, HandlerInit, FsmInit, FsmStates, HeaderInv, Serving

\* Where a step of the target FSM leads: the states of a transfer are entered
\* only from one another or from the check of a header.
LEMMA FsmMoves ==
    ASSUME NEW i, fsm \in FsmStates
    PROVE  /\ state_d(i) \in FsmStates
           /\ state_d(i) \in Serving =>
                \/ fsm \in Serving \ {"TxAckFByte"}
                \/ fsm = "TxAckFByte" /\ (state_d(i) = fsm \/ addressed)
                \/ fsm \in {"CheckFByte", "CheckSByte"} /\ addressed
                \/ /\ fsm = "CheckFByte" /\ state_d(i) = "TxAckFByte"
                   /\ is_rsvd_byte_match
<1> DEFINE Fine(s) ==
       /\ s \in FsmStates
       /\ s \in Serving =>
             \/ fsm \in Serving \ {"TxAckFByte"}
             \/ fsm = "TxAckFByte" /\ (s = fsm \/ addressed)
             \/ fsm \in {"CheckFByte", "CheckSByte"} /\ addressed
             \/ fsm = "CheckFByte" /\ s = "TxAckFByte" /\ is_rsvd_byte_match
<1>1. CASE fsm \in {"CheckFByte", "TxAckFByte", "RxSByte", "RxSByteRepeated",
                   "CheckSByte", "TxAckSByte"}
  <2>1. Transition(i) = OnHeader(i)
    BY <1>1 DEF Transition
  <2>2. Fine(OnHeader(i))
    BY <1>1 DEF OnHeader, DataLoop, Serving, FsmStates
  <2> QED
    BY <2>1, <2>2 DEF state_d, Serving, FsmStates
<1>2. CASE fsm \in {"RxPWriteData", "RxPWriteTbit", "TxPReadData", "TxPReadTbit"}
  <2>1. Transition(i) = OnData(i)
    BY <1>2 DEF Transition
  <2>2. Fine(OnData(i))
    BY <1>2 DEF OnData, Serving, FsmStates
  <2> QED
    BY <2>1, <2>2 DEF state_d, Serving, FsmStates
<1>3. CASE fsm \in {"Idle", "RxFByte", "Wait", "DoIBI", "DoneIBI", "DoCCC",
                   "DoneCCC", "DoRstAction", "HDRMode", "WaitHDRExitOrIdle"}
  <2>1. Transition(i) = OnControl(i)
    BY <1>3 DEF Transition
  <2>2. OnControl(i) \in FsmStates \ Serving
    BY <1>3 DEF OnControl, Serving, FsmStates
  <2> QED
    BY <2>1, <2>2 DEF state_d, Serving, FsmStates
<1> QED
  BY <1>1, <1>2, <1>3 DEF FsmStates

\* One clock of the handler, with any events on the bus.
LEMMA HandlerKeeps ==
    ASSUME NEW e, HeaderInv, Handler(e)
    PROVE  HeaderInv'
<1> DEFINE i == fsm_in(e)
<1>1. /\ fsm' = state_d(i)
      /\ bus_addr' = IF fsm \in {"RxFByte", "RxSByte", "RxSByteRepeated"} /\ i.rx_done
                     THEN i.rx_data
                     ELSE IF fsm = "Idle" THEN NoHeader ELSE bus_addr
      /\ xfer_in_progress' = CASE fsm = "Idle" -> FALSE
                               [] checks_header -> addressed
                               [] OTHER -> xfer_in_progress
      /\ virtual_sel' = IF checks_header /\ ~is_rsvd_byte_match
                        THEN bus_addr.addr = "virtual" ELSE virtual_sel
      /\ last_q' = rx_byte_last(e)
  BY DEF Handler, FsmStep, Matcher, Latches, XferLatch
<1> HIDE DEF i
\* Only these states lead to the states of a transfer.
<1>2. ASSUME fsm' \in Serving
      PROVE  \/ fsm \in Serving \ {"TxAckFByte"}
             \/ fsm = "TxAckFByte" /\ (fsm' = fsm \/ addressed)
             \/ fsm \in {"CheckFByte", "CheckSByte"} /\ addressed
             \/ fsm = "CheckFByte" /\ fsm' = "TxAckFByte" /\ is_rsvd_byte_match
  <2>1. fsm \in FsmStates
    BY DEF HeaderInv
  <2> QED
    BY <1>1, <1>2, <2>1, FsmMoves
<1>3. ASSUME fsm \in Serving
      PROVE  /\ bus_addr' = bus_addr /\ xfer_in_progress' = xfer_in_progress
             /\ virtual_sel' = virtual_sel
  BY <1>1, <1>3 DEF Serving, checks_header
<1>4. ASSUME fsm \in {"CheckFByte", "CheckSByte"}, addressed
      PROVE  /\ bus_addr' = bus_addr /\ addressed'
             /\ bus_addr.addr = "virtual" => Selected'
  <2>1. bus_addr' = bus_addr /\ addressed'
    BY <1>1, <1>4 DEF addressed
  <2>2. checks_header /\ ~is_rsvd_byte_match /\ fsm # "Idle"
    BY <1>4 DEF checks_header, addressed, is_rsvd_byte_match, Broadcast
  <2>3. xfer_in_progress' = addressed /\ virtual_sel' = (bus_addr.addr = "virtual")
    BY <1>1, <2>2, Zenon
  <2> QED
    BY <1>4, <2>1, <2>3 DEF Selected
<1>5. ASSUME fsm = "CheckFByte", is_rsvd_byte_match
      PROVE  is_rsvd_byte_match' /\ bus_addr'.addr # "virtual"
  BY <1>1, <1>5 DEF is_rsvd_byte_match, Broadcast
<1>6. fsm' \in Serving =>
          /\ addressed' \/ (fsm' = "TxAckFByte" /\ is_rsvd_byte_match')
          /\ bus_addr'.addr = "virtual" => Selected'
  <2> SUFFICES ASSUME fsm' \in Serving
               PROVE  /\ addressed' \/ (fsm' = "TxAckFByte" /\ is_rsvd_byte_match')
                      /\ bus_addr'.addr = "virtual" => Selected'
    OBVIOUS
  <2>1. CASE fsm \in Serving
    BY <1>2, <1>3, <2>1
       DEF HeaderInv, addressed, is_rsvd_byte_match, Selected, Serving
  <2>2. CASE fsm \in {"CheckFByte", "CheckSByte"} /\ addressed
    BY <1>4, <2>2
  <2>3. CASE fsm = "CheckFByte" /\ fsm' = "TxAckFByte" /\ is_rsvd_byte_match
    BY <1>5, <2>3
  <2> QED
    BY <1>2, <2>1, <2>2, <2>3 DEF Serving
<1>7. last_q' =>
          /\ bus_addr'.addr \in {"ours", "virtual"}
          /\ bus_addr'.addr = "virtual" => Selected'
  <2> SUFFICES ASSUME fsm = "RxPWriteData"
               PROVE  /\ bus_addr'.addr \in {"ours", "virtual"}
                      /\ bus_addr'.addr = "virtual" => Selected'
    BY <1>1 DEF rx_byte_last
  <2> QED
    BY <1>3 DEF HeaderInv, Serving, addressed, Selected
<1>8. fsm' \in FsmStates
  BY <1>1, FsmMoves DEF HeaderInv
<1> QED
  BY <1>6, <1>7, <1>8 DEF HeaderInv

\* Every action is a clock.
LEMMA NextIsHandler == Next => \E e : Handler(e)
<1>1. ASSUME NEW e, NEW sent, Clock(e, sent) PROVE \E x : Handler(x)
  BY <1>1 DEF Clock
<1> QED
  BY <1>1 DEF Next, Tick, START, ByteEnd, BitEnd, RepeatedStart, STOP

LEMMA HeaderStep == HeaderInv /\ [Next]_vars => HeaderInv'
<1>1. HeaderInv /\ Next => HeaderInv'
  BY NextIsHandler, HandlerKeeps
<1>2. HeaderInv /\ UNCHANGED vars => HeaderInv'
  BY DEF HeaderInv, vars, allVars, fsmVars, handlerVars, addressed,
         is_rsvd_byte_match, Selected
<1> QED
  BY <1>1, <1>2

-----------------------------------------------------------------------------
\* The mark of a transfer agrees with the header that the target serves.
THEOREM HeaderInvariance == Spec => []HeaderInv
BY HeaderInit, HeaderStep, PTL DEF Spec

\* A descriptor of a recovery transfer never reaches software: the transfer is
\* still marked in the clock in which its end is reported.
THEOREM DescriptorsOwn == Spec => []NoStrayDescriptor
<1>1. HeaderInv => NoStrayDescriptor
  BY DEF HeaderInv, NoStrayDescriptor, recovery_pending, Selected
<1> QED
  BY <1>1, HeaderInvariance, PTL

-----------------------------------------------------------------------------
(* Controllers that send only writes: recovery commands to the virtual      *)
(* target, private writes to the target, and transfers to others.  First   *)
(* the inductive invariant.                                                *)

\* The controllers: complete writes whose payload the queue can hold, messages
\* to the target of at most a word, and bytes that take longer on the bus than
\* the executor takes for the words of a full queue.
WriteCalls ==
    /\ Habits = {}
    /\ ShortGap \in Nat /\ ShortGap >= 5
    /\ LongGap \in Nat /\ LongGap >= ShortGap
    /\ RxDepth \in Nat /\ RxDepth >= 1 /\ 4 * RxDepth < 65536
    /\ ShortGap + LongGap >= 3 * RxDepth + 5
    /\ \A p \in Plans :
          /\ p.kind \in {"own", "write", "other", "broadcast"}
          /\ p.cmd \in Nat /\ p.n \in Nat /\ p.good \in BOOLEAN
          /\ p.kind = "own" => p.n <= 4
          /\ p.kind = "write" => p.cmd # OwnData /\ p.n >= 1 /\ p.n <= 4 * RxDepth

-----------------------------------------------------------------------------
(* The bus. *)

AllPlans == Plans \union {NoTransfer.plan}
Writing == xfr.plan.kind = "write"
ForUs == xfr.plan.kind \in {"own", "write"}
N == xfr.plan.n

\* The bytes of a transfer, by their places.
Size(p) == CASE p.kind = "write" -> p.n + 4
             [] p.kind = "own" -> p.n
             [] OTHER -> 0
ValueOf(p) == IF p.good THEN p.cmd ELSE 1
ByteAt(p, tag, j) ==
    IF p.kind = "own" THEN OwnData
    ELSE IF j = 1 THEN p.cmd
    ELSE IF j = 2 THEN p.n % 256
    ELSE IF j = 3 THEN p.n \div 256
    ELSE IF j = p.n + 4 THEN IF p.good THEN Crc(tag, p.n + 4) ELSE BadPec
    ELSE ValueOf(p)
SentBytes == IF xfr.k = 0 THEN 0 ELSE xfr.k - 1

\* The places: outside a transfer or in its first byte, and the answer to its
\* header.
Between == phase = "Quiet" \/ xfr.k = 0
AtAck == phase = "Bit" /\ xfr.k = 1
\* The header has been checked.
Checked == ~Between /\ (AtAck => calm > 0)
\* The last byte of a command is through.
Fin == Writing /\ phase = "Byte" /\ xfr.k = N + 5

Byte == [f : Nat, k : Nat, v : Nat]
BusTypes ==
    /\ phase \in {"Quiet", "Byte", "Bit"} /\ calm \in 0 .. LongGap
    /\ xfr \in [plan : AllPlans, tag : {1, 2}, todo : Seq(Nat), k : Nat,
                over : BOOLEAN, expected : BOOLEAN]
    /\ last_byte \in Byte

HandlerTypes ==
    /\ hdr \in [cmd : Byte, lsb : Nat, msb : Nat, pec : Nat]
    /\ payload_left \in Nat /\ payload_left < 65536
    /\ conv \in [bytes : Seq(Byte), full : BOOLEAN] /\ rx_queue \in Seq(Seq(Byte))
    /\ virtual_sel \in BOOLEAN /\ xfer_in_progress \in BOOLEAN /\ mode_enter \in 0 .. 2

FsmAt ==
    /\ phase = "Quiet" => fsm = "Idle"
    /\ phase = "Byte" /\ xfr.k = 0 => fsm \in {"RxFByte", "RxSByteRepeated"}
    /\ AtAck /\ calm = 0 => fsm \in {"CheckFByte", "CheckSByte"}
    /\ AtAck /\ calm > 0 =>
          \/ fsm \in {"TxAckFByte", "TxAckSByte"} /\ ForUs
          \/ fsm = "TxAckFByte" /\ xfr.plan.kind = "broadcast"
          \/ fsm = "Wait" /\ ~ForUs
    /\ phase = "Bit" /\ xfr.k > 1 => fsm = "RxPWriteTbit"
    /\ phase = "Byte" /\ xfr.k > 0 =>
          \/ fsm = "Wait" /\ xfr.over /\ xfr.k = 1 /\ ~ForUs
          \/ fsm = "RxSByte" /\ ~xfr.over /\ xfr.k = 1 /\ xfr.plan.kind = "broadcast"
          \/ fsm = "RxPWriteData" /\ ~xfr.over /\ ForUs

\* The controller and the target FSM are at the same place.
BusSide ==
    /\ FsmAt
    /\ ~Between => bus_addr = HeaderOf(xfr.plan)
    /\ phase = "Bit" => xfr.k > 0
    /\ phase # "Quiet" /\ xfr.k > 1 => ForUs
    /\ phase = "Bit" \/ (phase = "Byte" /\ xfr.k = 0) => ~xfr.over
    /\ xfr.k <= Size(xfr.plan) + 1
    /\ Len(xfr.todo) = Size(xfr.plan) - SentBytes
    /\ \A j \in 1 .. Len(xfr.todo) :
          xfr.todo[j] = ByteAt(xfr.plan, xfr.tag, SentBytes + j)
    /\ ~Between =>
          last_byte = [f |-> xfr.tag, k |-> xfr.k,
                       v |-> IF xfr.k = 1 THEN 0
                             ELSE ByteAt(xfr.plan, xfr.tag, xfr.k - 1)]
    /\ rx_valid <=> (phase = "Byte" /\ xfr.k > 1 /\ calm = 0)
    /\ ~parity_err
    /\ last_q => calm = 0 /\ Between

\* Who is selected.
Selection ==
    /\ Checked /\ Writing => virtual_sel /\ xfer_in_progress
    /\ Checked /\ ~Writing => ~(virtual_sel /\ xfer_in_progress)
    /\ phase = "Quiet" /\ calm > 0 => ~xfer_in_progress
    /\ ~(AtAck /\ calm \in 1 .. 2) => mode_enter = IF virtual_sel THEN 0 ELSE 2
    /\ AtAck /\ calm = 2 => IF virtual_sel THEN mode_enter < 2 ELSE mode_enter = 2

-----------------------------------------------------------------------------
(* The command. *)

PayByte(p, tag, j) == [f |-> tag, k |-> 4 + j, v |-> ValueOf(p)]
\* Word i of the payload, from 0.
WordLen(p, i) == Min2(4, p.n - 4 * i)
WordOf(p, tag, i) == [j \in 1 .. WordLen(p, i) |-> PayByte(p, tag, 4 * i + j)]

PortIdle == port = [rready |-> FALSE, ack |-> <<>>]
ExecIdle == /\ exec = "Idle" /\ ~exec_pending /\ ~exec_cmd.valid /\ ~rreq
            /\ ~recv_cmd_valid /\ ~recv_is_rd

\* pay bytes of the payload have arrived, in the queue and in the converter.
Stored(pay) ==
    LET q == Len(rx_queue)
    IN  /\ \A i \in 1 .. q : rx_queue[i] = WordOf(xfr.plan, xfr.tag, i - 1)
        /\ 4 * q <= N
        /\ Len(conv.bytes) = pay - 4 * q /\ Len(conv.bytes) <= 4
        /\ \A j \in 1 .. Len(conv.bytes) :
              conv.bytes[j] = PayByte(xfr.plan, xfr.tag, 4 * q + j)

\* The bytes of the command that the receiver has cut.
Got == CASE xfr.k = 1 -> 0
         [] xfr.k # 1 /\ phase = "Byte" /\ calm > 0 -> xfr.k - 1
         [] OTHER -> xfr.k - 2

HeaderGot(r) ==
    /\ r >= 1 => hdr.cmd = [f |-> xfr.tag, k |-> 2, v |-> xfr.plan.cmd]
    /\ r >= 2 => hdr.lsb = N % 256
    /\ r >= 3 => hdr.msb = N \div 256

\* The state of the receiver.
RecvAt(r) ==
    /\ r = 0 => recv = "RxCmd"
    /\ r = 1 => recv = "RxLenL"
    /\ r = 2 => recv = "RxLenH"
    /\ r \in 3 .. N + 2 => recv = "RxData"
    /\ r = N + 3 => recv = "RxPec"

\* The header has selected the virtual target, in the last two clocks.
Opening ==
    /\ Writing /\ AtAck /\ calm \in 1 .. 2
    /\ ExecIdle /\ PortIdle /\ ~sw_busy /\ owed = <<>>
    /\ recv = "RxCmd" \/ (recv = "Idle" /\ calm = 1)
    /\ queue_select /\ rx_queue = <<>> /\ conv = [bytes |-> <<>>, full |-> FALSE]
    /\ \/ mode_enter = 3 - calm /\ rx_crc = 0
       \/ mode_enter = 0 /\ rx_crc = Crc(xfr.tag, 1)

Cutting ==
    /\ Writing /\ Checked /\ ~(AtAck /\ calm <= 2) /\ ~(Fin /\ calm > 0)
    /\ ExecIdle /\ PortIdle /\ ~sw_busy
    /\ owed = IF Fin THEN <<[plan |-> xfr.plan, tag |-> xfr.tag]>> ELSE <<>>
    /\ data_ready /\ ~queue_flush
    /\ rx_crc = Crc(xfr.tag, Got + 1)
    /\ RecvAt(Got) /\ HeaderGot(Got)
    /\ Got = 2 => payload_left % 256 = N % 256
    /\ Got \in 3 .. N + 2 => payload_left = N + 3 - Got
    /\ queue_select <=> ~(\/ Got \in 4 .. N + 2
                          \/ Got = 3 /\ (phase # "Byte" \/ calm # 1))
    /\ Stored(IF Got <= 3 THEN 0 ELSE IF Got <= N + 3 THEN Got - 3 ELSE N)
    /\ conv.full <=> (Len(conv.bytes) = 4)
    /\ conv.full => phase = "Byte" /\ calm = 1

\* The command goes from the receiver to the executor.
Handing ==
    /\ Fin /\ calm \in 1 .. 3
    /\ exec = "Idle" /\ ~rreq /\ PortIdle /\ ~sw_busy /\ ~recv_is_rd
    /\ queue_select /\ HeaderGot(3)
    /\ hdr.pec = ByteAt(xfr.plan, xfr.tag, N + 4) /\ pec_calc = Crc(xfr.tag, N + 4)
    /\ owed = <<[plan |-> xfr.plan, tag |-> xfr.tag]>>
    /\ Stored(N) /\ Len(conv.bytes) < 4
    /\ recv = IF calm = 1 THEN "Cmd" ELSE "Busy"
    /\ recv_cmd_valid <=> (calm = 2)
    /\ exec_pending <=> (calm = 3)
    /\ exec_cmd.valid <=> (calm = 3)
    /\ calm = 3 => exec_cmd = [valid |-> TRUE, is_rd |-> FALSE, cmd |-> xfr.plan.cmd,
                               f |-> xfr.tag, len |-> N, error |-> ~xfr.plan.good]
    /\ queue_flush <=> (calm = 2 /\ N % 4 # 0)
    /\ conv.full <=> (calm = 3 /\ N % 4 # 0)

-----------------------------------------------------------------------------
(* The execution. *)

\* The clocks that the executor still takes, and those since the command.
TimeLeft == CASE exec = "Error" -> 2
              [] exec = "Done" -> 1
              [] exec \in {"CsrWrite", "FifoWrite"} /\ rreq -> 3 * dcnt + 1
              [] exec \in {"CsrWrite", "FifoWrite"} /\ ~rreq /\ port.rready -> 3 * dcnt
              [] OTHER -> 3 * dcnt - 1
Elapsed == IF Fin THEN calm ELSE ShortGap + calm

Foreign == \A i \in 1 .. Len(rx_queue) :
              rx_queue[i] # <<>> /\ rx_queue[i][1].v # OwnData
\* The words that are left: q of them are in the queue.
WordsLeft(q) ==
    /\ Len(rx_queue) = q
    /\ \A i \in 1 .. q :
          rx_queue[i] = WordOf(current.plan, current.tag,
                               Words(current.plan.n) - q + i - 1)
Moving ==
    LET p == current.plan
        w == Words(p.n)
    IN  /\ p.good /\ Allowed(p)
        /\ exec = IF p.cmd = FifoData THEN "FifoWrite" ELSE "CsrWrite"
        /\ csr_sel \in CsrsOf(p.cmd)[1] .. CsrsOf(p.cmd)[2]
        /\ exec = "CsrWrite" => csr_end = CsrsOf(p.cmd)[2]
        /\ dcnt \in 1 .. w
        /\ \/ rreq /\ PortIdle /\ WordsLeft(dcnt)
           \/ ~rreq /\ port = [rready |-> TRUE, ack |-> <<>>] /\ WordsLeft(dcnt)
           \/ /\ ~rreq /\ WordsLeft(dcnt - 1)
              /\ port = [rready |-> FALSE, ack |-> <<WordOf(p, current.tag, w - dcnt)>>]

\* The executor carries out a command.
Carrying ==
    /\ virtual_sel /\ exec_pending /\ recv = "Busy" /\ queue_select /\ ~queue_flush
    /\ ~recv_cmd_valid /\ ~recv_is_rd /\ ~exec_cmd.valid /\ owed = <<>> /\ ~sw_busy
    /\ conv = [bytes |-> <<>>, full |-> FALSE]
    /\ current.plan \in Plans /\ current.plan.kind = "write" /\ current.tag \in {1, 2}
    /\ \/ exec = "Error" /\ PortIdle /\ Foreign
       \/ exec = "Done" /\ ~rreq /\ PortIdle /\ rx_queue = <<>>
       \/ Moving

\* It is done before the next header is through.
Executing ==
    /\ Carrying
    /\ (Fin /\ calm >= 4) \/ Between
    /\ TimeLeft + Elapsed <= 3 * RxDepth + 5

-----------------------------------------------------------------------------
(* No command. *)

OwnWord4(w) == \A j \in 1 .. Len(w) : w[j].v = OwnData
Empty == ~sw_busy /\ rx_queue = <<>> /\ conv = [bytes |-> <<>>, full |-> FALSE]
InOwn == xfr.plan.kind = "own" /\ ~Between
Pend == IF conv.bytes # <<>> THEN 1 ELSE 0

\* What is stored belongs to the message to the target, up to the byte that is
\* on the bus, or to messages before it; there is room for the rest of it.
OwnStored ==
    /\ \A i \in 1 .. Len(rx_queue) : rx_queue[i] # <<>> /\ OwnWord4(rx_queue[i])
    /\ OwnWord4(conv.bytes) /\ Len(conv.bytes) <= 4
    /\ Len(rx_queue) + Pend <= RxDepth
    /\ xfr.plan.kind = "own" /\ phase = "Byte" /\ xfr.k = 0 =>
          Len(rx_queue) + Pend < RxDepth
    /\ InOwn /\ Got < 4 => /\ Len(rx_queue) < RxDepth
                           /\ Len(conv.bytes) = Got /\ ~conv.full
    /\ InOwn /\ Got >= 4 => (conv.full <=> calm = 1) /\ (conv.full <=> conv.bytes # <<>>)
    /\ Between /\ calm = 0 => ~conv.full /\ (conv.bytes # <<>> => last_q)
    /\ Between /\ calm = 1 => (conv.full <=> conv.bytes # <<>>)
    /\ (Between /\ calm > 1) \/ ~(Between \/ InOwn) => conv.bytes = <<>> /\ ~conv.full

Resting ==
    /\ Writing => Between \/ (AtAck /\ calm = 0) \/ (Fin /\ calm > 4)
    /\ recv \in {"Idle", "RxCmd"} /\ queue_select /\ ExecIdle /\ owed = <<>>
    /\ PortIdle \/ (sw_busy /\ (port.ack = <<>> \/ ~port.rready))
    /\ recovery_pending => Empty
    /\ Writing /\ phase # "Quiet" => Empty
    /\ OwnStored

Stages == Opening \/ Cutting \/ Handing \/ Executing \/ Resting
WriteInv == BusTypes /\ HandlerTypes /\ BusSide /\ Selection /\ Stages

-----------------------------------------------------------------------------
(* Controllers that send only writes. *)

\* The plans of such a controller, NoTransfer.plan included.
LEMMA PlanFacts ==
    ASSUME WriteCalls, NEW p \in AllPlans
    PROVE  /\ p.kind \in {"own", "write", "other", "broadcast"}
           /\ p.cmd \in Nat /\ p.n \in Nat /\ p.good \in BOOLEAN
           /\ p.kind = "own" => p.n <= 4
           /\ p.kind = "write" => /\ p.cmd # OwnData /\ p.n >= 1
                                  /\ p.n <= 4 * RxDepth /\ p.n < 65536
                                  /\ p \in Plans
<1>1. CASE p \in Plans
  BY <1>1 DEF WriteCalls
<1>2. CASE p = NoTransfer.plan
  <2>1. NoTransfer.plan = Plan("other", 0, 0, TRUE)
    BY DEF NoTransfer
  <2>2. p.kind = "other" /\ p.cmd = 0 /\ p.n = 0 /\ p.good = TRUE
    BY <1>2, <2>1 DEF Plan
  <2>3. p.good \in BOOLEAN
    BY <2>2, Zenon
  <2> QED
    BY <2>2, <2>3
<1> QED
  BY <1>1, <1>2 DEF AllPlans

\* Two sequences, one after the other, element by element.
LEMMA ConcatNat ==
    ASSUME NEW s1 \in Seq(Nat), NEW s2 \in Seq(Nat)
    PROVE  /\ s1 \o s2 \in Seq(Nat)
           /\ Len(s1 \o s2) = Len(s1) + Len(s2)
           /\ \A i \in 1 .. Len(s1) : (s1 \o s2)[i] = s1[i]
           /\ \A i \in 1 .. Len(s2) : (s1 \o s2)[Len(s1) + i] = s2[i]
<1>1. /\ s1 \o s2 \in Seq(Nat)
      /\ Len(s1 \o s2) = Len(s1) + Len(s2)
      /\ \A i \in 1 .. Len(s1) + Len(s2) : (s1 \o s2)[i] =
             IF i <= Len(s1) THEN s1[i] ELSE s2[i - Len(s1)]
  BY ConcatProperties, Zenon
<1>2. Len(s1) \in Nat /\ Len(s2) \in Nat
  OBVIOUS
<1> QED
  BY <1>1, <1>2

\* The same of three.
LEMMA ConcatThree ==
    ASSUME NEW a \in Seq(Nat), NEW b \in Seq(Nat), NEW c \in Seq(Nat)
    PROVE  /\ (a \o b) \o c \in Seq(Nat)
           /\ Len((a \o b) \o c) = Len(a) + Len(b) + Len(c)
           /\ \A i \in 1 .. Len(a) : ((a \o b) \o c)[i] = a[i]
           /\ \A i \in 1 .. Len(b) : ((a \o b) \o c)[Len(a) + i] = b[i]
           /\ \A i \in 1 .. Len(c) : ((a \o b) \o c)[Len(a) + Len(b) + i] = c[i]
<1> DEFINE d == a \o b
<1>1. /\ d \in Seq(Nat) /\ Len(d) = Len(a) + Len(b)
      /\ \A i \in 1 .. Len(a) : d[i] = a[i]
      /\ \A i \in 1 .. Len(b) : d[Len(a) + i] = b[i]
  BY ConcatNat, Zenon
<1> HIDE DEF d
<1>2. /\ d \o c \in Seq(Nat) /\ Len(d \o c) = Len(d) + Len(c)
      /\ \A i \in 1 .. Len(d) : (d \o c)[i] = d[i]
      /\ \A i \in 1 .. Len(c) : (d \o c)[Len(d) + i] = c[i]
  BY <1>1, ConcatNat, Zenon
<1>3. Len(a) \in Nat /\ Len(b) \in Nat /\ Len(c) \in Nat
  OBVIOUS
<1> DEFINE s == d \o c
<1> HIDE DEF s
<1>4. /\ s \in Seq(Nat) /\ Len(s) = Len(a) + Len(b) + Len(c)
      /\ \A i \in 1 .. Len(a) : s[i] = a[i]
      /\ \A i \in 1 .. Len(b) : s[Len(a) + i] = b[i]
      /\ \A i \in 1 .. Len(c) : s[Len(a) + Len(b) + i] = c[i]
  <2>1. s \in Seq(Nat) /\ Len(s) = Len(d) + Len(c)
    BY <1>2 DEF s
  <2>2. ASSUME NEW i \in 1 .. Len(a) PROVE s[i] = a[i]
    <3>1. i \in 1 .. Len(d)
      BY <1>1, <1>3
    <3> QED
      BY <1>1, <1>2, <3>1 DEF s
  <2>3. ASSUME NEW i \in 1 .. Len(b) PROVE s[Len(a) + i] = b[i]
    <3>1. Len(a) + i \in 1 .. Len(d)
      BY <1>1, <1>3
    <3> QED
      BY <1>1, <1>2, <3>1 DEF s
  <2>4. ASSUME NEW i \in 1 .. Len(c) PROVE s[Len(a) + Len(b) + i] = c[i]
    BY <1>1, <1>2 DEF s
  <2> QED
    BY <1>1, <2>1, <2>2, <2>3, <2>4
<1> QED
  BY <1>4, Zenon DEF s, d

\* A transfer has a number of bytes.
LEMMA SizeIsNat ==
    ASSUME WriteCalls, NEW p \in AllPlans
    PROVE  Size(p) \in Nat
BY PlanFacts DEF Size

\* Each of its bytes is a number.
LEMMA ByteAtIsNat ==
    ASSUME WriteCalls, NEW p \in AllPlans, NEW tag \in {1, 2}, NEW j \in Nat
    PROVE  ByteAt(p, tag, j) \in Nat
<1>1. p.cmd \in Nat /\ p.n \in Nat
  BY PlanFacts
<1>2. p.n % 256 \in Nat /\ p.n \div 256 \in Nat
  BY <1>1
<1>3. Crc(tag, p.n + 4) \in Nat /\ BadPec \in Nat /\ OwnData \in Nat /\ ValueOf(p) \in Nat
  BY <1>1 DEF Crc, BadPec, OwnData, ValueOf
<1> HIDE DEF Crc
<1>4. (IF p.good THEN Crc(tag, p.n + 4) ELSE BadPec) \in Nat
  BY <1>3
<1> QED
  BY <1>1, <1>2, <1>3, <1>4, Zenon DEF ByteAt

\* The bytes of a transfer, one by one.
LEMMA BytesAre ==
    ASSUME WriteCalls, NEW p \in Plans, NEW tag \in {1, 2}
    PROVE  /\ BytesOf(p, tag) \in Seq(Nat)
           /\ Len(BytesOf(p, tag)) = Size(p)
           /\ \A j \in 1 .. Size(p) : BytesOf(p, tag)[j] = ByteAt(p, tag, j)
<1> p \in AllPlans
  BY DEF AllPlans
<1>1. CASE p.kind = "write"
  <2> DEFINE pec == IF p.good THEN Crc(tag, p.n + 4) ELSE BadPec
             a == <<p.cmd, p.n % 256, p.n \div 256>>
             b == Payload(p)
             c == <<pec>>
  <2>1. p.n \in Nat /\ p.cmd \in Nat /\ p.n >= 1
    BY <1>1, PlanFacts
  <2>2. pec \in Nat
    BY <2>1 DEF Crc, BadPec
  <2>3. a \in Seq(Nat) /\ Len(a) = 3 /\ c \in Seq(Nat) /\ Len(c) = 1
    BY <2>1, <2>2
  <2>4. b \in Seq(Nat) /\ Len(b) = p.n /\ \A j \in 1 .. p.n : b[j] = ValueOf(p)
    BY <2>1 DEF Payload, ValueOf
  <2>5. BytesOf(p, tag) = (a \o b) \o c
    BY <1>1 DEF BytesOf
  <2> HIDE DEF a, b, c
  <2>6. /\ BytesOf(p, tag) \in Seq(Nat)
        /\ Len(BytesOf(p, tag)) = Len(a) + Len(b) + Len(c)
        /\ \A i \in 1 .. Len(a) : BytesOf(p, tag)[i] = a[i]
        /\ \A i \in 1 .. Len(b) : BytesOf(p, tag)[Len(a) + i] = b[i]
        /\ \A i \in 1 .. Len(c) : BytesOf(p, tag)[Len(a) + Len(b) + i] = c[i]
    <3>1. a \in Seq(Nat) /\ b \in Seq(Nat) /\ c \in Seq(Nat)
      BY <2>3, <2>4
    <3> QED
      BY <2>5, <3>1, ConcatThree
  <2>7. Len(BytesOf(p, tag)) = p.n + 4
    BY <2>1, <2>3, <2>4, <2>6
  <2>8. ASSUME NEW j \in 1 .. p.n + 4 PROVE BytesOf(p, tag)[j] = ByteAt(p, tag, j)
    <3>1. CASE j <= 3
      <4>1. j = 1 \/ j = 2 \/ j = 3
        BY <2>1, <3>1
      <4>2. BytesOf(p, tag)[j] = a[j]
        BY <2>3, <2>6, <4>1
      <4>3. a[1] = p.cmd /\ a[2] = p.n % 256 /\ a[3] = p.n \div 256
        BY DEF a
      <4> QED
        BY <1>1, <4>1, <4>2, <4>3 DEF ByteAt
    <3>2. CASE j > 3 /\ j <= p.n + 3
      <4>1. PICK i \in 1 .. p.n : j = 3 + i
        <5>1. j - 3 \in 1 .. p.n /\ j = 3 + (j - 3)
          BY <2>1, <3>2
        <5> QED
          BY <5>1
      <4>2. BytesOf(p, tag)[j] = b[i]
        BY <2>3, <2>4, <2>6, <4>1
      <4>3. j # 1 /\ j # 2 /\ j # 3 /\ j # p.n + 4
        BY <2>1, <3>2
      <4> QED
        BY <1>1, <2>4, <4>1, <4>2, <4>3 DEF ByteAt
    <3>3. CASE j = p.n + 4
      <4>1. BytesOf(p, tag)[j] = c[1]
        <5>1. j = Len(a) + Len(b) + 1
          BY <2>1, <2>3, <2>4, <3>3
        <5> QED
          BY <2>3, <2>6, <5>1
      <4>2. j # 1 /\ j # 2 /\ j # 3
        BY <2>1, <3>3
      <4>3. c[1] = pec
        BY DEF c
      <4> QED
        BY <1>1, <3>3, <4>1, <4>2, <4>3 DEF ByteAt
    <3> QED
      BY <2>1, <3>1, <3>2, <3>3
  <2> QED
    BY <1>1, <2>6, <2>7, <2>8 DEF Size
<1>2. CASE p.kind = "own"
  BY <1>2, PlanFacts DEF BytesOf, Size, ByteAt, OwnData
<1>3. CASE p.kind \in {"other", "broadcast"}
  BY <1>3 DEF BytesOf, Size
<1> QED
  BY <1>1, <1>2, <1>3, PlanFacts

-----------------------------------------------------------------------------
(* What a clock of each action brings to the handler. *)

Silent(e) == ~e.start /\ ~e.stop /\ ~e.done /\ ~e.perr

\* A clock without an event brings nothing but a request of software.
LEMMA TickEvent ==
    ASSUME Tick
    PROVE  \E e : /\ Clock(e, <<>>) /\ Silent(e)
                  /\ e.sw_req \in BOOLEAN /\ (e.sw_req => MayRead)
<1>1. PICK sw \in {FALSE} \union (IF MayRead THEN {TRUE} ELSE {}) :
          Clock([NoEvent EXCEPT !.sw_req = sw], <<>>)
  BY DEF Tick
<1> DEFINE e == [NoEvent EXCEPT !.sw_req = sw]
<1>2. Silent(e) /\ e.sw_req = sw
  BY DEF NoEvent, Silent
<1>3. sw \in BOOLEAN /\ (sw => MayRead)
  OBVIOUS
<1> QED
  BY <1>1, <1>2, <1>3

\* START, whether repeated or not.
Starts(e) == e.start /\ ~e.stop /\ ~e.done /\ ~e.perr /\ ~e.sw_req
StartEvent == [NoEvent EXCEPT !.start = TRUE]

\* The event of START and RepeatedStart is a start.
LEMMA StartsEvent == Starts(StartEvent)
BY DEF Starts, StartEvent, NoEvent

Stops(e) == ~e.start /\ e.stop /\ ~e.done /\ ~e.perr /\ ~e.sw_req
StopEvent == [NoEvent EXCEPT !.stop = TRUE]

\* The event of STOP is a stop.
LEMMA StopsEvent == Stops(StopEvent)
BY DEF Stops, StopEvent, NoEvent

\* The end of a byte or of a bit.
Dones(e) == ~e.start /\ ~e.stop /\ e.done /\ ~e.perr /\ ~e.sw_req

\* ByteEnd brings the header of the plan and the next byte of the transfer.
LEMMA ByteEndEvent ==
    ASSUME ByteEnd, WriteCalls, BusTypes
    PROVE  \E e : /\ Clock(e, <<>>) /\ Dones(e) /\ e.hdr = HeaderOf(xfr.plan)
                  /\ e.byte = [f |-> xfr.tag, k |-> xfr.k + 1,
                               v |-> IF xfr.k = 0 THEN 0 ELSE Head(xfr.todo)]
<1> DEFINE v == IF xfr.k = 0 \/ IsRead THEN 0 ELSE Head(xfr.todo)
           e == [NoEvent EXCEPT
                     !.done = TRUE, !.hdr = HeaderOf(xfr.plan),
                     !.byte = [f |-> xfr.tag, k |-> xfr.k + 1, v |-> v]]
<1>1. Clock(e, <<>>)
  BY DEF ByteEnd
<1>2. ~IsRead
  <2>1. xfr.plan \in AllPlans
    BY DEF BusTypes
  <2> QED
    BY <2>1, PlanFacts DEF IsRead
<1>3. Dones(e) /\ e.hdr = HeaderOf(xfr.plan) /\ e.byte = [f |-> xfr.tag, k |-> xfr.k + 1, v |-> v]
  BY DEF NoEvent, Dones
<1> QED
  BY <1>1, <1>2, <1>3

\* BitEnd has no parity error, and with the last byte the command is sent.
LEMMA BitEndEvent ==
    ASSUME BitEnd, WriteCalls
    PROVE  \E e : /\ Dones(e)
                  /\ Clock(e, IF xfr.plan.kind = "write" /\ xfr.todo = <<>>
                              THEN <<[plan |-> xfr.plan, tag |-> xfr.tag]>> ELSE <<>>)
<1>1. PICK perr \in {FALSE} \union
             (IF "parity" \in Habits /\ fsm_rx_bit THEN {TRUE} ELSE {}) :
          Clock([NoEvent EXCEPT !.done = TRUE, !.perr = perr],
                IF xfr.plan.kind = "write" /\ xfr.todo = <<>>
                THEN <<[plan |-> xfr.plan, tag |-> xfr.tag]>> ELSE <<>>)
  BY DEF BitEnd
<1>2. perr = FALSE
  BY DEF WriteCalls
<1>3. Dones([NoEvent EXCEPT !.done = TRUE, !.perr = perr])
  BY <1>2 DEF NoEvent, Dones
<1> QED
  BY <1>1, <1>3

-----------------------------------------------------------------------------
(* The target FSM, with the events of writes. *)

\* What the target FSM sees of the events.
LEMMA FsmInputs ==
    ASSUME NEW e
    PROVE  /\ fsm_in(e).start = e.start /\ fsm_in(e).stop = e.stop
           /\ fsm_in(e).rx_done = (e.done /\ (fsm_rx_byte \/ fsm_rx_bit))
           /\ fsm_in(e).rx_data = e.hdr
           /\ fsm_in(e).tx_done = (e.done /\ (fsm_tx_byte \/ fsm_tx_bit))
           /\ ~fsm_in(e).reset_detect /\ ~fsm_in(e).ibi_request /\ ~fsm_in(e).in_hdr
BY DEF fsm_in, Quiet

\* The states of a write.
Places == {"Idle", "RxFByte", "RxSByteRepeated", "CheckFByte", "CheckSByte",
           "TxAckFByte", "TxAckSByte", "Wait", "RxPWriteTbit", "RxSByte",
           "RxPWriteData"}

\* Without an event it moves only from the check of a header.
LEMMA FsmSilent ==
    ASSUME NEW e, Silent(e), fsm \in Places
    PROVE  /\ fsm \notin {"CheckFByte", "CheckSByte"} => fsm_next(e) = fsm
           /\ fsm = "CheckFByte" /\ ~bus_addr.rnw =>
                 /\ bus_addr.addr = "te0" \/ fsm_next(e) \in {"TxAckFByte", "Wait"}
                 /\ addressed => fsm_next(e) = "TxAckFByte"
                 /\ ~addressed /\ ~is_rsvd_byte_match /\ bus_addr.addr # "te0"
                       => fsm_next(e) = "Wait"
           /\ fsm = "CheckSByte" /\ ~bus_addr.rnw =>
                 fsm_next(e) = IF addressed THEN "TxAckSByte" ELSE "Wait"
<1> DEFINE i == fsm_in(e)
<1>1. /\ ~i.start /\ ~i.stop /\ ~i.rx_done /\ ~i.tx_done
      /\ ~i.reset_detect /\ ~i.ibi_request /\ ~i.in_hdr
  BY FsmInputs DEF Silent
<1> HIDE DEF i
<1>2. fsm_next(e) = Transition(i)
  BY <1>1 DEF fsm_next, state_d, i
<1>3. CASE fsm \in {"CheckFByte", "TxAckFByte", "RxSByte", "RxSByteRepeated",
                    "CheckSByte", "TxAckSByte"}
  BY <1>1, <1>2, <1>3
     DEF Transition, OnHeader, Accept, is_incorrect_addr_match, addressed
<1>4. CASE fsm \in {"RxPWriteTbit", "RxPWriteData"}
  BY <1>1, <1>2, <1>4 DEF Transition, OnData
<1>5. CASE fsm \in {"Idle", "RxFByte", "Wait"}
  BY <1>1, <1>2, <1>5 DEF Transition, OnControl
<1> QED
  BY <1>3, <1>4, <1>5 DEF Places

\* A start leads to the first byte.
LEMMA FsmStarts ==
    ASSUME NEW e, Starts(e)
    PROVE  /\ fsm \in {"Idle", "Wait", "RxPWriteData"} => fsm_next(e) = "RxFByte"
           /\ fsm = "RxSByte" => fsm_next(e) = "RxSByteRepeated"
<1> DEFINE i == fsm_in(e)
<1>1. i.start /\ ~i.stop /\ ~i.reset_detect /\ ~i.ibi_request /\ ~i.in_hdr
  BY FsmInputs DEF Starts
<1> HIDE DEF i
<1>2. fsm_next(e) = Transition(i)
  BY <1>1 DEF fsm_next, state_d, i
<1> QED
  BY <1>1, <1>2 DEF Transition, OnHeader, OnData, OnControl

\* A stop leads to Idle.
LEMMA FsmStops ==
    ASSUME NEW e, Stops(e), fsm \in Places
    PROVE  fsm_next(e) = "Idle"
BY FsmInputs DEF Stops, Places, fsm_next, state_d

\* The end of a byte leads to its check or its T-bit, and that to the next.
LEMMA FsmDones ==
    ASSUME NEW e, Dones(e), ~bus_addr.rnw
    PROVE  /\ fsm = "RxFByte" => fsm_next(e) = "CheckFByte"
           /\ fsm = "RxSByteRepeated" => fsm_next(e) = "CheckSByte"
           /\ fsm = "RxPWriteData" => fsm_next(e) = "RxPWriteTbit"
           /\ fsm = "RxPWriteTbit" => fsm_next(e) = "RxPWriteData"
           /\ fsm = "Wait" => fsm_next(e) = "Wait"
           /\ fsm \in {"TxAckFByte", "TxAckSByte"} /\ addressed
                => fsm_next(e) = "RxPWriteData"
           /\ fsm = "TxAckFByte" /\ is_rsvd_byte_match => fsm_next(e) = "RxSByte"
<1> DEFINE i == fsm_in(e)
<1>1. /\ ~i.start /\ ~i.stop /\ ~i.reset_detect /\ ~i.ibi_request /\ ~i.in_hdr
      /\ fsm \in {"RxFByte", "RxSByteRepeated", "RxPWriteData", "RxPWriteTbit"} => i.rx_done
      /\ fsm \in {"TxAckFByte", "TxAckSByte"} => i.tx_done
  BY FsmInputs DEF Dones, fsm_rx_byte, fsm_rx_bit, fsm_tx_bit
<1> HIDE DEF i
<1>2. fsm_next(e) = Transition(i)
  BY <1>1 DEF fsm_next, state_d, i
<1>3. CASE fsm \in {"TxAckFByte", "RxSByteRepeated", "TxAckSByte"}
  BY <1>1, <1>2, <1>3
     DEF Transition, OnHeader, DataLoop, addressed, is_rsvd_byte_match, Broadcast
<1>4. CASE fsm \in {"RxPWriteTbit", "RxPWriteData"}
  BY <1>1, <1>2, <1>4 DEF Transition, OnData
<1>5. CASE fsm \in {"RxFByte", "Wait"}
  BY <1>1, <1>2, <1>5 DEF Transition, OnControl
<1> QED
  BY <1>3, <1>4, <1>5

\* The headers that the controllers send.
LEMMA HeadersAre ==
    ASSUME WriteCalls, NEW p \in AllPlans
    PROVE  /\ HeaderOf(p).addr = CASE p.kind = "own" -> "ours"
                                   [] p.kind = "write" -> "virtual"
                                   [] p.kind = "broadcast" -> "rsvd"
                                   [] p.kind = "other" -> "other"
           /\ HeaderOf(p).rnw = FALSE
           /\ (HeaderOf(p) = Broadcast) = (p.kind = "broadcast")
<1>1. p.kind \in {"own", "write", "other", "broadcast"}
  BY PlanFacts
<1>2. CASE p.kind = "own"
  BY <1>2 DEF HeaderOf, Broadcast
<1>3. CASE p.kind = "write"
  BY <1>3 DEF HeaderOf, Broadcast
<1>4. CASE p.kind = "other"
  BY <1>4 DEF HeaderOf, Broadcast
<1>5. CASE p.kind = "broadcast"
  BY <1>5 DEF HeaderOf, Broadcast
<1> QED
  BY <1>1, <1>2, <1>3, <1>4, <1>5

-----------------------------------------------------------------------------
(* The bus. *)

\* The front of the handler in a clock without a wrong T-bit.
LEMMA FrontClock ==
    ASSUME NEW e, Handler(e), ~e.perr, ~parity_err
    PROVE  /\ fsm' = fsm_next(e)
           /\ bus_addr' = IF fsm \in {"RxFByte", "RxSByte", "RxSByteRepeated"} /\ e.done
                          THEN e.hdr ELSE IF fsm = "Idle" THEN NoHeader ELSE bus_addr
           /\ last_byte' = IF e.done /\ fsm_rx_byte THEN e.byte ELSE last_byte
           /\ ~parity_err'
           /\ rx_valid' = /\ ~(rx_valid /\ rx_wready)
                          /\ \/ rx_valid
                             \/ fsm = "RxPWriteTbit" /\ fsm_next(e) # "RxPWriteTbit"
           /\ last_q' = (fsm = "RxPWriteData" /\ fsm_next(e) \in {"RxFByte", "Idle"})
<1>1. fsm' = fsm_next(e)
  BY DEF Handler, FsmStep, fsm_next
<1>2. bus_addr' = IF fsm \in {"RxFByte", "RxSByte", "RxSByteRepeated"} /\ e.done
                  THEN e.hdr ELSE IF fsm = "Idle" THEN NoHeader ELSE bus_addr
  BY FsmInputs DEF Handler, FsmStep, Matcher, fsm_rx_byte, fsm_rx_bit
<1>3. /\ last_byte' = IF e.done /\ fsm_rx_byte THEN e.byte ELSE last_byte
      /\ ~parity_err'
      /\ rx_valid' = /\ ~(rx_valid /\ rx_wready)
                     /\ \/ rx_valid
                        \/ fsm = "RxPWriteTbit" /\ fsm_next(e) # "RxPWriteTbit"
      /\ last_q' = (fsm = "RxPWriteData" /\ fsm_next(e) \in {"RxFByte", "Idle"})
  BY DEF Handler, Latches, rx_byte_last
<1> QED
  BY <1>1, <1>2, <1>3

\* The bounds of WriteCalls.
LEMMA CallFacts ==
    ASSUME WriteCalls
    PROVE  /\ ShortGap \in Nat /\ ShortGap >= 5 /\ LongGap \in Nat /\ LongGap >= ShortGap
           /\ RxDepth \in Nat /\ RxDepth >= 1 /\ 4 * RxDepth < 65536
           /\ ShortGap + LongGap >= 3 * RxDepth + 5
BY DEF WriteCalls

\* Where the FSM is, and which header the target serves.
LEMMA PlaceFacts ==
    ASSUME WriteCalls, BusTypes, BusSide
    PROVE  /\ fsm \in Places /\ phase \in {"Quiet", "Byte", "Bit"} /\ calm \in Nat /\ xfr.k \in Nat /\ xfr.plan \in AllPlans
           /\ xfr.tag \in {1, 2} /\ N \in Nat
           /\ ~Between => /\ ~bus_addr.rnw
                          /\ (addressed <=> ForUs)
                          /\ is_rsvd_byte_match <=> (xfr.plan.kind = "broadcast")
                          /\ bus_addr.addr # "te0"
                          /\ bus_addr.addr = "virtual" <=> Writing
                          /\ bus_addr.addr = "ours" <=> xfr.plan.kind = "own"
<1>1. calm \in Nat /\ xfr.k \in Nat /\ xfr.plan \in AllPlans /\ xfr.tag \in {1, 2}
  BY CallFacts DEF BusTypes
<1>2. phase \in {"Quiet", "Byte", "Bit"}
  BY DEF BusTypes
<1>5. phase = "Bit" => xfr.k > 0
  BY DEF BusSide
<1>6. fsm \in Places
  BY <1>1, <1>2, <1>5 DEF BusSide, FsmAt, Places, AtAck
<1>3. N \in Nat
  BY <1>1, PlanFacts DEF N
<1>4. ASSUME ~Between
      PROVE  /\ ~bus_addr.rnw
             /\ (addressed <=> ForUs)
             /\ is_rsvd_byte_match <=> (xfr.plan.kind = "broadcast")
             /\ bus_addr.addr # "te0"
             /\ bus_addr.addr = "virtual" <=> Writing
             /\ bus_addr.addr = "ours" <=> xfr.plan.kind = "own"
  <2>1. bus_addr = HeaderOf(xfr.plan)
    BY <1>4 DEF BusSide
  <2>2. xfr.plan.kind \in {"own", "write", "other", "broadcast"}
    BY <1>1, PlanFacts
  <2> QED
    BY <1>1, <2>1, <2>2, HeadersAre DEF addressed, is_rsvd_byte_match, ForUs, Writing
<1> QED
  BY <1>1, <1>2, <1>3, <1>4, <1>6

\* A clock without an event keeps the place in the transfer.
LEMMA TickPlaces ==
    ASSUME WriteCalls, BusTypes, Tick
    PROVE  /\ phase' = phase /\ xfr' = xfr
           /\ calm' \in 1 .. LongGap
           /\ calm' = IF calm < LongGap THEN calm + 1 ELSE calm
           /\ (Between' <=> Between) /\ (AtAck' <=> AtAck) /\ (Writing' <=> Writing) /\ (ForUs' <=> ForUs)
           /\ (Fin' <=> Fin) /\ SentBytes' = SentBytes /\ N' = N
<1>1. phase' = phase /\ xfr' = xfr /\ calm' = IF calm < LongGap THEN calm + 1 ELSE calm
  BY DEF Tick
<1>2. calm' \in 1 .. LongGap
  <2>1. calm \in 0 .. LongGap
    BY DEF BusTypes
  <2> QED
    BY <1>1, <2>1, CallFacts
<1> QED
  BY <1>1, <1>2 DEF Between, AtAck, Writing, ForUs, Fin, SentBytes, N

\* Controller and FSM stay at the same place.
LEMMA BusTick ==
    ASSUME WriteCalls, BusTypes, BusSide, Tick, rx_valid => rx_wready
    PROVE  BusSide'
<1>1. PICK e : Handler(e) /\ Silent(e)
  BY TickEvent DEF Clock
<1>2. /\ fsm \in Places /\ phase \in {"Quiet", "Byte", "Bit"} /\ calm \in Nat /\ xfr.k \in Nat /\ xfr.plan \in AllPlans
      /\ ~Between => /\ ~bus_addr.rnw /\ (addressed <=> ForUs)
                     /\ is_rsvd_byte_match <=> (xfr.plan.kind = "broadcast")
                     /\ bus_addr.addr # "te0"
  BY PlaceFacts
<1>3. /\ phase' = phase /\ xfr' = xfr /\ calm' \in 1 .. LongGap
      /\ (Between' <=> Between) /\ (AtAck' <=> AtAck) /\ (ForUs' <=> ForUs) /\ SentBytes' = SentBytes
  BY TickPlaces
<1>4. /\ fsm' = fsm_next(e)
      /\ bus_addr' = IF fsm = "Idle" THEN NoHeader ELSE bus_addr
      /\ last_byte' = last_byte
      /\ ~parity_err'
      /\ rx_valid' = /\ ~(rx_valid /\ rx_wready)
                     /\ \/ rx_valid
                        \/ fsm = "RxPWriteTbit" /\ fsm_next(e) # "RxPWriteTbit"
      /\ last_q' = (fsm = "RxPWriteData" /\ fsm_next(e) \in {"RxFByte", "Idle"})
  BY <1>1, FrontClock DEF Silent, BusSide
<1>5. fsm \notin {"CheckFByte", "CheckSByte"} => fsm' = fsm
  BY <1>1, <1>2, <1>4, FsmSilent
<1>6. ~rx_valid' /\ ~last_q'
  <2>1. fsm = "RxPWriteTbit" => fsm_next(e) = "RxPWriteTbit"
    BY <1>4, <1>5
  <2>2. fsm = "RxPWriteData" => fsm_next(e) = "RxPWriteData"
    BY <1>4, <1>5
  <2> QED
    BY <1>4, <2>1, <2>2
<1>7. FsmAt'
  <2>1. CASE AtAck /\ calm = 0
    <3>1. ~Between /\ phase = "Bit" /\ xfr.k = 1
      BY <2>1 DEF AtAck, Between
    <3>2. fsm \in {"CheckFByte", "CheckSByte"}
      BY <2>1 DEF BusSide, FsmAt
    <3>3. xfr.plan.kind \in {"own", "write", "other", "broadcast"}
      BY <1>2, PlanFacts
    <3>4. CASE ForUs
      <4>1. addressed
        BY <1>2, <3>1, <3>4
      <4>2. fsm' \in {"TxAckFByte", "TxAckSByte"}
        BY <1>1, <1>2, <1>4, <3>1, <3>2, <4>1, FsmSilent
      <4> QED
        BY <1>3, <2>1, <3>1, <3>4, <4>2 DEF FsmAt
    <3>5. CASE xfr.plan.kind = "broadcast"
      <4>1. ~addressed /\ ~ForUs
        BY <1>2, <3>1, <3>5 DEF ForUs
      <4>2. fsm' \in {"TxAckFByte", "Wait"}
        BY <1>1, <1>2, <1>4, <3>1, <3>2, <4>1, FsmSilent
      <4> QED
        BY <1>3, <2>1, <3>1, <3>5, <4>1, <4>2 DEF FsmAt
    <3>6. CASE xfr.plan.kind = "other"
      <4>1. ~addressed /\ ~is_rsvd_byte_match /\ ~ForUs
        BY <1>2, <3>1, <3>6 DEF ForUs
      <4>2. fsm' = "Wait"
        BY <1>1, <1>2, <1>4, <3>1, <3>2, <4>1, FsmSilent
      <4> QED
        BY <1>3, <2>1, <3>1, <4>1, <4>2 DEF FsmAt
    <3> QED
      BY <3>3, <3>4, <3>5, <3>6 DEF ForUs
  <2>2. CASE ~(AtAck /\ calm = 0)
    <3>1. fsm \notin {"CheckFByte", "CheckSByte"}
      <4>1. phase = "Bit" => xfr.k > 0
        BY DEF BusSide
      <4> QED
      BY <1>2, <2>2, <4>1 DEF BusSide, FsmAt, AtAck
    <3> QED
      BY <1>2, <1>3, <1>5, <2>2, <3>1 DEF BusSide, FsmAt
  <2> QED
    BY <2>1, <2>2
<1>8. ~Between => bus_addr' = bus_addr
  <2>1. ~Between => fsm # "Idle"
    BY <1>2 DEF BusSide, FsmAt, Between, AtAck
  <2> QED
    BY <1>4, <2>1
<1> QED
  BY <1>3, <1>4, <1>6, <1>7, <1>8 DEF BusSide

\* The types of the bus stay as they are.
LEMMA BusTypesTick ==
    ASSUME WriteCalls, BusTypes, Tick
    PROVE  BusTypes'
<1>1. PICK e : Handler(e) /\ Silent(e)
  BY TickEvent DEF Clock
<1>2. last_byte' = last_byte
  BY <1>1 DEF Handler, Latches, Silent
<1>3. calm' \in 0 .. LongGap
  BY TickPlaces, CallFacts
<1> QED
  BY <1>2, <1>3, TickPlaces DEF BusTypes

\* Where a transfer may end.
LEMMA EndFacts ==
    ASSUME WriteCalls, BusTypes, BusSide, MayEnd
    PROVE  /\ phase = "Byte" /\ xfr.k > 0 /\ calm >= ShortGap
           /\ Writing => Fin
           /\ xfr.plan.kind = "own" => xfr.k = N + 1
           /\ fsm \in {"Wait", "RxSByte", "RxPWriteData"}
           /\ fsm = "RxPWriteData" <=> ForUs
<1>1. phase = "Byte" /\ xfr.k > 0 /\ calm >= ShortGap
  BY DEF MayEnd
<1>2. xfr.plan \in AllPlans
  BY DEF BusTypes
<1>3. ~IsRead /\ "cut" \notin Habits
  BY <1>2, PlanFacts DEF IsRead, WriteCalls
<1>4. xfr.over \/ xfr.todo = <<>>
  BY <1>3 DEF MayEnd
<1>5. /\ fsm \in {"Wait", "RxSByte", "RxPWriteData"}
      /\ fsm = "RxPWriteData" <=> ForUs
      /\ ForUs => ~xfr.over
  BY <1>1 DEF BusSide, FsmAt, ForUs
<1>6. ASSUME ForUs PROVE xfr.k = Size(xfr.plan) + 1
  <2>1. Len(xfr.todo) = 0
    BY <1>4, <1>5, <1>6
  <2>2. Size(xfr.plan) - (xfr.k - 1) = 0
    BY <1>1, <2>1 DEF BusSide, SentBytes
  <2> QED
    BY <1>2, <2>2, SizeIsNat, PlaceFacts
<1>7. xfr.plan.n \in Nat
  BY <1>2, PlanFacts
<1>8. Writing => Fin
  BY <1>1, <1>6, <1>7 DEF Writing, ForUs, Fin, Size, N
<1>9. xfr.plan.kind = "own" => xfr.k = N + 1
  BY <1>6, <1>7 DEF ForUs, Size, N
<1> QED
  BY <1>1, <1>5, <1>8, <1>9

\* A transfer begins.
Begins(p) ==
    /\ p \in Plans /\ Follows(p) /\ NextTransfer(p)
    /\ phase' = "Byte" /\ calm' = 0
    /\ \E e, sent : Clock(e, sent) /\ Starts(e)
    /\ calm >= ShortGap
    /\ phase = "Quiet" \/ MayEnd

\* These controllers read nothing.
LEMMA NoRead ==
    ASSUME WriteCalls, BusTypes
    PROVE  xfr.plan.kind # "read" /\ ~IsRead
<1>1. xfr.plan \in AllPlans
  BY DEF BusTypes
<1> QED
  BY <1>1, PlanFacts DEF IsRead

\* START begins a transfer.
LEMMA StartBegins == ASSUME START PROVE \E p : Begins(p) /\ Clock(StartEvent, <<>>)
BY StartsEvent DEF START, Begins, StartEvent

\* So does RepeatedStart.
LEMMA RepeatedStartBegins ==
    ASSUME RepeatedStart, WriteCalls, BusTypes
    PROVE  \E p : Begins(p) /\ Clock(StartEvent, <<>>)
<1>1. Clock(StartEvent, <<>>)
  BY NoRead DEF RepeatedStart, StartEvent
<1>2. calm >= ShortGap
  BY DEF RepeatedStart, MayEnd
<1> QED
  BY <1>1, <1>2, StartsEvent DEF RepeatedStart, Begins

\* A transfer begins with all its bytes.
LEMMA BeginTypes ==
    ASSUME WriteCalls, BusTypes, NEW p, Begins(p)
    PROVE  /\ BusTypes'
           /\ xfr'.plan = p /\ xfr'.k = 0 /\ xfr'.tag \in {1, 2} /\ ~xfr'.over
           /\ xfr'.todo = BytesOf(p, xfr'.tag)
<1>1. /\ xfr'.plan = p /\ xfr'.k = 0 /\ xfr'.tag = NextTag(p) /\ ~xfr'.over
      /\ xfr'.todo = BytesOf(p, NextTag(p))
  BY DEF Begins, NextTransfer
<1>2. NextTag(p) \in {1, 2}
  <2>1. xfr.tag \in {1, 2}
    BY DEF BusTypes
  <2> QED
    BY <2>1 DEF NextTag
<1>3. p \in AllPlans /\ p \in Plans
  BY DEF Begins, AllPlans
<1>4. BytesOf(p, NextTag(p)) \in Seq(Nat)
  BY <1>2, <1>3, BytesAre
<1>5. xfr' \in [plan : AllPlans, tag : {1, 2}, todo : Seq(Nat), k : Nat,
                over : BOOLEAN, expected : BOOLEAN]
  BY <1>2, <1>3, <1>4 DEF Begins, NextTransfer
<1>6. last_byte' = last_byte
  BY DEF Begins, Clock, Handler, Latches, Starts
<1>7. phase' \in {"Quiet", "Byte", "Bit"} /\ calm' \in 0 .. LongGap /\ last_byte' \in Byte
  BY <1>6, CallFacts DEF Begins, BusTypes
<1> QED
  BY <1>1, <1>2, <1>5, <1>7 DEF BusTypes

\* And with the FSM at its first byte.
LEMMA BusBegin ==
    ASSUME WriteCalls, BusTypes, BusSide, NEW p, Begins(p)
    PROVE  BusSide'
<1>1. PICK e : Handler(e) /\ Starts(e)
  BY DEF Begins, Clock
<1>2. /\ xfr'.plan = p /\ xfr'.k = 0 /\ xfr'.tag \in {1, 2} /\ ~xfr'.over
      /\ xfr'.todo = BytesOf(p, xfr'.tag)
  BY BeginTypes
<1>3. phase' = "Byte" /\ calm' = 0 /\ calm >= ShortGap /\ p \in Plans
  BY DEF Begins
<1>4. calm \in Nat /\ calm # 0
  BY <1>3, CallFacts, PlaceFacts
<1>5. /\ fsm' = fsm_next(e)
      /\ ~parity_err'
      /\ rx_valid' = /\ ~(rx_valid /\ rx_wready)
                     /\ \/ rx_valid
                        \/ fsm = "RxPWriteTbit" /\ fsm_next(e) # "RxPWriteTbit"
  BY <1>1, FrontClock DEF Starts, BusSide
<1>6. fsm \in {"Idle", "Wait", "RxSByte", "RxPWriteData"}
  BY EndFacts DEF Begins, BusSide, FsmAt
<1>7. fsm' \in {"RxFByte", "RxSByteRepeated"}
  BY <1>1, <1>5, <1>6, FsmStarts
<1>8. ~rx_valid
  BY <1>4 DEF BusSide
<1>9. ~rx_valid'
  BY <1>5, <1>6, <1>8
<1>10. Between' /\ ~AtAck' /\ SentBytes' = 0
  BY <1>2, <1>3 DEF Between, AtAck, SentBytes
<1>11. FsmAt'
  BY <1>2, <1>3, <1>7, <1>10 DEF FsmAt
<1>12. /\ Len(xfr'.todo) = Size(xfr'.plan)
       /\ \A j \in 1 .. Len(xfr'.todo) : xfr'.todo[j] = ByteAt(xfr'.plan, xfr'.tag, j)
       /\ Size(xfr'.plan) \in Nat
  BY <1>2, <1>3, BytesAre, SizeIsNat DEF AllPlans
<1>13. /\ Len(xfr'.todo) = Size(xfr'.plan) - SentBytes'
       /\ \A j \in 1 .. Len(xfr'.todo) :
             xfr'.todo[j] = ByteAt(xfr'.plan, xfr'.tag, SentBytes' + j)
       /\ xfr'.k <= Size(xfr'.plan) + 1
  BY <1>2, <1>10, <1>12
<1> QED
  BY <1>2, <1>3, <1>5, <1>9, <1>10, <1>11, <1>13 DEF BusSide

\* The end of a byte.
LEMMA ByteEndMoves ==
    ASSUME WriteCalls, BusTypes, BusSide, ByteEnd
    PROVE  /\ phase = "Byte" /\ phase' = "Bit" /\ calm >= LongGap /\ calm' = 0
           /\ xfr.k = 0 \/ (xfr.k > 0 /\ xfr.todo # <<>>)
           /\ xfr'.plan = xfr.plan /\ xfr'.tag = xfr.tag /\ xfr'.k = xfr.k + 1
           /\ xfr'.over = xfr.over
           /\ xfr'.todo = IF xfr.k = 0 THEN xfr.todo ELSE Tail(xfr.todo)
           /\ \E e : /\ Clock(e, <<>>) /\ Dones(e) /\ e.hdr = HeaderOf(xfr.plan)
                     /\ e.byte = [f |-> xfr.tag, k |-> xfr.k + 1,
                                  v |-> IF xfr.k = 0 THEN 0 ELSE Head(xfr.todo)]
<1>1. phase = "Byte" /\ calm >= LongGap /\ phase' = "Bit" /\ calm' = 0
  BY DEF ByteEnd
<1>2. xfr \in [plan : AllPlans, tag : {1, 2}, todo : Seq(Nat), k : Nat,
               over : BOOLEAN, expected : BOOLEAN]
  BY DEF BusTypes
<1>3. /\ xfr' = [xfr EXCEPT !.k = @ + 1,
                            !.todo = IF xfr.k = 0 \/ IsRead THEN @ ELSE Tail(@)]
      /\ xfr.k = 0 \/ xfr.todo # <<>> \/ IsRead
  BY DEF ByteEnd
<1>4. ~IsRead
  BY NoRead
<1>5. /\ xfr'.plan = xfr.plan /\ xfr'.tag = xfr.tag /\ xfr'.k = xfr.k + 1
      /\ xfr'.over = xfr.over
      /\ xfr'.todo = IF xfr.k = 0 THEN xfr.todo ELSE Tail(xfr.todo)
  BY <1>2, <1>3, <1>4
<1>6. xfr.k = 0 \/ (xfr.k > 0 /\ xfr.todo # <<>>)
  BY <1>2, <1>3, <1>4
<1> QED
  BY <1>1, <1>5, <1>6, ByteEndEvent

\* The byte that ends is the one of its place.
LEMMA NextByte ==
    ASSUME WriteCalls, BusTypes, BusSide, ByteEnd, xfr.k > 0
    PROVE  /\ Head(xfr.todo) = ByteAt(xfr.plan, xfr.tag, xfr.k)
           /\ Tail(xfr.todo) \in Seq(Nat)
           /\ Len(Tail(xfr.todo)) = Size(xfr.plan) - xfr.k
           /\ xfr.k <= Size(xfr.plan)
           /\ \A j \in 1 .. Len(Tail(xfr.todo)) :
                 Tail(xfr.todo)[j] = ByteAt(xfr.plan, xfr.tag, xfr.k + j)
<1>1. xfr.todo \in Seq(Nat) /\ xfr.todo # <<>> /\ xfr.k \in Nat
  BY ByteEndMoves DEF BusTypes
<1>2. xfr.plan \in AllPlans
  BY DEF BusTypes
<1>3. Size(xfr.plan) \in Nat
  BY <1>2, SizeIsNat
<1>4. /\ Len(xfr.todo) = Size(xfr.plan) - (xfr.k - 1)
      /\ \A j \in 1 .. Len(xfr.todo) :
            xfr.todo[j] = ByteAt(xfr.plan, xfr.tag, (xfr.k - 1) + j)
  BY <1>1 DEF BusSide, SentBytes
<1> DEFINE s == xfr.todo
           k == xfr.k
           z == Size(xfr.plan)
           B(j) == ByteAt(xfr.plan, xfr.tag, j)
<1>5. /\ s \in Seq(Nat) /\ s # <<>> /\ k \in Nat /\ k > 0 /\ z \in Nat /\ Len(s) = z - (k - 1)
      /\ \A j \in 1 .. Len(s) : s[j] = B((k - 1) + j)
  BY <1>1, <1>3, <1>4
<1> HIDE DEF s, k, z, B
<1>6. Len(s) >= 1 /\ Head(s) = s[1] /\ Tail(s) \in Seq(Nat) /\ Len(Tail(s)) = Len(s) - 1
      /\ \A j \in 1 .. Len(Tail(s)) : Tail(s)[j] = s[j + 1]
  BY <1>5
<1>7. Head(s) = B(k)
  <2>1. s[1] = B((k - 1) + 1)
    BY <1>5, <1>6
  <2> QED
    BY <1>5, <1>6, <2>1
<1>8. Len(Tail(s)) = z - k /\ k <= z
  BY <1>5, <1>6
<1>9. ASSUME NEW j \in 1 .. Len(Tail(s)) PROVE Tail(s)[j] = B(k + j)
  <2>1. j + 1 \in 1 .. Len(s) /\ (k - 1) + (j + 1) = k + j
    BY <1>5, <1>6
  <2> QED
    BY <1>5, <1>6, <2>1
<1> QED
  BY <1>6, <1>7, <1>8, <1>9 DEF s, k, z, B

\* The types after the end of a byte.
LEMMA ByteEndTypes ==
    ASSUME WriteCalls, BusTypes, BusSide, ByteEnd
    PROVE  BusTypes'
<1>1. xfr \in [plan : AllPlans, tag : {1, 2}, todo : Seq(Nat), k : Nat,
               over : BOOLEAN, expected : BOOLEAN]
  BY DEF BusTypes
<1>2. xfr.k > 0 => Tail(xfr.todo) \in Seq(Nat) /\ Head(xfr.todo) \in Nat
  <2>1. ASSUME xfr.k > 0 PROVE Head(xfr.todo) \in Nat
    <3>1. xfr.plan \in AllPlans /\ xfr.tag \in {1, 2} /\ xfr.k \in Nat
      BY <1>1
    <3>2. ByteAt(xfr.plan, xfr.tag, xfr.k) \in Nat
      BY <3>1, ByteAtIsNat
    <3> QED
      BY <2>1, <3>2, NextByte
  <2> QED
    BY <2>1, NextByte
<1>3. xfr' = [xfr EXCEPT !.k = @ + 1,
                         !.todo = IF xfr.k = 0 \/ IsRead THEN @ ELSE Tail(@)]
  BY DEF ByteEnd
<1>4. xfr' \in [plan : AllPlans, tag : {1, 2}, todo : Seq(Nat), k : Nat,
                over : BOOLEAN, expected : BOOLEAN]
  <2> DEFINE t == IF xfr.k = 0 THEN xfr.todo ELSE Tail(xfr.todo)
  <2>1. t \in Seq(Nat) /\ xfr.k + 1 \in Nat
    BY <1>1, <1>2
  <2>2. xfr' = [xfr EXCEPT !.k = xfr.k + 1, !.todo = t]
    BY <1>3, NoRead
  <2> HIDE DEF t
  <2> QED
    BY <1>1, <2>1, <2>2
<1>5. PICK e : /\ Handler(e) /\ Dones(e)
               /\ e.byte = [f |-> xfr.tag, k |-> xfr.k + 1,
                            v |-> IF xfr.k = 0 THEN 0 ELSE Head(xfr.todo)]
  BY ByteEndMoves DEF Clock
<1>6. e.byte \in Byte
  BY <1>1, <1>2, <1>5 DEF Byte
<1>7. last_byte' \in Byte
  BY <1>5, <1>6 DEF Handler, Latches, BusTypes
<1>8. phase' \in {"Quiet", "Byte", "Bit"} /\ calm' \in 0 .. LongGap
  BY ByteEndMoves, CallFacts
<1> QED
  BY <1>4, <1>7, <1>8, Zenon DEF BusTypes

\* Controller and FSM reach the ACK or the T-bit together.
LEMMA BusByteEnd ==
    ASSUME WriteCalls, BusTypes, BusSide, ByteEnd
    PROVE  BusSide'
<1>1. PICK e : /\ Clock(e, <<>>) /\ Dones(e) /\ e.hdr = HeaderOf(xfr.plan)
               /\ e.byte = [f |-> xfr.tag, k |-> xfr.k + 1,
                            v |-> IF xfr.k = 0 THEN 0 ELSE Head(xfr.todo)]
  BY ByteEndMoves
<1>2. /\ phase = "Byte" /\ phase' = "Bit" /\ calm >= LongGap /\ calm' = 0
      /\ xfr'.plan = xfr.plan /\ xfr'.tag = xfr.tag /\ xfr'.k = xfr.k + 1
      /\ xfr'.over = xfr.over /\ ~xfr.over
      /\ xfr'.todo = IF xfr.k = 0 THEN xfr.todo ELSE Tail(xfr.todo)
      /\ xfr.k = 0 \/ (xfr.k > 0 /\ xfr.todo # <<>>)
  BY ByteEndMoves DEF ByteEnd
<1>3. /\ fsm \in Places /\ calm \in Nat /\ xfr.k \in Nat /\ xfr.plan \in AllPlans
      /\ xfr.tag \in {1, 2}
      /\ ~Between => ~bus_addr.rnw
  BY PlaceFacts
<1>4. calm # 0
  BY <1>2, <1>3, CallFacts
<1>5. /\ fsm' = fsm_next(e)
      /\ bus_addr' = IF fsm \in {"RxFByte", "RxSByte", "RxSByteRepeated"}
                     THEN e.hdr ELSE IF fsm = "Idle" THEN NoHeader ELSE bus_addr
      /\ last_byte' = IF fsm_rx_byte THEN e.byte ELSE last_byte
      /\ ~parity_err'
      /\ rx_valid' = /\ ~(rx_valid /\ rx_wready)
                     /\ \/ rx_valid
                        \/ fsm = "RxPWriteTbit" /\ fsm_next(e) # "RxPWriteTbit"
      /\ last_q' = (fsm = "RxPWriteData" /\ fsm_next(e) \in {"RxFByte", "Idle"})
  BY <1>1, FrontClock DEF Dones, BusSide, Clock
<1>6. ~rx_valid
  BY <1>4 DEF BusSide
<1>7. CASE xfr.k = 0
  <2>1. fsm \in {"RxFByte", "RxSByteRepeated"}
    BY <1>2, <1>7 DEF BusSide, FsmAt
  <2>2. fsm' \in {"CheckFByte", "CheckSByte"}
    <3>1. fsm_next(e) \in {"CheckFByte", "CheckSByte"}
      BY <1>1, <2>1, FsmInputs
         DEF Dones, fsm_rx_byte, fsm_next, state_d, Transition, OnHeader, OnControl
    <3> QED
      BY <1>5, <3>1
  <2>3. bus_addr' = HeaderOf(xfr.plan) /\ last_byte' = e.byte /\ ~rx_valid' /\ ~last_q'
    BY <1>1, <1>5, <1>6, <2>1 DEF fsm_rx_byte
  <2>4. ~Between' /\ AtAck' /\ SentBytes' = 0 /\ SentBytes = 0 /\ xfr'.k = 1
    BY <1>2, <1>7 DEF Between, AtAck, SentBytes
  <2>5. FsmAt'
    BY <1>2, <2>2, <2>4 DEF FsmAt
  <2>6. xfr'.k <= Size(xfr'.plan) + 1
    BY <1>2, <1>3, <2>4, SizeIsNat
  <2>7. last_byte' = [f |-> xfr'.tag, k |-> xfr'.k, v |-> 0]
    BY <1>1, <1>2, <1>7, <2>3
  <2> QED
    BY <1>2, <1>5, <1>7, <2>3, <2>4, <2>5, <2>6, <2>7 DEF BusSide
<1>8. CASE xfr.k > 0
  <2>1. ~Between
    BY <1>2, <1>8 DEF Between
  <2>2. xfr.todo # <<>>
    BY <1>2, <1>8
  <2>3. /\ Head(xfr.todo) = ByteAt(xfr.plan, xfr.tag, xfr.k)
        /\ Len(Tail(xfr.todo)) = Size(xfr.plan) - xfr.k
        /\ xfr.k <= Size(xfr.plan)
        /\ \A j \in 1 .. Len(Tail(xfr.todo)) :
              Tail(xfr.todo)[j] = ByteAt(xfr.plan, xfr.tag, xfr.k + j)
    BY <1>8, NextByte
  <2>4. ForUs
    BY <1>3, <1>8, <2>3, PlanFacts DEF Size, ForUs
  <2>5. fsm = "RxPWriteData"
    <3>1. FsmAt
      BY DEF BusSide
    <3> QED
      BY <1>2, <1>8, <2>4, <3>1 DEF FsmAt, ForUs
  <2>6. fsm' = "RxPWriteTbit"
    BY <1>1, <1>3, <1>5, <2>1, <2>5, FsmDones
  <2>7. bus_addr' = bus_addr /\ last_byte' = e.byte /\ ~rx_valid' /\ ~last_q'
    BY <1>5, <1>6, <2>5, <2>6 DEF fsm_rx_byte
  <2>8. ~Between' /\ ~AtAck' /\ SentBytes' = xfr.k /\ ForUs' /\ xfr'.k > 1
    BY <1>2, <1>3, <1>8, <2>4 DEF Between, AtAck, SentBytes, ForUs
  <2>9. FsmAt'
    BY <1>2, <2>6, <2>8 DEF FsmAt
  <2>10. bus_addr' = HeaderOf(xfr'.plan)
    BY <1>2, <2>1, <2>7 DEF BusSide
  <2>11. last_byte' = [f |-> xfr'.tag, k |-> xfr'.k,
                       v |-> ByteAt(xfr'.plan, xfr'.tag, xfr'.k - 1)]
    <3>1. xfr'.k - 1 = xfr.k
      BY <1>2, <1>3
    <3>2. last_byte' = [f |-> xfr.tag, k |-> xfr.k + 1, v |-> ByteAt(xfr.plan, xfr.tag, xfr.k)]
      BY <1>1, <1>8, <2>3, <2>7
    <3> QED
      BY <1>2, <3>1, <3>2
  <2>12. /\ Len(xfr'.todo) = Size(xfr'.plan) - SentBytes'
         /\ \A j \in 1 .. Len(xfr'.todo) :
               xfr'.todo[j] = ByteAt(xfr'.plan, xfr'.tag, SentBytes' + j)
         /\ xfr'.k <= Size(xfr'.plan) + 1
    BY <1>2, <1>3, <1>8, <2>3, <2>8, SizeIsNat
  <2>13. ~(phase' = "Byte") /\ ~xfr'.over /\ xfr'.k # 1
    BY <1>2, <2>8
  <2>14. phase' = "Bit" => xfr'.k > 0
    BY <1>2, <1>3
  <2> QED
    BY <1>5, <2>7, <2>8, <2>9, <2>10, <2>11, <2>12, <2>13, <2>14, Zenon DEF BusSide
<1> QED
  BY <1>2, <1>7, <1>8

\* The end of a bit.
LEMMA BitEndMoves ==
    ASSUME WriteCalls, BusTypes, BusSide, BitEnd
    PROVE  /\ phase = "Bit" /\ phase' = "Byte" /\ calm >= ShortGap /\ calm' = 0
           /\ xfr'.plan = xfr.plan /\ xfr'.tag = xfr.tag /\ xfr'.k = xfr.k
           /\ xfr'.over = (xfr.k = 1 /\ ~Acked)
           /\ xfr'.todo = xfr.todo
           /\ BusTypes'
<1>1. phase = "Bit" /\ calm >= ShortGap /\ phase' = "Byte" /\ calm' = 0
  BY DEF BitEnd
<1>2. xfr \in [plan : AllPlans, tag : {1, 2}, todo : Seq(Nat), k : Nat,
               over : BOOLEAN, expected : BOOLEAN]
  BY DEF BusTypes
<1> DEFINE o == (xfr.k = 1 /\ ~Acked)
<1>3. xfr' = [xfr EXCEPT !.over = o]
  BY NoRead DEF BitEnd
<1> HIDE DEF o
<1>4. o \in BOOLEAN
  BY DEF o
<1>5. /\ xfr'.plan = xfr.plan /\ xfr'.tag = xfr.tag /\ xfr'.k = xfr.k
      /\ xfr'.over = o /\ xfr'.todo = xfr.todo
  BY <1>2, <1>3
<1>6. xfr' \in [plan : AllPlans, tag : {1, 2}, todo : Seq(Nat), k : Nat,
                over : BOOLEAN, expected : BOOLEAN]
  BY <1>2, <1>3, <1>4
<1>7. last_byte' \in Byte
  <2>1. PICK e : Handler(e) /\ Dones(e)
    BY BitEndEvent DEF Clock
  <2>2. last_byte' = IF fsm_rx_byte THEN e.byte ELSE last_byte
    BY <2>1 DEF Handler, Latches, Dones
  <2>3. ~fsm_rx_byte
    BY <1>1, PlaceFacts DEF BusSide, FsmAt, AtAck, fsm_rx_byte
  <2> QED
    BY <2>2, <2>3 DEF BusTypes
<1>8. phase' \in {"Quiet", "Byte", "Bit"} /\ calm' \in 0 .. LongGap
  BY <1>1, CallFacts
<1>9. BusTypes'
  BY <1>6, <1>7, <1>8, Zenon DEF BusTypes
<1> QED
  BY <1>1, <1>5, <1>9 DEF o

\* And the next byte.
LEMMA BusBitEnd ==
    ASSUME WriteCalls, BusTypes, BusSide, BitEnd
    PROVE  BusSide'
<1>1. PICK e : Handler(e) /\ Dones(e)
  BY BitEndEvent DEF Clock
<1>2. /\ phase = "Bit" /\ phase' = "Byte" /\ calm >= ShortGap /\ calm' = 0
      /\ xfr'.plan = xfr.plan /\ xfr'.tag = xfr.tag /\ xfr'.k = xfr.k
      /\ xfr'.over = (xfr.k = 1 /\ ~Acked)
      /\ xfr'.todo = xfr.todo
  BY BitEndMoves
<1>3. /\ fsm \in Places /\ calm \in Nat /\ xfr.k \in Nat /\ xfr.plan \in AllPlans
      /\ ~Between => /\ ~bus_addr.rnw /\ (addressed <=> ForUs)
                     /\ is_rsvd_byte_match <=> (xfr.plan.kind = "broadcast")
  BY PlaceFacts
<1>4. xfr.k > 0 /\ FsmAt
  BY <1>2 DEF BusSide
<1>5. calm > 0 /\ ~Between
  BY <1>2, <1>3, <1>4, CallFacts DEF Between
<1>6. /\ fsm' = fsm_next(e)
      /\ bus_addr' = IF fsm \in {"RxFByte", "RxSByte", "RxSByteRepeated"}
                     THEN e.hdr ELSE IF fsm = "Idle" THEN NoHeader ELSE bus_addr
      /\ last_byte' = IF fsm_rx_byte THEN e.byte ELSE last_byte
      /\ ~parity_err'
      /\ rx_valid' = /\ ~(rx_valid /\ rx_wready)
                     /\ \/ rx_valid
                        \/ fsm = "RxPWriteTbit" /\ fsm_next(e) # "RxPWriteTbit"
      /\ last_q' = (fsm = "RxPWriteData" /\ fsm_next(e) \in {"RxFByte", "Idle"})
  BY <1>1, FrontClock DEF Dones, BusSide
<1>7. ~rx_valid
  BY <1>5 DEF BusSide
<1>8. /\ ~Between' /\ ~AtAck' /\ SentBytes' = SentBytes /\ (ForUs' <=> ForUs)
  BY <1>2, <1>4, <1>5 DEF Between, AtAck, SentBytes, ForUs
<1>9. fsm \in {"TxAckFByte", "TxAckSByte", "Wait", "RxPWriteTbit"}
  BY <1>2, <1>3, <1>4, <1>5 DEF FsmAt, AtAck
<1>10. bus_addr' = bus_addr /\ last_byte' = last_byte /\ ~last_q'
  BY <1>6, <1>9 DEF fsm_rx_byte
<1>11. FsmAt' /\ (rx_valid' <=> xfr.k > 1)
  <2>1. CASE xfr.k > 1
    <3>1. fsm = "RxPWriteTbit" /\ ForUs
      BY <1>2, <1>4, <2>1 DEF FsmAt, BusSide
    <3>2. fsm_next(e) = "RxPWriteData"
      BY <1>1, <1>3, <1>5, <3>1, FsmDones
    <3> QED
      <4>1. ~xfr'.over /\ ~(xfr'.k = 0) /\ xfr'.k # 1
        <5>1. xfr.k # 1 /\ xfr.k # 0
          BY <1>3, <2>1
        <5> QED
          BY <1>2, <5>1, Zenon
      <4>2. rx_valid' /\ fsm' = "RxPWriteData"
        BY <1>6, <1>7, <3>1, <3>2
      <4>3. FsmAt'
        BY <1>2, <1>8, <3>1, <4>1, <4>2 DEF FsmAt
      <4> QED
        BY <2>1, <4>2, <4>3
  <2>2. CASE xfr.k = 1 /\ ForUs
    <3>1. fsm \in {"TxAckFByte", "TxAckSByte"} /\ addressed /\ ~xfr'.over
      BY <1>2, <1>3, <1>4, <1>5, <2>2 DEF FsmAt, AtAck, ForUs, Acked
    <3>2. fsm_next(e) = "RxPWriteData"
      BY <1>1, <1>3, <1>5, <3>1, FsmDones
    <3> QED
      BY <1>2, <1>6, <1>7, <1>8, <1>9, <2>2, <3>1, <3>2 DEF FsmAt
  <2>3. CASE xfr.k = 1 /\ ~ForUs
    <3>1. fsm \in {"TxAckFByte", "Wait"} /\ (fsm = "TxAckFByte" => is_rsvd_byte_match)
      BY <1>2, <1>3, <1>4, <1>5, <2>3 DEF FsmAt, AtAck
    <3>2. CASE fsm = "TxAckFByte"
      <4>1. fsm_next(e) = "RxSByte" /\ xfr.plan.kind = "broadcast" /\ ~xfr'.over
        BY <1>1, <1>2, <1>3, <1>5, <3>1, <3>2, FsmDones DEF Acked
      <4> QED
        BY <1>2, <1>6, <1>7, <1>8, <2>3, <3>2, <4>1 DEF FsmAt
    <3>3. CASE fsm = "Wait"
      <4>1. fsm_next(e) = "Wait" /\ xfr'.over
        BY <1>1, <1>2, <1>3, <1>5, <2>3, <3>3, FsmDones DEF Acked
      <4> QED
        BY <1>2, <1>6, <1>7, <1>8, <2>3, <3>3, <4>1 DEF FsmAt
    <3> QED
      BY <3>1, <3>2, <3>3
  <2> QED
    BY <1>3, <1>4, <2>1, <2>2, <2>3
<1>12. /\ bus_addr' = HeaderOf(xfr'.plan)
       /\ last_byte' = [f |-> xfr'.tag, k |-> xfr'.k,
                        v |-> IF xfr'.k = 1 THEN 0
                              ELSE ByteAt(xfr'.plan, xfr'.tag, xfr'.k - 1)]
  BY <1>2, <1>5, <1>10 DEF BusSide
<1>13. /\ xfr'.k <= Size(xfr'.plan) + 1
       /\ Len(xfr'.todo) = Size(xfr'.plan) - SentBytes'
       /\ \A j \in 1 .. Len(xfr'.todo) :
             xfr'.todo[j] = ByteAt(xfr'.plan, xfr'.tag, SentBytes' + j)
  BY <1>2, <1>8 DEF BusSide
<1>14. phase' # "Quiet" /\ xfr'.k > 1 => ForUs'
  BY <1>2, <1>8 DEF BusSide
<1> QED
  BY <1>2, <1>4, <1>6, <1>8, <1>10, <1>11, <1>12, <1>13, <1>14 DEF BusSide

\* The end of a transfer.
LEMMA BusStop ==
    ASSUME WriteCalls, BusTypes, BusSide, STOP
    PROVE  BusTypes' /\ BusSide' /\ phase' = "Quiet" /\ calm' = 0 /\ xfr' = xfr
<1>1. Handler(StopEvent) /\ Stops(StopEvent) /\ MayEnd
  BY StopsEvent DEF STOP, Clock, StopEvent
<1>2. phase' = "Quiet" /\ calm' = 0 /\ xfr' = xfr
  BY DEF STOP
<1>3. phase = "Byte" /\ xfr.k > 0 /\ calm >= ShortGap /\ fsm \in {"Wait", "RxSByte", "RxPWriteData"}
  BY <1>1, EndFacts
<1>4. fsm \in Places /\ calm \in Nat
  BY PlaceFacts
<1>5. /\ fsm' = fsm_next(StopEvent)
      /\ last_byte' = last_byte
      /\ ~parity_err'
      /\ rx_valid' = /\ ~(rx_valid /\ rx_wready)
                     /\ \/ rx_valid
                        \/ fsm = "RxPWriteTbit" /\ fsm_next(StopEvent) # "RxPWriteTbit"
  BY <1>1, FrontClock DEF Stops, BusSide
<1>6. fsm' = "Idle"
  BY <1>1, <1>4, <1>5, FsmStops
<1>7. ~rx_valid
  BY <1>3, <1>4, CallFacts DEF BusSide
<1>8. Between' /\ ~AtAck' /\ SentBytes' = SentBytes
  BY <1>2 DEF Between, AtAck, SentBytes
<1>9. ~rx_valid' /\ FsmAt'
  BY <1>2, <1>3, <1>5, <1>6, <1>7, <1>8 DEF FsmAt
<1>10. BusTypes'
  BY <1>2, <1>5, CallFacts DEF BusTypes
<1>11. /\ xfr'.k <= Size(xfr'.plan) + 1
       /\ Len(xfr'.todo) = Size(xfr'.plan) - SentBytes'
       /\ \A j \in 1 .. Len(xfr'.todo) :
             xfr'.todo[j] = ByteAt(xfr'.plan, xfr'.tag, SentBytes' + j)
  BY <1>2, <1>8 DEF BusSide
<1> QED
  BY <1>2, <1>5, <1>8, <1>9, <1>10, <1>11 DEF BusSide

\* The bus side of the invariant holds after every action.
LEMMA BusStep ==
    ASSUME WriteCalls, BusTypes, BusSide, Next, rx_valid => rx_wready
    PROVE  BusTypes' /\ BusSide'
<1>1. ASSUME Tick PROVE BusTypes' /\ BusSide'
  BY <1>1, BusTypesTick, BusTick
<1>2. ASSUME START \/ RepeatedStart PROVE BusTypes' /\ BusSide'
  BY <1>2, StartBegins, RepeatedStartBegins, BeginTypes, BusBegin
<1>3. ASSUME ByteEnd PROVE BusTypes' /\ BusSide'
  BY <1>3, ByteEndTypes, BusByteEnd
<1>4. ASSUME BitEnd PROVE BusTypes' /\ BusSide'
  BY <1>4, BitEndMoves, BusBitEnd
<1>5. ASSUME STOP PROVE BusTypes' /\ BusSide'
  BY <1>5, BusStop
<1> QED
  BY <1>1, <1>2, <1>3, <1>4, <1>5 DEF Next

-----------------------------------------------------------------------------
(* The registers of the handler. *)

\* The arithmetic of the 16-bit counters.
LEMMA CountStaysSmall ==
    ASSUME NEW n \in Nat, n < 65536, NEW v \in Nat
    PROVE  /\ (n \div 256) * 256 + (v % 256) \in Nat
           /\ (n \div 256) * 256 + (v % 256) < 65536
           /\ ((n \div 256) * 256 + (v % 256)) % 256 = v % 256
           /\ (v % 256) * 256 + (n % 256) \in Nat
           /\ (v % 256) * 256 + (n % 256) < 65536
           /\ (n + 65535) % 65536 \in Nat /\ (n + 65535) % 65536 < 65536
           /\ n > 0 => (n + 65535) % 65536 = n - 1
<1> DEFINE a == n \div 256
           b == v % 256
           c == n % 256
<1>1. a \in Nat /\ a < 256 /\ b \in Nat /\ b < 256 /\ c \in Nat /\ c < 256
  OBVIOUS
<1>2. (n + 65535) % 65536 \in Nat /\ (n + 65535) % 65536 < 65536
  OBVIOUS
<1>3. n > 0 => (n + 65535) % 65536 = n - 1
  OBVIOUS
<1> HIDE DEF a, b, c
<1>4. (a * 256 + b) % 256 = b
  BY <1>1
<1>5. /\ a * 256 + b \in Nat /\ a * 256 + b < 65536
      /\ b * 256 + c \in Nat /\ b * 256 + c < 65536
  BY <1>1
<1> QED
  BY <1>2, <1>3, <1>4, <1>5 DEF a, b, c

\* The types of the handler hold after every clock.
LEMMA HandlerTypesStep ==
    ASSUME WriteCalls, BusTypes, HandlerTypes, NEW e, Handler(e)
    PROVE  HandlerTypes'
<1> DEFINE i == recv_in(e)
<1>1. i.byte = last_byte /\ last_byte \in Byte /\ last_byte.v \in Nat
  BY DEF recv_in, BusTypes, Byte
<1>2. Receiver(i)
  BY DEF Handler
<1> HIDE DEF i
<1>3. hdr \in [cmd : Byte, lsb : Nat, msb : Nat, pec : Nat]
  BY DEF HandlerTypes
<1>4. hdr' \in [cmd : Byte, lsb : Nat, msb : Nat, pec : Nat]
  <2>1. [cmd |-> NoByte, lsb |-> 0, msb |-> 0, pec |-> 0]
          \in [cmd : Byte, lsb : Nat, msb : Nat, pec : Nat]
    BY DEF NoByte, Byte
  <2>2. /\ [hdr EXCEPT !.cmd = i.byte] \in [cmd : Byte, lsb : Nat, msb : Nat, pec : Nat]
        /\ [hdr EXCEPT !.lsb = i.byte.v] \in [cmd : Byte, lsb : Nat, msb : Nat, pec : Nat]
        /\ [hdr EXCEPT !.msb = i.byte.v] \in [cmd : Byte, lsb : Nat, msb : Nat, pec : Nat]
        /\ [hdr EXCEPT !.pec = i.byte.v] \in [cmd : Byte, lsb : Nat, msb : Nat, pec : Nat]
        /\ [hdr EXCEPT !.lsb = 0, !.msb = 0, !.pec = hdr.lsb]
              \in [cmd : Byte, lsb : Nat, msb : Nat, pec : Nat]
    BY <1>1, <1>3
  <2> QED
    BY <1>2, <1>3, <2>1, <2>2, Zenon DEF Receiver, Header
<1>5. payload_left' \in Nat /\ payload_left' < 65536
  <2> DEFINE Small(n) == n \in Nat /\ n < 65536
  <2>1. Small(payload_left)
    BY DEF HandlerTypes
  <2>2. /\ Small((payload_left \div 256) * 256 + (i.byte.v % 256))
        /\ Small((i.byte.v % 256) * 256 + (payload_left % 256))
        /\ Small((payload_left + 65535) % 65536)
    BY <1>1, <2>1, CountStaysSmall
  <2> HIDE DEF Small
  <2>3. Small(payload_left')
    <3>1. PayloadCount(i)
      BY <1>2 DEF Receiver
    <3>2. CASE recv = "RxLenL" /\ rx_flow(i)
      BY <2>2, <3>1, <3>2 DEF PayloadCount
    <3>3. CASE recv = "RxLenH" /\ rx_flow(i)
      BY <2>2, <3>1, <3>3 DEF PayloadCount
    <3>4. CASE recv = "RxData" /\ i.qflow
      BY <2>2, <3>1, <3>4 DEF PayloadCount
    <3>5. CASE /\ ~(recv = "RxLenL" /\ rx_flow(i)) /\ ~(recv = "RxLenH" /\ rx_flow(i))
               /\ ~(recv = "RxData" /\ i.qflow)
      <4>1. payload_left' = payload_left
        BY <3>1, <3>5 DEF PayloadCount
      <4> QED
        BY <2>1, <4>1
    <3> QED
      BY <3>2, <3>3, <3>4, <3>5
  <2> QED
    BY <2>3 DEF Small
<1>6. conv.bytes \in Seq(Byte) /\ conv.full \in BOOLEAN /\ rx_queue \in Seq(Seq(Byte))
  BY DEF HandlerTypes
<1>7. conv' \in [bytes : Seq(Byte), full : BOOLEAN]
  <2> DEFINE b == IF data_queue_flow THEN Append(conv.bytes, last_byte)
                  ELSE IF conv_pop THEN <<>> ELSE conv.bytes
             f == \/ conv_flush /\ (conv.full \/ conv.bytes # <<>>)
                  \/ data_queue_flow /\ Len(conv.bytes) = 3
                  \/ conv.full /\ ~conv_pop
  <2>1. conv' = [bytes |-> b, full |-> f]
    BY DEF Handler, Converter
  <2>2. b \in Seq(Byte)
    BY <1>1, <1>6
  <2>3. f \in BOOLEAN
    OBVIOUS
  <2> HIDE DEF b, f
  <2> QED
    BY <2>1, <2>2, <2>3
<1>8. rx_queue' \in Seq(Seq(Byte))
  <2> DEFINE a == IF port.rready /\ RValid(rx_queue) THEN Tail(rx_queue) ELSE rx_queue
             o == IF conv.full THEN <<conv.bytes>> ELSE <<>>
             c == IF WReady(rx_queue, RxDepth) THEN o ELSE <<>>
  <2>1. rx_queue' = IF rx_clr THEN <<>> ELSE a \o c
    BY DEF Handler, RxDataQueue, FifoStep
  <2>2. a \in Seq(Seq(Byte))
    BY <1>6 DEF RValid
  <2>3. c \in Seq(Seq(Byte))
    BY <1>6
  <2> HIDE DEF a, c
  <2>4. a \o c \in Seq(Seq(Byte))
    BY <2>2, <2>3, ConcatProperties, Zenon
  <2>5. <<>> \in Seq(Seq(Byte))
    OBVIOUS
  <2> QED
    BY <2>1, <2>4, <2>5, Zenon
<1>9. virtual_sel' \in BOOLEAN /\ xfer_in_progress' \in BOOLEAN
  <2>1. virtual_sel' \in BOOLEAN
    <3>1. virtual_sel \in BOOLEAN
      BY DEF HandlerTypes
    <3>2. virtual_sel' = IF checks_header /\ ~is_rsvd_byte_match
                         THEN bus_addr.addr = "virtual" ELSE virtual_sel
      BY DEF Handler, Latches
    <3> QED
      BY <3>1, <3>2, Zenon
  <2>2. addressed \in BOOLEAN /\ xfer_in_progress \in BOOLEAN
    BY DEF addressed, HandlerTypes
  <2>3. xfer_in_progress' = CASE fsm = "Idle" -> FALSE
                              [] checks_header -> addressed
                              [] OTHER -> xfer_in_progress
    BY DEF Handler, Latches, XferLatch
  <2> QED
    BY <2>1, <2>2, <2>3, Zenon
<1>10. mode_enter' \in 0 .. 2
  BY DEF Handler, Registers, HandlerTypes
<1> QED
  BY <1>4, <1>5, <1>7, <1>8, <1>9, <1>10 DEF HandlerTypes

-----------------------------------------------------------------------------
(* The selection. *)

\* The header is checked in the first clock of its ACK bit.
LEMMA HeaderChecked ==
    ASSUME WriteCalls, BusTypes, BusSide
    PROVE  /\ checks_header <=> (AtAck /\ calm = 0)
           /\ fsm = "Idle" <=> phase = "Quiet"
<1>1. /\ phase \in {"Quiet", "Byte", "Bit"} /\ calm \in Nat /\ xfr.k \in Nat
      /\ phase = "Bit" => xfr.k > 0
  BY PlaceFacts DEF BusSide
<1>2. FsmAt
  BY DEF BusSide
<1>3. CASE phase = "Quiet"
  BY <1>2, <1>3 DEF FsmAt, AtAck, checks_header
<1>4. CASE phase = "Byte"
  BY <1>1, <1>2, <1>4 DEF FsmAt, AtAck, checks_header
<1>5. CASE phase = "Bit"
  BY <1>1, <1>2, <1>5 DEF FsmAt, AtAck, checks_header
<1> QED
  BY <1>1, <1>3, <1>4, <1>5

\* What a clock does to the selection of the virtual target.
LEMMA SelectionClock ==
    ASSUME WriteCalls, BusTypes, BusSide, HandlerTypes, NEW e, Handler(e)
    PROVE  /\ AtAck /\ calm = 0 => /\ xfer_in_progress' <=> ForUs
                                   /\ xfr.plan.kind # "broadcast" => (virtual_sel' <=> Writing)
                                   /\ xfr.plan.kind = "broadcast" => virtual_sel' = virtual_sel
           /\ ~(AtAck /\ calm = 0) => virtual_sel' = virtual_sel
           /\ ~(AtAck /\ calm = 0) /\ phase # "Quiet"
                 => xfer_in_progress' = xfer_in_progress
           /\ phase = "Quiet" => ~xfer_in_progress'
           /\ mode_enter' = IF virtual_sel THEN mode_enter \div 2 ELSE 2
<1>1. /\ xfer_in_progress' = CASE fsm = "Idle" -> FALSE
                               [] checks_header -> addressed
                               [] OTHER -> xfer_in_progress
      /\ virtual_sel' = IF checks_header /\ ~is_rsvd_byte_match
                        THEN bus_addr.addr = "virtual" ELSE virtual_sel
      /\ mode_enter' = IF virtual_sel THEN mode_enter \div 2 ELSE 2
  BY DEF Handler, Latches, XferLatch, Registers
<1>2. /\ checks_header <=> (AtAck /\ calm = 0)
      /\ fsm = "Idle" <=> phase = "Quiet"
  BY HeaderChecked
<1>3. ~Between => /\ addressed <=> ForUs
                  /\ is_rsvd_byte_match <=> (xfr.plan.kind = "broadcast")
                  /\ bus_addr.addr = "virtual" <=> Writing
  BY PlaceFacts
<1>4. ASSUME AtAck, calm = 0
      PROVE  /\ xfer_in_progress' <=> ForUs
             /\ xfr.plan.kind # "broadcast" => (virtual_sel' <=> Writing)
             /\ xfr.plan.kind = "broadcast" => virtual_sel' = virtual_sel
  <2>1. ~Between /\ phase # "Quiet"
    BY <1>4 DEF AtAck, Between
  <2>2. xfer_in_progress' = addressed
    BY <1>1, <1>2, <1>4, <2>1, Zenon
  <2>3. xfer_in_progress' <=> ForUs
    BY <1>3, <2>1, <2>2
  <2>4. checks_header
    BY <1>2, <1>4
  <2>5. xfr.plan.kind # "broadcast" => (virtual_sel' <=> Writing)
    BY <1>1, <1>3, <2>1, <2>4
  <2>6. xfr.plan.kind = "broadcast" => virtual_sel' = virtual_sel
    BY <1>1, <1>3, <2>1, <2>4
  <2> QED
    BY <2>3, <2>5, <2>6
<1>5. ASSUME ~(AtAck /\ calm = 0), phase # "Quiet" PROVE xfer_in_progress' = xfer_in_progress
  BY <1>1, <1>2, <1>5, Zenon
<1>6. ASSUME phase = "Quiet" PROVE ~xfer_in_progress'
  BY <1>1, <1>2, <1>6, Zenon DEF checks_header
<1> QED
  BY <1>1, <1>2, <1>4, <1>5, <1>6

\* Outside that check the selection stays as it is.
LEMMA SelectionKept ==
    ASSUME WriteCalls, BusTypes, BusSide, HandlerTypes, Selection, NEW e, Handler(e),
           ~(AtAck /\ calm = 0),
           Checked' => Checked /\ (Writing' <=> Writing),
           phase' = "Quiet" /\ calm' > 0 => phase = "Quiet",
           AtAck' /\ calm' \in 1 .. 2 => AtAck /\ calm \in 1 .. 2 /\ calm' = calm + 1,
           AtAck /\ calm \in 1 .. 2 => AtAck' /\ calm' = calm + 1
    PROVE  Selection'
<1>1. /\ virtual_sel' = virtual_sel
      /\ phase # "Quiet" => xfer_in_progress' = xfer_in_progress
      /\ phase = "Quiet" => ~xfer_in_progress'
      /\ mode_enter' = IF virtual_sel THEN mode_enter \div 2 ELSE 2
  BY SelectionClock
<1>2. calm \in Nat /\ mode_enter \in 0 .. 2
  BY PlaceFacts DEF HandlerTypes
<1>3. Checked => phase # "Quiet"
  BY DEF Checked, Between
<1>4. /\ Checked' /\ Writing' => virtual_sel' /\ xfer_in_progress'
      /\ Checked' /\ ~Writing' => ~(virtual_sel' /\ xfer_in_progress')
      /\ phase' = "Quiet" /\ calm' > 0 => ~xfer_in_progress'
  BY <1>1, <1>3 DEF Selection
<1>5. ~(AtAck' /\ calm' \in 1 .. 2) => mode_enter' = IF virtual_sel' THEN 0 ELSE 2
  <2> SUFFICES ASSUME ~(AtAck' /\ calm' \in 1 .. 2)
               PROVE  mode_enter' = IF virtual_sel' THEN 0 ELSE 2
    OBVIOUS
  <2>1. CASE AtAck /\ calm \in 1 .. 2
    <3>1. calm = 2
      BY <1>2, <2>1
    <3> QED
      BY <1>1, <1>2, <2>1, <3>1 DEF Selection
  <2>2. CASE ~(AtAck /\ calm \in 1 .. 2)
    BY <1>1, <1>2, <2>2 DEF Selection
  <2> QED
    BY <2>1, <2>2
<1>6. AtAck' /\ calm' = 2 => IF virtual_sel' THEN mode_enter' < 2 ELSE mode_enter' = 2
  BY <1>1, <1>2
<1> QED
  BY <1>4, <1>5, <1>6 DEF Selection

\* The selection holds after every action.
LEMMA SelectionStep ==
    ASSUME WriteCalls, BusTypes, BusSide, HandlerTypes, Selection, Next
    PROVE  Selection'
<1>1. calm \in Nat /\ xfr.k \in Nat /\ ShortGap \in Nat /\ ShortGap >= 5 /\ LongGap \in Nat
      /\ LongGap >= ShortGap
  BY PlaceFacts, CallFacts
<1>2. CASE Tick
  <2>1. PICK e : Handler(e)
    BY <1>2, TickEvent DEF Clock
  <2>2. /\ phase' = phase /\ xfr' = xfr /\ calm' \in 1 .. LongGap
        /\ calm' = IF calm < LongGap THEN calm + 1 ELSE calm
        /\ (Between' <=> Between) /\ (AtAck' <=> AtAck) /\ (Writing' <=> Writing)
    BY <1>2, TickPlaces
  <2>3. CASE AtAck /\ calm = 0
    <3>1. /\ xfer_in_progress' <=> ForUs
          /\ xfr.plan.kind # "broadcast" => (virtual_sel' <=> Writing)
      BY <2>1, <2>3, SelectionClock
    <3>2. calm' = 1 /\ phase' = "Bit"
      BY <1>1, <2>2, <2>3 DEF AtAck
    <3>3. ForUs => xfr.plan.kind # "broadcast"
      BY DEF ForUs
    <3>4. Writing => ForUs
      BY DEF Writing, ForUs
    <3> QED
      BY <2>2, <2>3, <3>1, <3>2, <3>3, <3>4 DEF Selection
  <2>4. CASE ~(AtAck /\ calm = 0)
    <3>1. Checked' => Checked
      BY <1>1, <2>2, <2>4 DEF Checked
    <3>2. AtAck' /\ calm' \in 1 .. 2 => AtAck /\ calm \in 1 .. 2 /\ calm' = calm + 1
      BY <1>1, <2>2, <2>4
    <3>3. AtAck /\ calm \in 1 .. 2 => AtAck' /\ calm' = calm + 1
      BY <1>1, <2>2
    <3> QED
      BY <2>1, <2>2, <2>4, <3>1, <3>2, <3>3, SelectionKept
  <2> QED
    BY <2>3, <2>4
<1>3. CASE START \/ RepeatedStart
  <2>1. PICK p : Begins(p)
    BY <1>3, StartBegins, RepeatedStartBegins
  <2>2. PICK e : Handler(e)
    BY <2>1 DEF Begins, Clock
  <2>3. phase' = "Byte" /\ xfr'.k = 0
    BY <2>1, BeginTypes DEF Begins
  <2>4. phase \in {"Quiet", "Byte"}
    BY <2>1 DEF Begins, MayEnd
  <2>5. ~AtAck /\ ~AtAck' /\ ~Checked'
    BY <2>3, <2>4 DEF AtAck, Checked, Between
  <2> QED
    BY <2>2, <2>3, <2>5, SelectionKept
<1>4. CASE ByteEnd
  <2>1. PICK e : Handler(e)
    BY <1>4, ByteEndMoves DEF Clock
  <2>2. /\ phase = "Byte" /\ phase' = "Bit" /\ calm' = 0
        /\ xfr'.plan = xfr.plan /\ xfr'.k = xfr.k + 1
    BY <1>4, ByteEndMoves
  <2>3. ~AtAck /\ (Writing' <=> Writing)
    BY <2>2 DEF AtAck, Writing
  <2>4. Checked' => Checked
    BY <1>1, <2>2 DEF Checked, Between, AtAck
  <2> QED
    BY <2>1, <2>2, <2>3, <2>4, SelectionKept
<1>5. CASE BitEnd
  <2>1. PICK e : Handler(e)
    BY <1>5, BitEndEvent DEF Clock
  <2>2. /\ phase = "Bit" /\ phase' = "Byte" /\ calm >= ShortGap /\ calm' = 0
        /\ xfr'.plan = xfr.plan /\ xfr'.k = xfr.k
    BY <1>5, BitEndMoves
  <2>3. ~AtAck' /\ (Writing' <=> Writing) /\ ~(calm \in 0 .. 2)
    BY <1>1, <2>2 DEF AtAck, Writing
  <2>4. Checked' => Checked
    BY <1>1, <2>2 DEF Checked, Between, AtAck
  <2> QED
    BY <1>1, <2>1, <2>2, <2>3, <2>4, SelectionKept
<1>6. CASE STOP
  <2>1. PICK e : Handler(e)
    BY <1>6 DEF STOP, Clock
  <2>2. phase = "Byte" /\ phase' = "Quiet" /\ calm' = 0
    BY <1>6 DEF STOP, MayEnd
  <2>3. ~AtAck /\ ~AtAck' /\ ~Checked'
    BY <2>2 DEF AtAck, Checked, Between
  <2> QED
    BY <2>1, <2>2, <2>3, SelectionKept
<1> QED
  BY <1>2, <1>3, <1>4, <1>5, <1>6 DEF Next

-----------------------------------------------------------------------------
(* The parts of the handler in a clock. *)

\* A byte that the receiver takes.
Taken == to_receiver /\ rx_valid /\ data_ready

\* What the receiver sees.
LEMMA RecvInputs ==
    ASSUME NEW e
    PROVE  /\ recv_in(e).on = virtual_sel /\ recv_in(e).valid = (to_receiver /\ rx_valid)
           /\ recv_in(e).byte = last_byte /\ recv_in(e).qflow = data_queue_flow
           /\ recv_in(e).start = e.start /\ recv_in(e).stop = e.stop
           /\ recv_in(e).pending = recovery_pending /\ recv_in(e).done = cmd_done
           /\ recv_in(e).crc = rx_crc
           /\ rx_flow(recv_in(e)) <=> Taken
BY DEF recv_in, rx_flow, Taken

\* The receiver, while the virtual target is selected.
LEMMA RecvClock ==
    ASSUME NEW e, Handler(e), virtual_sel
    PROVE  /\ recv' = recv_d(recv_in(e))
           /\ data_ready' <=> recv = "RxCmd" \/ (data_ready /\ ~(recv = "RxPec" /\ Taken))
           /\ queue_select' = IF recv = "RxData" THEN data_queue_flow /\ payload_left = 1
                              ELSE queue_select
           /\ queue_flush' <=> recv = "Cmd" /\ hdr.lsb % 4 # 0
           /\ recv_cmd_valid' <=> recv = "Cmd"
           /\ recv_is_rd' <=> recv = "CmdIsRd" \/ (recv_is_rd /\ recv # "Idle")
<1> DEFINE i == recv_in(e)
<1>1. Receiver(i) /\ i.on /\ i.qflow = data_queue_flow /\ (rx_flow(i) <=> Taken)
  BY RecvInputs DEF Handler
<1> HIDE DEF i
<1>2. recv' = recv_d(i)
  BY <1>1 DEF Receiver
<1>3. data_ready' <=> recv = "RxCmd" \/ (data_ready /\ ~(recv = "RxPec" /\ Taken))
  BY <1>1 DEF Receiver, DataReady
<1>4. queue_select' = IF recv = "RxData" THEN data_queue_flow /\ payload_left = 1
                      ELSE queue_select
  BY <1>1 DEF Receiver, QueueMux, LastPayload
<1>5. queue_flush' <=> recv = "Cmd" /\ hdr.lsb % 4 # 0
  BY <1>1 DEF Receiver, QueueFlush
<1>6. /\ recv_cmd_valid' <=> recv = "Cmd"
      /\ recv_is_rd' <=> recv = "CmdIsRd" \/ (recv_is_rd /\ recv # "Idle")
  BY <1>1 DEF Receiver, CommandOut
<1> QED
  BY <1>2, <1>3, <1>4, <1>5, <1>6 DEF i

\* Without a byte the receiver waits.
LEMMA RecvWaits ==
    ASSUME NEW e, Handler(e), virtual_sel, ~Taken, ~data_queue_flow, ~e.start, ~e.stop,
           recv \in {"RxCmd", "RxLenL", "RxLenH", "RxData", "RxPec", "Cmd", "Busy"},
           recv = "RxData" => payload_left # 0
    PROVE  /\ hdr' = hdr /\ payload_left' = payload_left /\ pec_calc' = pec_calc
           /\ recv \in {"RxCmd", "RxLenL", "RxLenH", "RxData", "RxPec"} => recv' = recv
           /\ recv = "Cmd" => recv' = "Busy"
           /\ recv = "Busy" /\ ~cmd_done => recv' = recv
<1> DEFINE i == recv_in(e)
<1>1. /\ Receiver(i) /\ i.on /\ ~i.qflow /\ ~rx_flow(i) /\ ~i.start /\ ~i.stop
      /\ i.done = cmd_done
  BY RecvInputs DEF Handler
<1> HIDE DEF i
<1>2. hdr' = hdr
  <2>1. Header(i)
    BY <1>1 DEF Receiver
  <2> QED
    BY <1>1, <2>1 DEF Header
<1>3. payload_left' = payload_left
  <2>1. PayloadCount(i)
    BY <1>1 DEF Receiver
  <2> QED
    BY <1>1, <2>1 DEF PayloadCount
<1>4. pec_calc' = pec_calc
  BY <1>1 DEF Receiver, PecCapture
<1>5. recv' = recv_d(i)
  BY <1>1 DEF Receiver
<1>6. /\ recv \in {"RxCmd", "RxLenL", "RxLenH", "RxData", "RxPec"} => recv' = recv
      /\ recv = "Cmd" => recv' = "Busy"
      /\ recv = "Busy" /\ ~cmd_done => recv' = recv
  BY <1>1, <1>5 DEF recv_d, OnFlow, LastPayload
<1> QED
  BY <1>2, <1>3, <1>4, <1>6

\* A byte of the header or the PEC.
LEMMA RecvTakes ==
    ASSUME NEW e, Handler(e), virtual_sel, Taken, ~data_queue_flow
    PROVE  /\ recv = "RxCmd" =>
                 recv' = "RxLenL" /\ hdr' = [hdr EXCEPT !.cmd = last_byte]
           /\ recv = "RxLenL" =>
                 /\ recv' = "RxLenH" /\ hdr' = [hdr EXCEPT !.lsb = last_byte.v]
                 /\ payload_left' = (payload_left \div 256) * 256 + (last_byte.v % 256)
           /\ recv = "RxLenH" =>
                 /\ recv' = "RxData" /\ hdr' = [hdr EXCEPT !.msb = last_byte.v]
                 /\ payload_left' = (last_byte.v % 256) * 256 + (payload_left % 256)
           /\ recv = "RxPec" =>
                 /\ recv' = "Cmd" /\ hdr' = [hdr EXCEPT !.pec = last_byte.v]
                 /\ pec_calc' = rx_crc
<1> DEFINE i == recv_in(e)
<1>1. /\ Receiver(i) /\ i.on /\ rx_flow(i) /\ i.byte = last_byte /\ i.crc = rx_crc
  BY RecvInputs DEF Handler
<1> HIDE DEF i
<1>2. recv' = recv_d(i) /\ Header(i) /\ PayloadCount(i) /\ PecCapture(i)
  BY <1>1 DEF Receiver
<1>3. CASE recv = "RxCmd"
  BY <1>1, <1>2, <1>3 DEF recv_d, OnFlow, Header
<1>4. CASE recv = "RxLenL"
  BY <1>1, <1>2, <1>4 DEF recv_d, OnFlow, Header, PayloadCount
<1>5. CASE recv = "RxLenH"
  BY <1>1, <1>2, <1>5 DEF recv_d, OnFlow, Header, PayloadCount
<1>6. CASE recv = "RxPec"
  BY <1>1, <1>2, <1>6 DEF recv_d, OnFlow, Header, PecCapture
<1> QED
  BY <1>3, <1>4, <1>5, <1>6

\* A byte of the payload.
LEMMA RecvPasses ==
    ASSUME NEW e, Handler(e), virtual_sel, ~Taken, data_queue_flow, recv = "RxData",
           payload_left # 0, ~e.stop
    PROVE  /\ hdr' = hdr /\ payload_left' = (payload_left + 65535) % 65536
           /\ recv' = IF payload_left = 1 THEN "RxPec" ELSE "RxData"
<1> DEFINE i == recv_in(e)
<1>1. Receiver(i) /\ i.on /\ ~rx_flow(i) /\ i.qflow /\ ~i.stop
  BY RecvInputs DEF Handler
<1> HIDE DEF i
<1>2. recv' = recv_d(i) /\ Header(i) /\ PayloadCount(i)
  BY <1>1 DEF Receiver
<1> QED
  BY <1>1, <1>2 DEF recv_d, LastPayload, Header, PayloadCount

\* The executor without a command.
LEMMA ExecWaits ==
    ASSUME NEW e, Handler(e), exec = "Idle", ~exec_cmd.valid
    PROVE  exec' = "Idle" /\ ~rreq'
<1>1. Executor(exec_in(e)) /\ exec_in(e).cmd = exec_cmd
  BY DEF Handler, exec_in
<1>2. exec' = "Idle"
  BY <1>1 DEF Executor, exec_d
<1>3. ~rreq'
  BY <1>1 DEF Executor, Request
<1> QED
  BY <1>2, <1>3

\* The executor stays idle as long as the receiver hands nothing over.
LEMMA IdleClock ==
    ASSUME NEW e, Handler(e), ExecIdle, recv \notin {"Cmd", "CmdIsRd"}
    PROVE  ExecIdle'
<1>1. exec' = "Idle" /\ ~rreq'
  BY ExecWaits DEF ExecIdle
<1>2. ~exec_pending'
  BY DEF Handler, ExecPending, ExecIdle
<1>3. ~exec_cmd'.valid
  BY DEF Handler, Registers, ExecIdle
<1>4. ~recv_cmd_valid' /\ ~recv_is_rd'
  BY DEF Handler, Receiver, CommandOut, ExecIdle
<1> QED
  BY <1>1, <1>2, <1>3, <1>4 DEF ExecIdle

\* The software and the queue, while a command is received or carried out.
LEMMA PendingClock ==
    ASSUME NEW e, NEW sent, Clock(e, sent), recovery_pending, ~e.sw_req, ~sw_busy
    PROVE  ~sw_busy' /\ rx_req(e) = rreq /\ exec_rack = port.ack
BY DEF Clock, rx_req, exec_rack

\* Nothing asks for a word.
LEMMA PortWaits ==
    ASSUME NEW e, Handler(e), PortIdle, ~rx_req(e)
    PROVE  /\ PortIdle'
           /\ ~rx_clr => rx_queue' = IF conv.full /\ Len(rx_queue) < RxDepth
                                     THEN rx_queue \o <<conv.bytes>>
                                     ELSE rx_queue \o <<>>
<1>1. ~port.rready /\ port.ack = <<>>
  BY DEF PortIdle
<1>2. RxDataQueue(e)
  BY DEF Handler
<1>3. PortIdle'
  BY <1>1, <1>2 DEF RxDataQueue, PortIdle
<1>4. ~rx_clr => rx_queue' = IF conv.full /\ Len(rx_queue) < RxDepth
                             THEN rx_queue \o <<conv.bytes>>
                             ELSE rx_queue \o <<>>
  BY <1>1, <1>2 DEF RxDataQueue, FifoStep, WReady
<1> QED
  BY <1>3, <1>4

\* The converter without a byte.
LEMMA ConvWaits ==
    ASSUME HandlerTypes, NEW e, Handler(e), ~data_queue_flow
    PROVE  /\ ~conv.full /\ (~conv_flush \/ conv.bytes = <<>>) => conv' = conv
           /\ ~conv.full /\ conv_flush /\ conv.bytes # <<>> =>
                 conv' = [bytes |-> conv.bytes, full |-> TRUE]
           /\ conv.full /\ ~conv_flush /\ Len(rx_queue) < RxDepth =>
                 conv' = [bytes |-> <<>>, full |-> FALSE]
<1>1. conv \in [bytes : Seq(Byte), full : BOOLEAN]
  BY DEF HandlerTypes
<1>2. conv' = [bytes |-> IF conv_pop THEN <<>> ELSE conv.bytes,
               full |-> \/ conv_flush /\ (conv.full \/ conv.bytes # <<>>)
                        \/ conv.full /\ ~conv_pop]
  BY DEF Handler, Converter
<1>3. conv_pop <=> conv.full /\ Len(rx_queue) < RxDepth
  BY DEF conv_pop, WReady
<1>4. ASSUME ~conv.full, ~conv_flush \/ conv.bytes = <<>> PROVE conv' = conv
  <2>1. conv' = [bytes |-> conv.bytes, full |-> FALSE]
    BY <1>2, <1>3, <1>4
  <2> QED
    BY <1>1, <1>4, <2>1
<1>5. ASSUME ~conv.full, conv_flush, conv.bytes # <<>>
      PROVE  conv' = [bytes |-> conv.bytes, full |-> TRUE]
  BY <1>2, <1>3, <1>5
<1>6. ASSUME conv.full, ~conv_flush, Len(rx_queue) < RxDepth
      PROVE  conv' = [bytes |-> <<>>, full |-> FALSE]
  BY <1>2, <1>3, <1>6
<1> QED
  BY <1>4, <1>5, <1>6

\* A byte that flows to the queue goes to the end of the converter.
LEMMA ConvFills ==
    ASSUME HandlerTypes, NEW e, Handler(e), data_queue_flow, ~conv_flush, ~conv.full
    PROVE  conv' = [bytes |-> Append(conv.bytes, last_byte), full |-> Len(conv.bytes) = 3]
BY DEF Handler, Converter

-----------------------------------------------------------------------------
(* The words of a payload. *)

\* The CSRs of a command are a range.
LEMMA CsrsAre ==
    ASSUME NEW c \in Nat, c >= 34, c <= 47
    PROVE  /\ CsrsOf(c)[1] \in Nat /\ CsrsOf(c)[2] \in Nat
           /\ CsrsOf(c)[1] <= CsrsOf(c)[2]
BY DEF CsrsOf, Invalid

\* Every word of a payload has four bytes, the last at least one.
LEMMA WordLengths ==
    ASSUME NEW n \in Nat, NEW i \in Nat, 4 * i < n, NEW p, p.n = n
    PROVE  /\ WordLen(p, i) = IF 4 * i + 4 <= n THEN 4 ELSE n - 4 * i
           /\ WordLen(p, i) \in 1 .. 4
BY DEF WordLen, Min2

\* And they are the bytes of the command.
LEMMA WordsAre ==
    ASSUME WriteCalls, NEW p \in AllPlans, p.kind = "write", NEW tag \in {1, 2},
           NEW i \in Nat, 4 * i < p.n
    PROVE  /\ WordLen(p, i) = IF 4 * i + 4 <= p.n THEN 4 ELSE p.n - 4 * i
           /\ WordOf(p, tag, i) \in Seq(Byte) /\ WordOf(p, tag, i) # <<>>
           /\ Len(WordOf(p, tag, i)) = WordLen(p, i)
           /\ \A j \in 1 .. WordLen(p, i) :
                 WordOf(p, tag, i)[j] = PayByte(p, tag, 4 * i + j)
           /\ WordOf(p, tag, i)[1].v = ValueOf(p) /\ ValueOf(p) # OwnData
<1>1. p.n \in Nat /\ p.cmd \in Nat /\ p.cmd # OwnData
  BY PlanFacts
<1>2. /\ WordLen(p, i) = IF 4 * i + 4 <= p.n THEN 4 ELSE p.n - 4 * i
      /\ WordLen(p, i) \in 1 .. 4
  BY <1>1, WordLengths
<1> DEFINE n == WordLen(p, i)
<1> HIDE DEF n
<1>3. ValueOf(p) \in Nat /\ ValueOf(p) # OwnData
  BY <1>1 DEF ValueOf, OwnData
<1>4. \A j \in 1 .. n : PayByte(p, tag, 4 * i + j) \in Byte
  BY <1>3 DEF PayByte, Byte
<1>5. WordOf(p, tag, i) = [j \in 1 .. n |-> PayByte(p, tag, 4 * i + j)]
  BY DEF WordOf, n
<1>6. n \in 1 .. 4
  BY <1>2 DEF n
<1> DEFINE B(j) == PayByte(p, tag, 4 * i + j)
           s == [j \in 1 .. n |-> B(j)]
<1> HIDE DEF B
<1>7. \A j \in 1 .. n : B(j) \in Byte
  BY <1>4 DEF B
<1>8. s \in Seq(Byte) /\ Len(s) = n /\ s # <<>> /\ \A j \in 1 .. n : s[j] = B(j)
  BY <1>6, <1>7
<1>9. B(1).v = ValueOf(p)
  BY DEF B, PayByte
<1> QED
  BY <1>2, <1>3, <1>5, <1>6, <1>8, <1>9 DEF B, n

\* A sequence of the right bytes is the word.
LEMMA WordIs ==
    ASSUME WriteCalls, NEW p \in AllPlans, p.kind = "write", NEW tag \in {1, 2},
           NEW i \in Nat, 4 * i < p.n,
           NEW s \in Seq(Byte), Len(s) = IF 4 * i + 4 <= p.n THEN 4 ELSE p.n - 4 * i,
           \A j \in 1 .. Len(s) : s[j] = PayByte(p, tag, 4 * i + j)
    PROVE  s = WordOf(p, tag, i)
<1> DEFINE w == WordOf(p, tag, i)
<1>1. /\ w \in Seq(Byte) /\ Len(w) = WordLen(p, i)
      /\ WordLen(p, i) = Len(s)
      /\ \A j \in 1 .. WordLen(p, i) : w[j] = PayByte(p, tag, 4 * i + j)
  BY WordsAre
<1> HIDE DEF w
<1>2. Len(s) = Len(w) /\ \A j \in 1 .. Len(s) : s[j] = w[j]
  BY <1>1
<1>3. s = w
  BY <1>1, <1>2, SeqEqual, Zenon
<1> QED
  BY <1>3 DEF w

-----------------------------------------------------------------------------
(* The stages of a command. *)

\* Got by the cases of its definition.
LEMMA GotIs ==
    /\ xfr.k = 1 => Got = 0
    /\ xfr.k # 1 /\ phase = "Byte" /\ calm > 0 => Got = xfr.k - 1
    /\ xfr.k # 1 /\ ~(phase = "Byte" /\ calm > 0) => Got = xfr.k - 2
<1>1. ASSUME xfr.k = 1 PROVE Got = 0
  BY <1>1, Zenon DEF Got
<1>2. ASSUME xfr.k # 1, phase = "Byte", calm > 0 PROVE Got = xfr.k - 1
  BY <1>2, Zenon DEF Got
<1>3. ASSUME xfr.k # 1, ~(phase = "Byte" /\ calm > 0) PROVE Got = xfr.k - 2
  BY <1>3, Zenon DEF Got
<1> QED
  BY <1>1, <1>2, <1>3, Zenon

\* The command of a write.
LEMMA CommandFacts ==
    ASSUME WriteCalls, BusTypes, Writing
    PROVE  /\ xfr.plan \in Plans /\ xfr.plan \in AllPlans /\ xfr.plan.kind = "write"
           /\ xfr.tag \in {1, 2} /\ xfr.k \in Nat /\ ForUs
           /\ N \in Nat /\ N >= 1 /\ N <= 4 * RxDepth /\ N < 65536 /\ xfr.plan.n = N
           /\ Size(xfr.plan) = N + 4
<1>1. xfr.plan \in AllPlans /\ xfr.tag \in {1, 2} /\ xfr.k \in Nat
  BY DEF BusTypes
<1>2. xfr.plan.kind = "write"
  BY DEF Writing
<1>3. /\ xfr.plan.n \in Nat /\ xfr.plan.n >= 1 /\ xfr.plan.n <= 4 * RxDepth
      /\ xfr.plan.n < 65536 /\ xfr.plan \in Plans
  BY <1>1, <1>2, PlanFacts
<1> QED
  BY <1>1, <1>2, <1>3 DEF N, Size, ForUs

\* Where the transfer is as long as the receiver cuts.
LEMMA CuttingFacts ==
    ASSUME WriteCalls, BusTypes, BusSide, Cutting
    PROVE  /\ ~Between /\ xfr.k >= 1 /\ xfr.k <= N + 5 /\ phase \in {"Byte", "Bit"}
           /\ Got \in Nat /\ Got <= N + 3
           /\ calm \in Nat
<1>1. Writing /\ Checked /\ ~(Fin /\ calm > 0)
  BY DEF Cutting
<1>2. N \in Nat /\ Size(xfr.plan) = N + 4 /\ xfr.k \in Nat
  BY <1>1, CommandFacts
<1>3. calm \in Nat /\ phase \in {"Quiet", "Byte", "Bit"}
  BY PlaceFacts
<1>4. ~Between /\ xfr.k >= 1 /\ phase \in {"Byte", "Bit"}
  BY <1>1, <1>2, <1>3 DEF Checked, Between
<1>5. xfr.k <= N + 5
  BY <1>2 DEF BusSide
<1>6. Got \in Nat /\ Got <= N + 3
  <2>1. CASE xfr.k = 1
    BY <1>2, <2>1, GotIs
  <2>2. CASE xfr.k # 1 /\ phase = "Byte" /\ calm > 0
    <3>1. xfr.k # N + 5
      BY <1>1, <2>2 DEF Fin
    <3>2. Got = xfr.k - 1
      BY <2>2, GotIs
    <3> QED
      BY <1>2, <1>4, <1>5, <2>2, <3>1, <3>2
  <2>3. CASE xfr.k # 1 /\ ~(phase = "Byte" /\ calm > 0)
    <3>1. Got = xfr.k - 2
      BY <2>3, GotIs
    <3> QED
      BY <1>2, <1>4, <1>5, <2>3, <3>1
  <2> QED
    BY <2>1, <2>2, <2>3
<1> QED
  BY <1>3, <1>4, <1>5, <1>6

\* While a command arrives or is handed over, the virtual target is selected.
LEMMA CommandPending ==
    ASSUME Writing, Checked, Selection
    PROVE  virtual_sel /\ recovery_pending
BY DEF Selection, recovery_pending

\* Software does not read what is not its own.
LEMMA ForeignNotRead ==
    ASSUME HandlerTypes, Foreign
    PROVE  ~MayRead
<1>1. rx_queue \in Seq(Seq(Byte))
  BY DEF HandlerTypes
<1>2. ASSUME rx_queue # <<>> PROVE Head(rx_queue)[1].v # OwnData
  <2>1. Head(rx_queue) = rx_queue[1] /\ 1 \in 1 .. Len(rx_queue)
    BY <1>1, <1>2
  <2> QED
    BY <2>1 DEF Foreign
<1> QED
  BY <1>2 DEF MayRead

\* The payload of a command is not its own.
LEMMA StoredForeign ==
    ASSUME WriteCalls, BusTypes, HandlerTypes, Writing, NEW pay \in Nat, Stored(pay)
    PROVE  Foreign
<1>1. /\ xfr.plan \in AllPlans /\ xfr.plan.kind = "write" /\ xfr.tag \in {1, 2}
      /\ N \in Nat /\ xfr.plan.n = N
  BY CommandFacts
<1>2. Len(rx_queue) \in Nat
  BY DEF HandlerTypes
<1>3. /\ \A i \in 1 .. Len(rx_queue) : rx_queue[i] = WordOf(xfr.plan, xfr.tag, i - 1)
      /\ 4 * Len(rx_queue) <= N
  BY DEF Stored
<1>4. ASSUME NEW i \in 1 .. Len(rx_queue)
      PROVE  rx_queue[i] # <<>> /\ rx_queue[i][1].v # OwnData
  <2>1. i - 1 \in Nat /\ 4 * (i - 1) < xfr.plan.n
    BY <1>1, <1>2, <1>3
  <2>2. rx_queue[i] = WordOf(xfr.plan, xfr.tag, i - 1)
    BY <1>3
  <2>3. /\ WordOf(xfr.plan, xfr.tag, i - 1) # <<>>
        /\ WordOf(xfr.plan, xfr.tag, i - 1)[1].v = ValueOf(xfr.plan)
        /\ ValueOf(xfr.plan) # OwnData
    BY <1>1, <2>1, WordsAre, Zenon
  <2> QED
    BY <2>2, <2>3, Zenon
<1> QED
  BY <1>4 DEF Foreign

\* A word leaves the converter.
LEMMA WordMoves ==
    ASSUME WriteCalls, BusTypes, HandlerTypes, Writing,
           NEW pay \in Nat, pay <= N, Stored(pay), conv.bytes # <<>>,
           Len(conv.bytes) = 4 \/ pay = N
    PROVE  /\ Len(rx_queue) < RxDepth /\ 4 * Len(rx_queue) < N
           /\ Len(rx_queue \o <<conv.bytes>>) = Len(rx_queue) + 1
           /\ \A i \in 1 .. Len(rx_queue) + 1 :
                 (rx_queue \o <<conv.bytes>>)[i] = WordOf(xfr.plan, xfr.tag, i - 1)
<1> DEFINE q == Len(rx_queue)
           b == conv.bytes
           s == rx_queue \o <<b>>
<1>1. /\ xfr.plan \in AllPlans /\ xfr.plan.kind = "write" /\ xfr.tag \in {1, 2}
      /\ N \in Nat /\ xfr.plan.n = N /\ N <= 4 * RxDepth
  BY CommandFacts
<1>2. q \in Nat /\ b \in Seq(Byte) /\ Len(b) \in Nat /\ rx_queue \in Seq(Seq(Byte))
      /\ Len(b) >= 1
  BY DEF HandlerTypes
<1>3. /\ \A i \in 1 .. q : rx_queue[i] = WordOf(xfr.plan, xfr.tag, i - 1)
      /\ Len(b) = pay - 4 * q /\ Len(b) <= 4
      /\ \A j \in 1 .. Len(b) : b[j] = PayByte(xfr.plan, xfr.tag, 4 * q + j)
  BY DEF Stored
<1>4. RxDepth \in Nat
  BY CallFacts
<1>5. 4 * q < N /\ q < RxDepth
  <2>1. ASSUME NEW l \in Nat, l >= 1, NEW m \in Nat, l = pay - 4 * m,
               NEW n \in Nat, pay <= n, n <= 4 * RxDepth
        PROVE  4 * m < n /\ m < RxDepth
    BY <1>4, <2>1
  <2> QED
    BY <1>1, <1>2, <1>3, <2>1
<1>6. Len(b) = IF 4 * q + 4 <= N THEN 4 ELSE N - 4 * q
  <2>1. ASSUME NEW l \in Nat, NEW m \in Nat, NEW n \in Nat, l = pay - 4 * m,
               pay <= n, l <= 4, l = 4 \/ pay = n
        PROVE  l = IF 4 * m + 4 <= n THEN 4 ELSE n - 4 * m
    BY <2>1
  <2>2. Len(b) = 4 \/ pay = N
    OBVIOUS
  <2> QED
    BY <1>1, <1>2, <1>3, <2>1, <2>2
<1>7. b = WordOf(xfr.plan, xfr.tag, q)
  BY <1>1, <1>2, <1>3, <1>5, <1>6, WordIs
<1>8. Len(s) = q + 1 /\ s[q + 1] = b /\ \A i \in 1 .. q : s[i] = rx_queue[i]
  BY <1>2
<1>9. ASSUME NEW i \in 1 .. q + 1 PROVE s[i] = WordOf(xfr.plan, xfr.tag, i - 1)
  <2>1. CASE i = q + 1
    <3>1. i - 1 = q
      BY <1>2, <2>1
    <3> QED
      BY <1>7, <1>8, <2>1, <3>1
  <2>2. CASE i \in 1 .. q
    BY <1>3, <1>8, <2>2
  <2> QED
    BY <1>2, <2>1, <2>2
<1> QED
  BY <1>5, <1>8, <1>9

-----------------------------------------------------------------------------
(* A command arrives. *)

\* Four bytes are not none.
LEMMA FourBytes == ASSUME NEW s, Len(s) = 4 PROVE s # <<>>
OBVIOUS

\* Less than four is not four.
LEMMA LessThanFour == ASSUME NEW l, l < 4 PROVE l # 4
OBVIOUS

\* Without a byte the PEC stays as it is.
LEMMA PecWaits ==
    ASSUME NEW e, Handler(e), virtual_sel, ~checks_header, mode_enter # 1, ~rx_valid,
           ~e.start
    PROVE  rx_crc' = rx_crc
<1>1. ~pec_enable([valid |-> to_receiver /\ rx_valid, qflow |-> data_queue_flow])
  BY DEF pec_enable, rx_flow, data_queue_flow, data_queue_wvalid
<1>2. RxPec(e)
  BY DEF Handler
<1> QED
  BY <1>1, <1>2, Zenon DEF RxPec

\* A byte that is taken is fed to the PEC.
LEMMA PecTakes ==
    ASSUME NEW e, Handler(e), virtual_sel, ~checks_header, ~e.start, rx_valid,
           IF queue_select THEN Taken ELSE data_queue_flow
    PROVE  rx_crc' = Feed(rx_crc, last_byte)
<1>1. pec_enable([valid |-> to_receiver /\ rx_valid, qflow |-> data_queue_flow])
  BY DEF pec_enable, rx_flow, Taken
<1>2. RxPec(e)
  BY DEF Handler
<1> QED
  BY <1>1, <1>2, Zenon DEF RxPec

\* Fed with the next byte, the PEC covers one byte more.
LEMMA FeedNext ==
    ASSUME NEW tag \in {1, 2}, NEW k \in Nat, k >= 1, NEW b, b.f = tag, b.k = k,
           NEW crc, crc = Crc(tag, k - 1) \/ (crc = 0 /\ k = 1)
    PROVE  Feed(crc, b) = Crc(tag, k)
BY DEF Feed

\* The stored payload, while no byte of it arrives.
LEMMA StoredWaits ==
    ASSUME WriteCalls, BusTypes, HandlerTypes, Writing,
           NEW pay \in Nat, pay <= N, Stored(pay),
           NEW e, Handler(e), PortIdle, ~rx_req(e), ~rx_clr, ~data_queue_flow, ~conv_flush,
           conv.full <=> Len(conv.bytes) = 4,
           xfr'.plan = xfr.plan, xfr'.tag = xfr.tag
    PROVE  Stored(pay)' /\ ~conv'.full /\ Len(conv'.bytes) < 4 /\ PortIdle'
<1>1. /\ PortIdle'
      /\ rx_queue' = IF conv.full /\ Len(rx_queue) < RxDepth
                     THEN rx_queue \o <<conv.bytes>> ELSE rx_queue \o <<>>
  BY PortWaits
<1>2. /\ rx_queue \in Seq(Seq(Byte)) /\ conv.bytes \in Seq(Byte)
      /\ Len(rx_queue) \in Nat /\ Len(conv.bytes) \in Nat /\ conv.full \in BOOLEAN
  BY DEF HandlerTypes
<1>3. N' = N /\ N \in Nat
  BY CommandFacts DEF N
<1>4. /\ \A i \in 1 .. Len(rx_queue) : rx_queue[i] = WordOf(xfr.plan, xfr.tag, i - 1)
      /\ 4 * Len(rx_queue) <= N
      /\ Len(conv.bytes) = pay - 4 * Len(rx_queue) /\ Len(conv.bytes) <= 4
      /\ \A j \in 1 .. Len(conv.bytes) :
            conv.bytes[j] = PayByte(xfr.plan, xfr.tag, 4 * Len(rx_queue) + j)
  BY DEF Stored
<1>5. CASE ~conv.full
  <2>1. conv' = conv
    BY <1>5, ConvWaits
  <2>2. rx_queue' = rx_queue
    BY <1>1, <1>2, <1>5
  <2>3. Len(conv.bytes) < 4
    <3>1. Len(conv.bytes) # 4
      BY <1>5, Zenon
    <3>2. ASSUME NEW l \in Nat, l <= 4, l # 4 PROVE l < 4
      BY <3>2
    <3> QED
      BY <1>2, <1>4, <3>1, <3>2
  <2>4. Stored(pay)'
    BY <1>3, <1>4, <2>1, <2>2 DEF Stored
  <2> QED
    BY <1>1, <1>5, <2>1, <2>3, <2>4
<1>6. CASE conv.full
  <2>1. conv.bytes # <<>> /\ Len(conv.bytes) = 4
    <3>1. Len(conv.bytes) = 4
      BY <1>6, Zenon
    <3> QED
      BY <3>1, FourBytes, Zenon
  <2> DEFINE s == rx_queue \o <<conv.bytes>>
  <2>2. /\ Len(rx_queue) < RxDepth /\ Len(s) = Len(rx_queue) + 1
        /\ \A i \in 1 .. Len(rx_queue) + 1 : s[i] = WordOf(xfr.plan, xfr.tag, i - 1)
    BY <2>1, WordMoves
  <2>3. rx_queue' = s
    BY <1>1, <1>6, <2>2
  <2>4. conv' = [bytes |-> <<>>, full |-> FALSE]
    BY <1>6, <2>2, ConvWaits
  <2> HIDE DEF s
  <2>5. Len(rx_queue') = Len(rx_queue) + 1 /\ conv'.bytes = <<>> /\ ~conv'.full
        /\ Len(conv'.bytes) = 0
    BY <2>2, <2>3, <2>4
  <2>6. /\ \A i \in 1 .. Len(rx_queue') : rx_queue'[i] = WordOf(xfr.plan, xfr.tag, i - 1)
        /\ 4 * Len(rx_queue') <= N
        /\ Len(conv'.bytes) = pay - 4 * Len(rx_queue')
    <3>1. ASSUME NEW q \in Nat, NEW n \in Nat, 4 = pay - 4 * q, pay <= n
          PROVE  4 * (q + 1) <= n /\ 0 = pay - 4 * (q + 1)
      BY <3>1
    <3>2. 4 * (Len(rx_queue) + 1) <= N /\ 0 = pay - 4 * (Len(rx_queue) + 1)
      BY <1>2, <1>3, <1>4, <2>1, <3>1
    <3> QED
      BY <2>2, <2>3, <2>5, <3>2
  <2>7. Stored(pay)'
    BY <1>3, <2>5, <2>6 DEF Stored
  <2> QED
    BY <1>1, <2>5, <2>7
<1> QED
  BY <1>5, <1>6

\* The payload that has arrived when the receiver has cut g bytes.
PayOf(g) == IF g <= 3 THEN 0 ELSE IF g <= N + 3 THEN g - 3 ELSE N

\* Without a byte the receiver keeps what it has cut.
LEMMA CutWaits ==
    ASSUME WriteCalls, BusTypes, HandlerTypes, BusSide, Selection, Cutting,
           NEW e, NEW sent, Clock(e, sent), ~rx_valid, ~e.start, ~e.stop, ~e.sw_req,
           xfr'.plan = xfr.plan, xfr'.tag = xfr.tag, Got' = Got,
           Writing', Checked', ~(AtAck' /\ calm' <= 2), ~(Fin' /\ calm' > 0),
           sent = IF Fin' THEN <<[plan |-> xfr.plan, tag |-> xfr.tag]>> ELSE <<>>, ~Fin,
           Got = 3 => phase' # "Byte" \/ calm' # 1
    PROVE  Cutting'
<1>1. /\ Writing /\ Checked /\ ~(AtAck /\ calm <= 2) /\ ExecIdle /\ PortIdle /\ ~sw_busy
      /\ owed = <<>> /\ data_ready /\ ~queue_flush /\ rx_crc = Crc(xfr.tag, Got + 1)
  BY DEF Cutting
<1>2. ~Between /\ Got \in Nat /\ Got <= N + 3 /\ calm \in Nat
  BY CuttingFacts
<1>3. virtual_sel /\ recovery_pending
  BY <1>1, CommandPending
<1>4. N \in Nat /\ N >= 1 /\ N < 65536 /\ N' = N /\ xfr.tag \in {1, 2}
  BY <1>1, CommandFacts DEF N
<1>5. Handler(e)
  BY DEF Clock
<1>6. ~Taken /\ ~data_queue_flow
  BY DEF Taken, data_queue_flow, data_queue_wvalid
<1>7. /\ RecvAt(Got) /\ HeaderGot(Got) /\ (Got = 2 => payload_left % 256 = N % 256)
      /\ (Got \in 3 .. N + 2 => payload_left = N + 3 - Got)
      /\ (queue_select <=> ~(\/ Got \in 4 .. N + 2
                             \/ Got = 3 /\ (phase # "Byte" \/ calm # 1)))
      /\ (conv.full <=> (Len(conv.bytes) = 4))
  BY DEF Cutting
<1>8. /\ recv \in {"RxCmd", "RxLenL", "RxLenH", "RxData", "RxPec"}
      /\ recv = "RxData" <=> Got \in 3 .. N + 2
  <2>1. Got = 0 \/ Got = 1 \/ Got = 2 \/ Got \in 3 .. N + 2 \/ Got = N + 3
    BY <1>2, <1>4
  <2> QED
    BY <1>4, <1>7, <2>1 DEF RecvAt
<1>9. recv = "RxData" => payload_left # 0
  BY <1>2, <1>4, <1>7, <1>8
<1>10. /\ hdr' = hdr /\ payload_left' = payload_left /\ recv' = recv
  BY <1>3, <1>5, <1>6, <1>8, <1>9, RecvWaits
<1>11. /\ data_ready' /\ ~queue_flush'
       /\ queue_select' = IF recv = "RxData" THEN FALSE ELSE queue_select
  <2>1. /\ data_ready' <=> recv = "RxCmd" \/ (data_ready /\ ~(recv = "RxPec" /\ Taken))
        /\ queue_flush' <=> recv = "Cmd" /\ hdr.lsb % 4 # 0
        /\ queue_select' = IF recv = "RxData" THEN data_queue_flow /\ payload_left = 1
                           ELSE queue_select
    BY <1>3, <1>5, RecvClock
  <2> QED
    BY <1>1, <1>6, <1>8, <2>1
<1>12. rx_crc' = rx_crc
  <2>1. ~checks_header
    BY <1>1, <1>2, HeaderChecked
  <2>2. mode_enter # 1
    <3>1. ~(AtAck /\ calm \in 1 .. 2)
      BY <1>1
    <3>2. mode_enter = IF virtual_sel THEN 0 ELSE 2
      BY <3>1 DEF Selection
    <3> QED
      BY <3>2
  <2> QED
    BY <1>3, <1>5, <2>1, <2>2, PecWaits
<1>13. ~rx_req(e) /\ ~rx_clr /\ ~sw_busy' /\ ExecIdle'
  <2>1. ~rx_req(e)
    BY <1>1, <1>3 DEF rx_req, ExecIdle
  <2>2. ~rx_clr
    BY <1>1 DEF rx_clr, rx_data_queue_clr, ExecIdle
  <2>3. ~sw_busy'
    BY <1>1 DEF Clock
  <2>4. ExecIdle'
    BY <1>1, <1>5, <1>8, IdleClock
  <2> QED
    BY <2>1, <2>2, <2>3, <2>4
<1>14. owed' = IF Fin' THEN <<[plan |-> xfr'.plan, tag |-> xfr'.tag]>> ELSE <<>>
  <2>1. ~TakesCommand
    BY <1>1 DEF TakesCommand, ExecIdle
  <2>2. owed' = <<>> \o sent
    BY <1>1, <2>1 DEF Clock
  <2> QED
    BY <2>2
<1>15. ~conv_flush
  BY <1>1, <1>2 DEF conv_flush, BusSide
<1>16. \A pay \in Nat : pay <= N /\ Stored(pay) => Stored(pay)' /\ ~conv'.full /\ Len(conv'.bytes) < 4 /\ PortIdle'
  BY <1>1, <1>5, <1>6, <1>7, <1>13, <1>15, StoredWaits
<1>17. PayOf(Got) \in Nat /\ PayOf(Got) <= N /\ Stored(PayOf(Got))
  BY <1>2, <1>4 DEF PayOf, Cutting
<1>18. PayOf(Got)' = PayOf(Got)
  BY <1>4 DEF PayOf
<1>19. Stored(PayOf(Got))' /\ ~conv'.full /\ Len(conv'.bytes) < 4 /\ PortIdle'
  <2> DEFINE g == PayOf(Got)
  <2>1. \E pay \in Nat : pay = g /\ pay <= N /\ Stored(pay)
    BY <1>17
  <2>2. PICK pay \in Nat : pay = g /\ pay <= N /\ Stored(pay)
    BY <2>1
  <2>3. Stored(pay)' /\ ~conv'.full /\ Len(conv'.bytes) < 4 /\ PortIdle'
    BY <1>16, <2>2
  <2>4. pay = g'
    BY <1>18, <2>2
  <2> QED
    BY <2>3, <2>4 DEF Stored
<1>20. RecvAt(Got)' /\ HeaderGot(Got)'
  BY <1>4, <1>7, <1>10 DEF RecvAt, HeaderGot
<1>21. /\ (Got' = 2 => payload_left' % 256 = N' % 256)
       /\ (Got' \in 3 .. N' + 2 => payload_left' = N' + 3 - Got')
       /\ rx_crc' = Crc(xfr'.tag, Got' + 1)
  BY <1>1, <1>4, <1>7, <1>10, <1>12
<1>22. queue_select' <=> ~(\/ Got' \in 4 .. N' + 2
                           \/ Got' = 3 /\ (phase' # "Byte" \/ calm' # 1))
  BY <1>2, <1>4, <1>7, <1>8, <1>11
<1>23. conv'.full <=> (Len(conv'.bytes) = 4)
  <2>1. Len(conv'.bytes) # 4
    BY <1>19, LessThanFour, Zenon
  <2> QED
    BY <1>19, <2>1, Zenon
<1> QED
  BY <1>11, <1>13, <1>14, <1>19, <1>20, <1>21, <1>22, <1>23 DEF Cutting, PayOf

-----------------------------------------------------------------------------
(* A byte of a command arrives. *)

\* The clock in which a byte is taken, on the side of the bus.
LEMMA CutArrives ==
    ASSUME WriteCalls, BusTypes, HandlerTypes, BusSide, Selection, Cutting, Tick, rx_valid
    PROVE  /\ phase = "Byte" /\ calm = 0 /\ xfr.k = Got + 2 /\ ~conv.full
           /\ phase' = "Byte" /\ calm' = 1 /\ Got' = Got + 1 /\ xfr' = xfr
           /\ last_byte = [f |-> xfr.tag, k |-> Got + 2,
                           v |-> ByteAt(xfr.plan, xfr.tag, Got + 1)]
           /\ queue_select <=> Got \notin 3 .. N + 2
           /\ Taken <=> Got \notin 3 .. N + 2
           /\ data_queue_flow <=> Got \in 3 .. N + 2
           /\ ~conv_flush /\ virtual_sel /\ recovery_pending
<1>1. /\ Writing /\ Checked /\ data_ready /\ ~queue_flush
      /\ conv.full => phase = "Byte" /\ calm = 1
      /\ (queue_select <=> ~(\/ Got \in 4 .. N + 2
                             \/ Got = 3 /\ (phase # "Byte" \/ calm # 1)))
  BY DEF Cutting
<1>2. /\ ~Between /\ Got \in Nat /\ Got <= N + 3 /\ calm \in Nat /\ N \in Nat /\ N >= 1
      /\ xfr.k \in Nat
  BY <1>1, CuttingFacts, CommandFacts
<1>3. phase = "Byte" /\ xfr.k > 1 /\ calm = 0
  BY DEF BusSide
<1>4. Got = xfr.k - 2 /\ xfr.k # 1
  BY <1>2, <1>3, GotIs
<1>5. phase' = "Byte" /\ calm' = 1 /\ xfr' = xfr
  BY <1>3, TickPlaces, CallFacts
<1>6. Got' = Got + 1
  <2>1. Got' = xfr'.k - 1
    <3>1. xfr'.k # 1 /\ phase' = "Byte" /\ calm' > 0
      BY <1>4, <1>5
    <3> QED
      BY <3>1, Zenon DEF Got
  <2> QED
    BY <1>2, <1>4, <1>5, <2>1
<1>7. xfr.k = Got + 2 /\ xfr.k - 1 = Got + 1
  BY <1>2, <1>4
<1>8. last_byte = [f |-> xfr.tag, k |-> Got + 2,
                   v |-> ByteAt(xfr.plan, xfr.tag, Got + 1)]
  <2>1. last_byte = [f |-> xfr.tag, k |-> xfr.k, v |-> ByteAt(xfr.plan, xfr.tag, xfr.k - 1)]
    BY <1>2, <1>4 DEF BusSide
  <2> QED
    BY <1>7, <2>1
<1>9. queue_select <=> Got \notin 3 .. N + 2
  BY <1>1, <1>2, <1>3
<1>10. virtual_sel /\ recovery_pending
  BY <1>1, CommandPending
<1>11. ~conv.full
  BY <1>1, <1>3
<1>12. ~conv_flush
  BY <1>1, <1>2 DEF conv_flush, BusSide
<1>13. Taken <=> queue_select
  BY <1>1, <1>10 DEF Taken, to_receiver
<1>14. data_queue_flow <=> ~queue_select
  BY <1>10, <1>11 DEF data_queue_flow, data_queue_wvalid, to_receiver
<1> QED
  BY <1>3, <1>5, <1>6, <1>7, <1>8, <1>9, <1>10, <1>11, <1>12, <1>13, <1>14

\* The same clock, on the side of the handler.
LEMMA CutArrived ==
    ASSUME WriteCalls, BusTypes, HandlerTypes, BusSide, Selection, Cutting, Tick, rx_valid,
           NEW e, Clock(e, <<>>), Silent(e), ~e.sw_req
    PROVE  /\ rx_crc' = Crc(xfr.tag, Got + 2)
           /\ ExecIdle' /\ ~sw_busy' /\ owed' = owed
           /\ data_ready' <=> Got # N + 3
           /\ ~queue_flush' /\ recv_is_rd' = FALSE
           /\ Got \in 3 .. N + 2 => (queue_select' <=> payload_left = 1)
           /\ Got \notin 3 .. N + 2 => queue_select'
           /\ PortIdle /\ ~rx_req(e) /\ ~rx_clr
           /\ recv = "RxData" <=> Got \in 3 .. N + 2
           /\ recv = "RxPec" <=> Got = N + 3
           /\ recv \notin {"Cmd", "CmdIsRd", "Busy", "Idle"}
<1>1. /\ Writing /\ ExecIdle /\ PortIdle /\ ~sw_busy /\ data_ready
      /\ rx_crc = Crc(xfr.tag, Got + 1) /\ RecvAt(Got) /\ ~(AtAck /\ calm <= 2)
      /\ owed = IF Fin THEN <<[plan |-> xfr.plan, tag |-> xfr.tag]>> ELSE <<>>
  BY DEF Cutting
<1>2. /\ Got \in Nat /\ Got <= N + 3 /\ N \in Nat /\ N >= 1 /\ calm \in Nat
      /\ xfr.tag \in {1, 2}
  BY <1>1, CuttingFacts, CommandFacts
<1>3. /\ phase = "Byte" /\ calm = 0
      /\ last_byte = [f |-> xfr.tag, k |-> Got + 2,
                      v |-> ByteAt(xfr.plan, xfr.tag, Got + 1)]
      /\ queue_select <=> Got \notin 3 .. N + 2
      /\ Taken <=> Got \notin 3 .. N + 2
      /\ data_queue_flow <=> Got \in 3 .. N + 2
      /\ virtual_sel /\ recovery_pending
  BY CutArrives
<1>4. Handler(e) /\ ~e.start /\ ~e.stop
  BY DEF Clock, Silent
<1>5. /\ recv = "RxData" <=> Got \in 3 .. N + 2
      /\ recv = "RxPec" <=> Got = N + 3
      /\ recv \notin {"Cmd", "CmdIsRd", "Busy", "Idle"}
  <2>1. Got = 0 \/ Got = 1 \/ Got = 2 \/ Got \in 3 .. N + 2 \/ Got = N + 3
    BY <1>2
  <2> QED
    BY <1>1, <1>2, <2>1 DEF RecvAt
<1>6. rx_crc' = Crc(xfr.tag, Got + 2)
  <2>1. ~checks_header
    BY <1>3, HeaderChecked DEF AtAck
  <2>2. rx_crc' = Feed(rx_crc, last_byte)
    BY <1>3, <1>4, <2>1, PecTakes
  <2>3. last_byte.f = xfr.tag /\ last_byte.k = Got + 2
    BY <1>3
  <2>4. Got + 2 \in Nat /\ Got + 2 >= 1 /\ Got + 2 - 1 = Got + 1
    BY <1>2
  <2>5. Feed(rx_crc, last_byte) = Crc(xfr.tag, Got + 2)
    BY <1>1, <1>2, <2>3, <2>4, FeedNext
  <2> QED
    BY <2>2, <2>5
<1>7. ExecIdle'
  BY <1>1, <1>4, <1>5, IdleClock
<1>8. ~rx_req(e) /\ ~rx_clr /\ ~sw_busy'
  <2>1. ~rx_req(e)
    BY <1>1, <1>3 DEF rx_req, ExecIdle
  <2>2. ~rx_clr
    BY <1>1 DEF rx_clr, rx_data_queue_clr, ExecIdle
  <2>3. ~sw_busy'
    BY <1>1 DEF Clock
  <2> QED
    BY <2>1, <2>2, <2>3
<1>9. owed' = owed
  <2>1. ~TakesCommand
    BY <1>1 DEF TakesCommand, ExecIdle
  <2>2. owed' = owed \o <<>>
    BY <2>1 DEF Clock
  <2> QED
    BY <1>1, <2>2
<1>10. /\ data_ready' <=> Got # N + 3
       /\ ~queue_flush' /\ recv_is_rd' = FALSE
       /\ Got \in 3 .. N + 2 => (queue_select' <=> payload_left = 1)
       /\ Got \notin 3 .. N + 2 => queue_select'
  <2>1. /\ data_ready' <=> recv = "RxCmd" \/ (data_ready /\ ~(recv = "RxPec" /\ Taken))
        /\ queue_flush' <=> recv = "Cmd" /\ hdr.lsb % 4 # 0
        /\ queue_select' = IF recv = "RxData" THEN data_queue_flow /\ payload_left = 1
                           ELSE queue_select
    BY <1>3, <1>4, RecvClock
  <2>2. recv_is_rd' = FALSE
    BY <1>1, <1>4, <1>5 DEF Handler, Receiver, CommandOut, ExecIdle
  <2>3. ~queue_flush' /\ (data_ready' <=> Got # N + 3)
    BY <1>1, <1>2, <1>3, <1>5, <2>1
  <2>4. Got \in 3 .. N + 2 => (queue_select' <=> payload_left = 1)
    BY <1>3, <1>5, <2>1, Zenon
  <2>5. Got \notin 3 .. N + 2 => queue_select'
    BY <1>3, <1>5, <2>1, Zenon
  <2> QED
    BY <2>2, <2>3, <2>4, <2>5
<1> QED
  BY <1>1, <1>5, <1>6, <1>7, <1>8, <1>9, <1>10

\* The bytes of a write command: code, length, payload, PEC.
LEMMA WriteBytes ==
    ASSUME WriteCalls, NEW p \in AllPlans, p.kind = "write", NEW tag
    PROVE  /\ ByteAt(p, tag, 1) = p.cmd
           /\ ByteAt(p, tag, 2) = p.n % 256 /\ ByteAt(p, tag, 3) = p.n \div 256
           /\ \A j \in 4 .. p.n + 3 : ByteAt(p, tag, j) = ValueOf(p)
           /\ ByteAt(p, tag, p.n + 4) = IF p.good THEN Crc(tag, p.n + 4) ELSE BadPec
<1>1. p.n \in Nat /\ p.n >= 1
  BY PlanFacts
<1>2. p.kind # "own"
  OBVIOUS
<1>3. ByteAt(p, tag, 1) = p.cmd /\ ByteAt(p, tag, 2) = p.n % 256 /\ ByteAt(p, tag, 3) = p.n \div 256
  BY <1>2 DEF ByteAt
<1>4. ASSUME NEW j \in 4 .. p.n + 3 PROVE ByteAt(p, tag, j) = ValueOf(p)
  <2>1. j # 1 /\ j # 2 /\ j # 3 /\ j # p.n + 4
    BY <1>1
  <2> QED
    BY <1>2, <2>1, Zenon DEF ByteAt
<1>5. ByteAt(p, tag, p.n + 4) = IF p.good THEN Crc(tag, p.n + 4) ELSE BadPec
  <2>1. p.n + 4 # 1 /\ p.n + 4 # 2 /\ p.n + 4 # 3
    BY <1>1
  <2> QED
    BY <1>2, <2>1, Zenon DEF ByteAt
<1> QED
  BY <1>3, <1>4, <1>5

\* The fields of the header of a command.
LEMMA HeaderFields ==
    ASSUME HandlerTypes, NEW b, NEW v
    PROVE  /\ [hdr EXCEPT !.cmd = b].cmd = b
           /\ [hdr EXCEPT !.lsb = v].cmd = hdr.cmd /\ [hdr EXCEPT !.lsb = v].lsb = v
           /\ [hdr EXCEPT !.msb = v].cmd = hdr.cmd /\ [hdr EXCEPT !.msb = v].lsb = hdr.lsb
           /\ [hdr EXCEPT !.msb = v].msb = v
           /\ [hdr EXCEPT !.pec = v].cmd = hdr.cmd /\ [hdr EXCEPT !.pec = v].lsb = hdr.lsb
           /\ [hdr EXCEPT !.pec = v].msb = hdr.msb /\ [hdr EXCEPT !.pec = v].pec = v
<1>1. hdr \in [cmd : Byte, lsb : Nat, msb : Nat, pec : Nat]
  BY DEF HandlerTypes
<1> QED
  BY <1>1

\* The length, from its two bytes.
LEMMA LengthBytes ==
    ASSUME NEW n \in Nat, n < 65536
    PROVE  /\ (n % 256) % 256 = n % 256
           /\ (n \div 256) % 256 = n \div 256
           /\ (n \div 256) * 256 + (n % 256) = n
           /\ (n % 256) % 4 = n % 4
OBVIOUS

\* What remains to be shown when a byte has been cut.
LEMMA StillCutting ==
    ASSUME WriteCalls, BusTypes, HandlerTypes, BusSide, Selection, Cutting, Tick, rx_valid,
           NEW e, Clock(e, <<>>), Silent(e), ~e.sw_req, Got # N + 3, PortIdle',
           NEW g \in Nat, g = Got + 1,
           RecvAt(g)', HeaderGot(g)', Stored(PayOf(g))',
           g = 2 => payload_left' % 256 = N % 256,
           g \in 3 .. N + 2 => payload_left' = N + 3 - g,
           queue_select' <=> g \notin 4 .. N + 2,
           conv'.full <=> Len(conv'.bytes) = 4
    PROVE  Cutting'
<1>1. /\ phase' = "Byte" /\ calm' = 1 /\ Got' = g /\ xfr' = xfr /\ xfr.k = Got + 2
  BY CutArrives
<1>2. /\ Got \in Nat /\ N \in Nat /\ N >= 1 /\ Writing
  BY CuttingFacts, CommandFacts DEF Cutting
<1>3. /\ rx_crc' = Crc(xfr.tag, Got + 2) /\ ExecIdle' /\ ~sw_busy' /\ owed' = owed
      /\ data_ready' /\ ~queue_flush'
  BY CutArrived
<1>4. N' = N /\ Writing'
  BY <1>1, <1>2 DEF N, Writing
<1>5. xfr'.k # N + 5 /\ xfr'.k # 1 /\ xfr'.k # 0 /\ xfr.k # N + 5
  BY <1>1, <1>2
<1>6. ~Between' /\ ~AtAck' /\ ~Fin' /\ ~Fin /\ Checked'
  BY <1>1, <1>4, <1>5 DEF Between, AtAck, Fin, Checked
<1>7. owed' = <<>>
  BY <1>3, <1>6 DEF Cutting
<1>8. rx_crc' = Crc(xfr'.tag, Got' + 1)
  <2>1. Got' + 1 = Got + 2
    BY <1>1, <1>2
  <2> QED
    BY <1>1, <1>3, <2>1
<1>9. RecvAt(Got)' /\ HeaderGot(Got)' /\ Stored(PayOf(Got))'
  <2>1. RecvAt(Got)' /\ HeaderGot(Got)'
    BY <1>1 DEF RecvAt, HeaderGot
  <2>2. PayOf(Got)' = PayOf(g)'
    BY <1>1 DEF PayOf
  <2> QED
    BY <2>1, <2>2 DEF Stored
<1>10. /\ (Got' = 2 => payload_left' % 256 = N' % 256)
       /\ (Got' \in 3 .. N' + 2 => payload_left' = N' + 3 - Got')
  BY <1>1, <1>4
<1>11. queue_select' <=> ~(\/ Got' \in 4 .. N' + 2
                           \/ Got' = 3 /\ (phase' # "Byte" \/ calm' # 1))
  BY <1>1, <1>4
<1> QED
  BY <1>1, <1>3, <1>4, <1>6, <1>7, <1>8, <1>9, <1>10, <1>11 DEF Cutting, PayOf

\* The receiver takes the code or a byte of the length.
LEMMA CutHeader ==
    ASSUME WriteCalls, BusTypes, HandlerTypes, BusSide, Selection, Cutting, Tick, rx_valid,
           NEW e, Clock(e, <<>>), Silent(e), ~e.sw_req, Got \in 0 .. 2
    PROVE  Cutting'
<1>1. /\ Got \in Nat /\ N \in Nat /\ N >= 1 /\ N < 65536 /\ Writing
      /\ xfr.plan \in AllPlans /\ xfr.plan.kind = "write" /\ xfr.plan.n = N
  BY CuttingFacts, CommandFacts DEF Cutting
<1> PICK g \in Nat : g = Got + 1
  BY <1>1
<1>2. Handler(e)
  BY DEF Clock
<1>3. /\ xfr' = xfr
      /\ last_byte = [f |-> xfr.tag, k |-> Got + 2,
                      v |-> ByteAt(xfr.plan, xfr.tag, Got + 1)]
      /\ Taken /\ ~data_queue_flow /\ virtual_sel /\ ~conv_flush
  BY <1>1, CutArrives
<1>4. /\ queue_select' /\ PortIdle /\ ~rx_req(e) /\ ~rx_clr
  <2>1. Got \notin 3 .. N + 2
    BY <1>1
  <2> QED
    BY <2>1, CutArrived
<1>5. /\ RecvAt(Got) /\ HeaderGot(Got) /\ Stored(PayOf(Got))
      /\ (conv.full <=> (Len(conv.bytes) = 4))
      /\ Got = 2 => payload_left % 256 = N % 256
  BY DEF Cutting, PayOf
<1>6. PayOf(Got) = 0 /\ PayOf(g)' = 0
  BY <1>1 DEF PayOf
<1>7. Stored(0)' /\ ~conv'.full /\ Len(conv'.bytes) < 4 /\ PortIdle'
  BY <1>1, <1>2, <1>3, <1>4, <1>5, <1>6, StoredWaits
<1>8. /\ ByteAt(xfr.plan, xfr.tag, 1) = xfr.plan.cmd
      /\ ByteAt(xfr.plan, xfr.tag, 2) = N % 256 /\ ByteAt(xfr.plan, xfr.tag, 3) = N \div 256
  BY <1>1, WriteBytes
<1>9. N' = N
  BY <1>3 DEF N
<1>10. payload_left \in Nat /\ payload_left < 65536
  BY DEF HandlerTypes
<1> DEFINE b == last_byte
<1>11. b.v = ByteAt(xfr.plan, xfr.tag, Got + 1)
  BY <1>3
<1>12. /\ RecvAt(g)' /\ HeaderGot(g)'
       /\ g = 2 => payload_left' % 256 = N % 256
       /\ g \in 3 .. N + 2 => payload_left' = N + 3 - g
  <2>1. CASE Got = 0
    <3>1. recv = "RxCmd"
      BY <1>5, <2>1 DEF RecvAt
    <3>2. recv' = "RxLenL" /\ hdr' = [hdr EXCEPT !.cmd = last_byte]
      BY <1>2, <1>3, <3>1, RecvTakes
    <3>3. hdr'.cmd = last_byte
      BY <3>2, HeaderFields
    <3>4. last_byte = [f |-> xfr.tag, k |-> 2, v |-> xfr.plan.cmd]
      BY <1>3, <1>8, <2>1
    <3>5. g = 1
      BY <2>1
    <3>6. HeaderGot(1)'
      BY <1>3, <3>3, <3>4 DEF HeaderGot
    <3>7. RecvAt(1)'
      BY <1>1, <1>9, <3>2 DEF RecvAt
    <3> QED
      BY <2>1, <3>5, <3>6, <3>7
  <2>2. CASE Got = 1
    <3>1. recv = "RxLenL"
      BY <1>5, <2>2 DEF RecvAt
    <3>2. /\ recv' = "RxLenH" /\ hdr' = [hdr EXCEPT !.lsb = last_byte.v]
          /\ payload_left' = (payload_left \div 256) * 256 + (last_byte.v % 256)
      BY <1>2, <1>3, <3>1, RecvTakes
    <3>3. hdr'.lsb = last_byte.v /\ hdr'.cmd = hdr.cmd
      BY <3>2, HeaderFields
    <3>4. last_byte.v = N % 256
      BY <1>8, <1>11, <2>2
    <3>5. g = 2
      BY <2>2
    <3>6. HeaderGot(2)'
      BY <1>3, <1>5, <1>9, <2>2, <3>3, <3>4 DEF HeaderGot
    <3>7. RecvAt(2)'
      BY <1>1, <1>9, <3>2 DEF RecvAt
    <3>8. payload_left' % 256 = N % 256
      <4>1. N % 256 \in Nat /\ (N % 256) % 256 = N % 256
        BY <1>1, LengthBytes
      <4> QED
        BY <1>10, <3>2, <3>4, <4>1, CountStaysSmall
    <3> QED
      BY <2>2, <3>5, <3>6, <3>7, <3>8
  <2>3. CASE Got = 2
    <3>1. recv = "RxLenH"
      BY <1>5, <2>3 DEF RecvAt
    <3>2. /\ recv' = "RxData" /\ hdr' = [hdr EXCEPT !.msb = last_byte.v]
          /\ payload_left' = (last_byte.v % 256) * 256 + (payload_left % 256)
      BY <1>2, <1>3, <3>1, RecvTakes
    <3>3. hdr'.msb = last_byte.v /\ hdr'.cmd = hdr.cmd /\ hdr'.lsb = hdr.lsb
      BY <3>2, HeaderFields
    <3>4. last_byte.v = N \div 256
      BY <1>8, <1>11, <2>3
    <3>5. g = 3
      BY <2>3
    <3>6. HeaderGot(3)'
      BY <1>3, <1>5, <1>9, <2>3, <3>3, <3>4 DEF HeaderGot
    <3>7. RecvAt(3)'
      BY <1>1, <1>9, <3>2 DEF RecvAt
    <3>8. payload_left' = N
      <4>1. (N \div 256) % 256 = N \div 256 /\ (N \div 256) * 256 + (N % 256) = N
        BY <1>1, LengthBytes
      <4>2. payload_left % 256 = N % 256
        BY <1>5, <2>3
      <4> QED
        BY <3>2, <3>4, <4>1, <4>2, Zenon
    <3>9. N = N + 3 - 3
      BY <1>1
    <3> QED
      BY <2>3, <3>5, <3>6, <3>7, <3>8, <3>9
  <2> QED
    BY <2>1, <2>2, <2>3
<1>13. Stored(PayOf(g))'
  BY <1>6, <1>7 DEF Stored
<1>14. Got # N + 3 /\ g \notin 4 .. N + 2
  BY <1>1
<1>15. conv'.full <=> Len(conv'.bytes) = 4
  <2>1. Len(conv'.bytes) # 4
    BY <1>7, LessThanFour, Zenon
  <2> QED
    BY <1>7, <2>1, Zenon
<1> QED
  BY <1>4, <1>7, <1>12, <1>13, <1>14, <1>15, StillCutting

\* Counting to four.
LEMMA BelowFour ==
    ASSUME NEW m \in Nat PROVE (m <= 4 /\ m # 4 => m < 4) /\ (m = 3 <=> m + 1 = 4)
OBVIOUS

\* A byte of the payload.
LEMMA PayloadByte ==
    ASSUME WriteCalls, NEW p \in AllPlans, p.kind = "write", NEW tag,
           NEW j \in 4 .. p.n + 3
    PROVE  ByteAt(p, tag, j) = ValueOf(p)
BY WriteBytes


\* The receiver passes a byte of the payload to the queue.
LEMMA CutPayload ==
    ASSUME WriteCalls, BusTypes, HandlerTypes, BusSide, Selection, Cutting, Tick, rx_valid,
           NEW e, Clock(e, <<>>), Silent(e), ~e.sw_req, Got \in 3 .. N + 2
    PROVE  Cutting'
<1>1. /\ Got \in Nat /\ N \in Nat /\ N >= 1 /\ N < 65536 /\ Writing
      /\ xfr.plan \in AllPlans /\ xfr.plan.kind = "write" /\ xfr.plan.n = N
  BY CuttingFacts, CommandFacts DEF Cutting
<1> PICK g \in Nat : g = Got + 1
  BY <1>1
<1> PICK m \in Nat : m = Len(conv.bytes)
  BY DEF HandlerTypes
<1> PICK q \in Nat : q = Len(rx_queue)
  BY DEF HandlerTypes
<1>2. Handler(e) /\ ~e.stop
  BY DEF Clock, Silent
<1>3. /\ xfr' = xfr
      /\ last_byte = [f |-> xfr.tag, k |-> Got + 2,
                      v |-> ByteAt(xfr.plan, xfr.tag, Got + 1)]
      /\ ~Taken /\ data_queue_flow /\ virtual_sel /\ ~conv_flush /\ ~conv.full
  BY CutArrives
<1>4. /\ queue_select' <=> payload_left = 1
      /\ PortIdle /\ ~rx_req(e) /\ ~rx_clr /\ recv = "RxData"
  BY CutArrived
<1>5. /\ HeaderGot(Got) /\ Stored(PayOf(Got)) /\ (conv.full <=> (Len(conv.bytes) = 4))
      /\ payload_left = N + 3 - Got
  BY DEF Cutting, PayOf
<1>6. PayOf(Got) = Got - 3 /\ N' = N /\ PayOf(g)' = Got - 2 /\ Got - 3 \in Nat
  <2>1. N' = N
    BY <1>3 DEF N
  <2>2. PayOf(Got) = Got - 3 /\ Got - 3 \in Nat
    BY <1>1 DEF PayOf
  <2>3. g > 3 /\ g <= N + 3 /\ g - 3 = Got - 2
    BY <1>1
  <2>4. PayOf(g)' = g - 3
    BY <1>1, <2>1, <2>3 DEF PayOf
  <2> QED
    BY <2>1, <2>2, <2>3, <2>4
<1>7. PortIdle' /\ rx_queue' = rx_queue
  <2>1. /\ PortIdle'
        /\ rx_queue' = IF conv.full /\ Len(rx_queue) < RxDepth
                       THEN rx_queue \o <<conv.bytes>> ELSE rx_queue \o <<>>
    BY <1>2, <1>4, PortWaits
  <2>2. rx_queue \in Seq(Seq(Byte))
    BY DEF HandlerTypes
  <2> QED
    BY <1>3, <2>1, <2>2
<1>8. conv' = [bytes |-> Append(conv.bytes, last_byte), full |-> Len(conv.bytes) = 3]
  BY <1>2, <1>3, ConvFills
<1>9. /\ \A i \in 1 .. q : rx_queue[i] = WordOf(xfr.plan, xfr.tag, i - 1)
      /\ 4 * q <= N /\ m = Got - 3 - 4 * q /\ m < 4
      /\ \A j \in 1 .. m : conv.bytes[j] = PayByte(xfr.plan, xfr.tag, 4 * q + j)
  <2>1. /\ \A i \in 1 .. q : rx_queue[i] = WordOf(xfr.plan, xfr.tag, i - 1)
        /\ 4 * q <= N /\ m = Got - 3 - 4 * q /\ m <= 4
        /\ \A j \in 1 .. m : conv.bytes[j] = PayByte(xfr.plan, xfr.tag, 4 * q + j)
    BY <1>5, <1>6 DEF Stored
  <2>2. m # 4
    BY <1>3, <1>5
  <2>3. m < 4
    BY <2>1, <2>2, BelowFour, Zenon
  <2> QED
    BY <2>1, <2>3, Zenon
<1> DEFINE s == Append(conv.bytes, last_byte)
<1>10. Len(s) = m + 1 /\ s[m + 1] = last_byte /\ \A j \in 1 .. m : s[j] = conv.bytes[j]
  <2>1. conv.bytes \in Seq(Byte) /\ last_byte \in Byte
    BY DEF HandlerTypes, BusTypes
  <2> QED
    BY <2>1
<1>11. last_byte = PayByte(xfr.plan, xfr.tag, 4 * q + (m + 1))
  <2>1. ByteAt(xfr.plan, xfr.tag, Got + 1) = ValueOf(xfr.plan)
    <3>1. Got + 1 \in 4 .. xfr.plan.n + 3
      BY <1>1
    <3>2. xfr.plan \in AllPlans /\ xfr.plan.kind = "write"
      BY <1>1
    <3> QED
      BY <3>1, <3>2, PayloadByte
  <2>2. 4 + (4 * q + (m + 1)) = Got + 2
    BY <1>1, <1>9
  <2> QED
    BY <1>3, <2>1, <2>2 DEF PayByte
<1>12. Len(rx_queue') = q /\ conv'.bytes = s /\ Len(conv'.bytes) = m + 1
  BY <1>7, <1>8, <1>10
<1>13. Stored(PayOf(g))'
  <2>1. m + 1 = Got - 2 - 4 * q /\ m + 1 <= 4
    BY <1>1, <1>9
  <2>2. \A j \in 1 .. m + 1 : s[j] = PayByte(xfr.plan, xfr.tag, 4 * q + j)
    <3> TAKE j \in 1 .. m + 1
    <3>1. CASE j = m + 1
      BY <1>10, <1>11, <3>1
    <3>2. CASE j \in 1 .. m
      BY <1>9, <1>10, <3>2
    <3> QED
      BY <3>1, <3>2
  <2> HIDE DEF s
  <2> QED
    BY <1>3, <1>6, <1>7, <1>9, <1>12, <2>1, <2>2 DEF Stored
<1>14. conv'.full <=> Len(conv'.bytes) = 4
  <2>1. conv'.full <=> m = 3
    BY <1>8
  <2>2. m = 3 <=> m + 1 = 4
    BY BelowFour, Zenon
  <2> QED
    BY <1>12, <2>1, <2>2, Zenon
<1>15. /\ hdr' = hdr /\ payload_left' = (payload_left + 65535) % 65536
       /\ recv' = IF payload_left = 1 THEN "RxPec" ELSE "RxData"
  <2>1. payload_left # 0
    BY <1>1, <1>5
  <2> QED
    BY <1>2, <1>3, <1>4, <2>1, RecvPasses
<1>16. RecvAt(g)' /\ HeaderGot(g)'
  <2>1. HeaderGot(g)'
    BY <1>1, <1>3, <1>5, <1>6, <1>15 DEF HeaderGot
  <2>2. CASE Got = N + 2
    <3>1. payload_left = 1 /\ g = N + 3
      BY <1>1, <1>5, <2>2
    <3>2. recv' = "RxPec"
      BY <1>15, <3>1
    <3> QED
      BY <1>1, <1>6, <2>1, <3>1, <3>2 DEF RecvAt
  <2>3. CASE Got # N + 2
    <3>1. payload_left # 1 /\ g \in 4 .. N + 2
      BY <1>1, <1>5, <2>3
    <3>2. recv' = "RxData"
      BY <1>15, <3>1
    <3> QED
      BY <1>1, <1>6, <2>1, <3>1, <3>2 DEF RecvAt
  <2> QED
    BY <2>2, <2>3
<1>17. /\ g = 2 => payload_left' % 256 = N % 256
       /\ g \in 3 .. N + 2 => payload_left' = N + 3 - g
  <2>1. g # 2
    BY <1>1
  <2>2. payload_left \in Nat /\ payload_left < 65536 /\ payload_left > 0
    BY <1>1, <1>5 DEF HandlerTypes
  <2>3. payload_left' = payload_left - 1
    BY <1>15, <2>2, CountStaysSmall
  <2> QED
    BY <1>1, <1>5, <2>1, <2>3
<1>18. queue_select' <=> g \notin 4 .. N + 2
  <2>1. payload_left = 1 <=> g \notin 4 .. N + 2
    BY <1>1, <1>5
  <2> QED
    BY <1>4, <2>1
<1>19. Got # N + 3
  BY <1>1
<1> QED
  BY <1>7, <1>13, <1>14, <1>16, <1>17, <1>18, <1>19, StillCutting

\* The PEC, which ends the command.
LEMMA CutPec ==
    ASSUME WriteCalls, BusTypes, HandlerTypes, BusSide, Selection, Cutting, Tick, rx_valid,
           NEW e, Clock(e, <<>>), Silent(e), ~e.sw_req, Got = N + 3
    PROVE  Handing'
<1>1. /\ Got \in Nat /\ N \in Nat /\ N >= 1 /\ N < 65536 /\ Writing
      /\ xfr.plan \in AllPlans /\ xfr.plan.kind = "write" /\ xfr.plan.n = N
      /\ Got \notin 3 .. N + 2
  BY CuttingFacts, CommandFacts DEF Cutting
<1>2. Handler(e)
  BY DEF Clock
<1>3. /\ phase = "Byte" /\ calm = 0 /\ xfr.k = Got + 2 /\ ~conv.full
      /\ phase' = "Byte" /\ calm' = 1 /\ xfr' = xfr
      /\ last_byte = [f |-> xfr.tag, k |-> Got + 2,
                      v |-> ByteAt(xfr.plan, xfr.tag, Got + 1)]
      /\ Taken /\ ~data_queue_flow /\ virtual_sel /\ ~conv_flush
  BY <1>1, CutArrives
<1>4. /\ ExecIdle' /\ ~sw_busy' /\ owed' = owed /\ ~queue_flush' /\ queue_select'
      /\ PortIdle /\ ~rx_req(e) /\ ~rx_clr /\ recv = "RxPec" /\ recv_is_rd' = FALSE
  <2>1. ExecIdle' /\ ~sw_busy' /\ owed' = owed /\ ~queue_flush'
    BY CutArrived
  <2>2. PortIdle /\ ~rx_req(e) /\ ~rx_clr /\ recv = "RxPec"
    BY CutArrived
  <2>3. recv_is_rd' = FALSE
    BY CutArrived
  <2>4. queue_select'
    <3>1. Got \notin 3 .. N + 2 => queue_select'
      BY CutArrived
    <3>2. Got \notin 3 .. N + 2
      BY <1>1
    <3> QED
      BY <3>1, <3>2
  <2> QED
    BY <2>1, <2>2, <2>3, <2>4
<1>5. /\ HeaderGot(Got) /\ Stored(PayOf(Got)) /\ (conv.full <=> (Len(conv.bytes) = 4))
      /\ rx_crc = Crc(xfr.tag, Got + 1)
      /\ owed = IF Fin THEN <<[plan |-> xfr.plan, tag |-> xfr.tag]>> ELSE <<>>
  BY DEF Cutting, PayOf
<1>6. PayOf(Got) = N /\ N' = N /\ Writing'
  BY <1>1, <1>3 DEF PayOf, N, Writing
<1>7. Stored(N) /\ Stored(N)' /\ ~conv'.full /\ Len(conv'.bytes) < 4 /\ PortIdle'
  <2>1. Stored(N)
    BY <1>5, <1>6 DEF Stored
  <2>2. \E pay \in Nat : pay = N
    BY <1>1
  <2>3. PICK pay \in Nat : pay = N
    BY <2>2
  <2>4. Stored(pay)
    BY <2>1, <2>3 DEF Stored
  <2>5. pay <= N
    BY <1>1, <2>3
  <2>6. xfr'.plan = xfr.plan /\ xfr'.tag = xfr.tag
    BY <1>3
  <2>7. Stored(pay)' /\ ~conv'.full /\ Len(conv'.bytes) < 4 /\ PortIdle'
    BY <1>1, <1>2, <1>3, <1>4, <1>5, <2>4, <2>5, <2>6, StoredWaits
  <2>8. Stored(N)'
    BY <1>6, <2>3, <2>7 DEF Stored
  <2> QED
    BY <2>1, <2>7, <2>8
<1>8. /\ recv' = "Cmd" /\ hdr' = [hdr EXCEPT !.pec = last_byte.v] /\ pec_calc' = rx_crc
  BY <1>2, <1>3, <1>4, RecvTakes
<1>9. /\ hdr'.pec = ByteAt(xfr.plan, xfr.tag, N + 4) /\ HeaderGot(3)'
  <2>1. /\ hdr'.cmd = hdr.cmd /\ hdr'.lsb = hdr.lsb /\ hdr'.msb = hdr.msb
        /\ hdr'.pec = last_byte.v
    BY <1>8, HeaderFields
  <2>2. Got + 1 = N + 4 /\ Got >= 3
    BY <1>1
  <2>3. HeaderGot(3)'
    BY <1>1, <1>3, <1>5, <1>6, <2>1, <2>2 DEF HeaderGot
  <2> QED
    BY <1>3, <2>1, <2>2, <2>3
<1>10. pec_calc' = Crc(xfr'.tag, N' + 4)
  <2>1. Got + 1 = N + 4
    BY <1>1
  <2> QED
    BY <1>3, <1>5, <1>6, <1>8, <2>1
<1>11. Fin /\ Fin'
  <2>1. xfr.k = N + 5
    BY <1>1, <1>3
  <2> QED
    BY <1>1, <1>3, <1>6, <2>1 DEF Fin
<1>12. owed' = <<[plan |-> xfr'.plan, tag |-> xfr'.tag]>>
  BY <1>3, <1>4, <1>5, <1>11
<1>13. hdr'.pec = ByteAt(xfr'.plan, xfr'.tag, N' + 4)
  BY <1>3, <1>6, <1>9
<1> QED
  BY <1>3, <1>4, <1>7, <1>8, <1>9, <1>10, <1>11, <1>12, <1>13 DEF Handing, ExecIdle

\* The receiver is ready for the byte.
LEMMA CuttingReady ==
    ASSUME WriteCalls, BusTypes, BusSide, Cutting, rx_valid
    PROVE  rx_wready
<1>1. phase = "Byte" /\ calm = 0 /\ data_ready /\ ~conv.full
  BY DEF BusSide, Cutting
<1> QED
  BY <1>1 DEF rx_wready

\* Software waits.
LEMMA CuttingNotRead ==
    ASSUME WriteCalls, BusTypes, HandlerTypes, BusSide, Cutting
    PROVE  ~MayRead
<1>1. Writing /\ Stored(PayOf(Got))
  BY DEF Cutting, PayOf
<1>2. Got \in Nat /\ N \in Nat
  BY <1>1, CuttingFacts, CommandFacts
<1>3. PayOf(Got) \in Nat
  BY <1>2 DEF PayOf
<1> QED
  BY <1>1, <1>3, StoredForeign, ForeignNotRead

\* A clock in Cutting.
LEMMA CutTick ==
    ASSUME WriteCalls, BusTypes, HandlerTypes, BusSide, Selection, Cutting, Tick
    PROVE  Cutting' \/ Handing'
<1>1. PICK e : Clock(e, <<>>) /\ Silent(e) /\ ~e.sw_req
  BY TickEvent, CuttingNotRead
<1>2. /\ Writing /\ Checked /\ ~(AtAck /\ calm <= 2) /\ ~(Fin /\ calm > 0)
  BY DEF Cutting
<1>3. /\ ~Between /\ xfr.k >= 1 /\ phase \in {"Byte", "Bit"} /\ Got \in Nat /\ Got <= N + 3
      /\ calm \in Nat /\ N \in Nat /\ N >= 1 /\ xfr.k \in Nat
  BY <1>2, CuttingFacts, CommandFacts
<1>4. CASE rx_valid
  <2>1. Got \in 0 .. 2 \/ Got \in 3 .. N + 2 \/ Got = N + 3
    BY <1>3
  <2> QED
    BY <1>1, <1>4, <2>1, CutHeader, CutPayload, CutPec
<1>5. CASE ~rx_valid
  <2>1. /\ phase' = phase /\ xfr' = xfr
        /\ calm' = IF calm < LongGap THEN calm + 1 ELSE calm
        /\ calm' \in 1 .. LongGap
        /\ (Between' <=> Between) /\ (AtAck' <=> AtAck) /\ (Writing' <=> Writing)
        /\ (Fin' <=> Fin)
    BY TickPlaces
  <2>2. LongGap \in Nat /\ LongGap >= 5
    BY CallFacts
  <2>3. phase = "Byte" /\ xfr.k > 1 => calm > 0
    BY <1>3, <1>5 DEF BusSide
  <2>4. ~Fin
    BY <1>2, <1>3, <2>3 DEF Fin
  <2>5. Got' = Got
    <3>1. xfr'.k = xfr.k /\ (calm > 0 => calm' > 0)
      BY <2>1
    <3>2. CASE xfr.k = 1
      BY <3>1, <3>2, Zenon DEF Got
    <3>3. CASE xfr.k # 1 /\ phase = "Byte"
      <4>1. calm > 0
        BY <1>3, <2>3, <3>3
      <4> QED
        BY <2>1, <3>1, <3>3, <4>1, Zenon DEF Got
    <3>4. CASE xfr.k # 1 /\ phase # "Byte"
      BY <2>1, <3>1, <3>4, Zenon DEF Got
    <3> QED
      BY <3>2, <3>3, <3>4
  <2>6. Writing' /\ Checked' /\ ~(AtAck' /\ calm' <= 2) /\ ~Fin'
    BY <1>2, <1>3, <2>1, <2>2, <2>4 DEF Checked
  <2>7. Got = 3 => phase' # "Byte" \/ calm' # 1
    <3>1. Got = 3 => xfr.k > 1
      BY <1>3, GotIs
    <3> QED
      BY <1>3, <2>1, <2>2, <2>3, <3>1
  <2>8. <<>> = IF Fin' THEN <<[plan |-> xfr.plan, tag |-> xfr.tag]>> ELSE <<>>
    BY <2>6
  <2>9. ~e.start /\ ~e.stop
    BY <1>1 DEF Silent
  <2>10. xfr'.plan = xfr.plan /\ xfr'.tag = xfr.tag
    BY <2>1
  <2> QED
    BY <1>1, <1>5, <2>4, <2>5, <2>6, <2>7, <2>8, <2>9, <2>10, CutWaits
<1> QED
  BY <1>4, <1>5

\* The end of a byte in Cutting.
LEMMA CutByteEnd ==
    ASSUME WriteCalls, BusTypes, HandlerTypes, BusSide, Selection, Cutting, ByteEnd
    PROVE  Cutting'
<1>1. PICK e : Clock(e, <<>>) /\ Dones(e)
  BY ByteEndMoves
<1>2. /\ Writing /\ Checked /\ ~(AtAck /\ calm <= 2) /\ ~(Fin /\ calm > 0)
  BY DEF Cutting
<1>3. /\ ~Between /\ xfr.k >= 1 /\ Got \in Nat /\ calm \in Nat /\ xfr.k \in Nat
  BY <1>2, CuttingFacts, CommandFacts
<1>4. /\ phase = "Byte" /\ phase' = "Bit" /\ calm >= LongGap /\ calm' = 0
      /\ xfr'.plan = xfr.plan /\ xfr'.tag = xfr.tag /\ xfr'.k = xfr.k + 1
  BY ByteEndMoves
<1>5. calm > 0
  BY <1>3, <1>4, CallFacts
<1>6. ~rx_valid /\ ~Fin /\ ~Fin'
  BY <1>2, <1>4, <1>5 DEF BusSide, Fin
<1>7. Got' = Got
  <2>1. xfr'.k # 1 /\ xfr'.k - 2 = xfr.k - 1
    BY <1>3, <1>4
  <2>2. Got' = xfr.k - 1
    <3>1. Got' = xfr'.k - 2
      <4>1. phase' # "Byte"
        BY <1>4
      <4> QED
        BY <2>1, <4>1, Zenon DEF Got
    <3> QED
      BY <2>1, <3>1
  <2>3. Got = xfr.k - 1
    BY <1>3, <1>4, <1>5, GotIs
  <2> QED
    BY <2>2, <2>3
<1>8. Writing' /\ Checked' /\ ~AtAck'
  BY <1>2, <1>3, <1>4 DEF Writing, Checked, Between, AtAck
<1>9. phase' # "Byte"
  BY <1>4
<1>10. <<>> = IF Fin' THEN <<[plan |-> xfr.plan, tag |-> xfr.tag]>> ELSE <<>>
  BY <1>6
<1>11. ~e.start /\ ~e.stop /\ ~e.sw_req
  BY <1>1 DEF Dones
<1> QED
  BY <1>1, <1>4, <1>6, <1>7, <1>8, <1>9, <1>10, <1>11, CutWaits

\* The end of a T-bit in Cutting.
LEMMA CutBitEnd ==
    ASSUME WriteCalls, BusTypes, HandlerTypes, BusSide, Selection, Cutting, BitEnd
    PROVE  Cutting'
<1> DEFINE sent == IF xfr.plan.kind = "write" /\ xfr.todo = <<>>
                   THEN <<[plan |-> xfr.plan, tag |-> xfr.tag]>> ELSE <<>>
<1>1. PICK e : Clock(e, sent) /\ Dones(e)
  BY BitEndEvent
<1>2. /\ Writing /\ Checked /\ ~(AtAck /\ calm <= 2) /\ ~(Fin /\ calm > 0)
  BY DEF Cutting
<1>3. /\ ~Between /\ xfr.k >= 1 /\ Got \in Nat /\ calm \in Nat /\ xfr.k \in Nat
      /\ N \in Nat /\ N >= 1 /\ Size(xfr.plan) = N + 4
  BY <1>2, CuttingFacts, CommandFacts
<1>4. /\ phase = "Bit" /\ phase' = "Byte" /\ calm >= ShortGap /\ calm' = 0
      /\ xfr'.plan = xfr.plan /\ xfr'.tag = xfr.tag /\ xfr'.k = xfr.k
  BY BitEndMoves
<1>5. ~rx_valid /\ ~Fin
  BY <1>4 DEF BusSide, Fin
<1>6. Got' = Got
  <2>1. ~(phase = "Byte" /\ calm > 0) /\ ~(phase' = "Byte" /\ calm' > 0)
    BY <1>4
  <2>2. CASE xfr.k = 1
    BY <1>4, <2>2, Zenon DEF Got
  <2>3. CASE xfr.k # 1
    BY <1>4, <2>1, <2>3, Zenon DEF Got
  <2> QED
    BY <2>2, <2>3
<1>7. Writing' /\ Checked' /\ ~AtAck' /\ ~(Fin' /\ calm' > 0)
  BY <1>2, <1>3, <1>4 DEF Writing, Checked, Between, AtAck
<1>8. sent = IF Fin' THEN <<[plan |-> xfr.plan, tag |-> xfr.tag]>> ELSE <<>>
  <2>1. Len(xfr.todo) = N + 4 - (xfr.k - 1)
    <3>1. SentBytes = xfr.k - 1
      BY <1>3 DEF SentBytes
    <3> QED
      BY <1>3, <3>1 DEF BusSide
  <2>2. xfr.todo \in Seq(Nat)
    BY DEF BusTypes
  <2>3. xfr.todo = <<>> <=> xfr.k = N + 5
    <3>1. xfr.todo = <<>> <=> Len(xfr.todo) = 0
      BY <2>2
    <3> QED
      BY <1>3, <2>1, <3>1
  <2>4. Fin' <=> xfr.k = N + 5
    BY <1>4, <1>7 DEF Fin, N
  <2> QED
    BY <1>2, <2>3, <2>4 DEF Writing
<1>9. Got = 3 => phase' # "Byte" \/ calm' # 1
  BY <1>4
<1>10. ~e.start /\ ~e.stop /\ ~e.sw_req
  BY <1>1 DEF Dones
<1> QED
  BY <1>1, <1>4, <1>5, <1>6, <1>7, <1>8, <1>9, <1>10, CutWaits

\* From Cutting the command is handed over, at its last byte.
LEMMA CuttingStep ==
    ASSUME WriteCalls, BusTypes, HandlerTypes, BusSide, Selection, Cutting, Next
    PROVE  Cutting' \/ Handing'
<1>1. ~Between /\ Writing /\ ~(Fin /\ calm > 0) /\ calm \in Nat
  BY CuttingFacts DEF Cutting
<1>2. ~MayEnd
  <2>1. ASSUME MayEnd PROVE FALSE
    <3>1. Fin /\ calm >= ShortGap
      BY <1>1, <2>1, EndFacts
    <3> QED
      BY <1>1, <3>1, CallFacts
  <2> QED
    BY <2>1
<1>3. phase # "Quiet"
  BY <1>1 DEF Between
<1>4. ~START /\ ~RepeatedStart /\ ~STOP
  BY <1>2, <1>3 DEF START, RepeatedStart, STOP
<1> QED
  BY <1>4, CutTick, CutByteEnd, CutBitEnd DEF Next

-----------------------------------------------------------------------------
(* A command begins. *)

\* The receiver between commands.
LEMMA RecvRests ==
    ASSUME NEW e, Handler(e), recv \in {"Idle", "RxCmd"}, queue_select, ~Taken
    PROVE  /\ recv' \in {"Idle", "RxCmd"} /\ queue_select'
           /\ virtual_sel /\ recovery_pending /\ ~e.stop => recv' = "RxCmd"
<1> DEFINE i == recv_in(e)
<1>1. /\ Receiver(i) /\ i.on = virtual_sel /\ ~rx_flow(i)
      /\ i.start = e.start /\ i.stop = e.stop /\ i.pending = recovery_pending
  BY RecvInputs DEF Handler
<1> HIDE DEF i
<1>2. recv' = IF i.on THEN recv_d(i) ELSE "Idle"
  BY <1>1 DEF Receiver
<1>3. /\ recv_d(i) \in {"Idle", "RxCmd"}
      /\ i.pending /\ ~i.stop => recv_d(i) = "RxCmd"
  BY <1>1 DEF recv_d, OnFlow
<1>4. queue_select'
  BY <1>1 DEF Receiver, QueueMux
<1> QED
  BY <1>1, <1>2, <1>3, <1>4

\* The executor and the port without a command.
LEMMA NothingMoves ==
    ASSUME HandlerTypes, NEW e, NEW sent, Clock(e, sent), ExecIdle, PortIdle, ~sw_busy,
           ~e.sw_req, recv \notin {"Cmd", "CmdIsRd"}, ~data_queue_flow, ~conv.full,
           owed = <<>>, sent \in {<<>>}
    PROVE  /\ ExecIdle' /\ PortIdle' /\ ~sw_busy' /\ owed' = <<>> /\ rx_queue' = rx_queue
           /\ ~conv_flush \/ conv.bytes = <<>> => conv' = conv
<1>1. Handler(e)
  BY DEF Clock
<1>2. ExecIdle' /\ ~sw_busy'
  <2>1. ~sw_busy'
    BY DEF Clock
  <2> QED
    BY <1>1, <2>1, IdleClock
<1>3. ~rx_req(e) /\ ~rx_clr
  BY DEF rx_req, rx_clr, rx_data_queue_clr, ExecIdle
<1>4. PortIdle' /\ rx_queue' = rx_queue
  <2>1. PortIdle' /\ rx_queue' = rx_queue \o <<>>
    BY <1>1, <1>3, PortWaits
  <2>2. rx_queue \in Seq(Seq(Byte))
    BY DEF HandlerTypes
  <2> QED
    BY <2>1, <2>2
<1>5. owed' = <<>>
  <2>1. ~TakesCommand
    BY DEF TakesCommand, ExecIdle
  <2>2. owed' = <<>> \o <<>>
    BY <2>1 DEF Clock
  <2> QED
    BY <2>2
<1>6. ~conv_flush \/ conv.bytes = <<>> => conv' = conv
  BY <1>1, ConvWaits
<1> QED
  BY <1>2, <1>4, <1>5, <1>6

\* The PEC starts with the byte of the header.
LEMMA HeaderFeeds ==
    ASSUME WriteCalls, BusTypes, BusSide, AtAck
    PROVE  Feed(0, last_byte) = Crc(xfr.tag, 1)
<1>1. xfr.tag \in {1, 2} /\ ~Between /\ xfr.k = 1
  BY PlaceFacts DEF AtAck, Between
<1>2. last_byte.f = xfr.tag /\ last_byte.k = 1
  BY <1>1 DEF BusSide
<1> QED
  BY <1>1, <1>2, FeedNext

\* The check of the header of a command opens the receiver.
LEMMA OpensOnHeader ==
    ASSUME WriteCalls, BusTypes, HandlerTypes, BusSide, Selection, Resting, Tick,
           AtAck, calm = 0, Writing
    PROVE  Opening'
<1>1. /\ recv \in {"Idle", "RxCmd"} /\ queue_select /\ ExecIdle /\ owed = <<>> /\ Empty
      /\ PortIdle
  BY DEF Resting, AtAck, Empty
<1>2. /\ ~sw_busy /\ rx_queue = <<>> /\ conv = [bytes |-> <<>>, full |-> FALSE]
      /\ conv.bytes = <<>> /\ ~conv.full
  BY <1>1 DEF Empty
<1>3. ~MayRead
  BY <1>2 DEF MayRead
<1>4. PICK e : Clock(e, <<>>) /\ Silent(e) /\ ~e.sw_req
  BY <1>3, TickEvent
<1>5. Handler(e)
  BY <1>4 DEF Clock
<1>6. ~rx_valid /\ ~Taken /\ ~data_queue_flow
  BY DEF BusSide, AtAck, Taken, data_queue_flow, data_queue_wvalid
<1>7. /\ ExecIdle' /\ PortIdle' /\ ~sw_busy' /\ owed' = <<>> /\ rx_queue' = <<>>
      /\ conv' = [bytes |-> <<>>, full |-> FALSE]
  BY <1>1, <1>2, <1>4, <1>6, NothingMoves
<1>8. recv' \in {"Idle", "RxCmd"} /\ queue_select'
  BY <1>1, <1>5, <1>6, RecvRests
<1>9. Writing' /\ AtAck' /\ calm' = 1 /\ xfr' = xfr
  BY TickPlaces, CallFacts
<1>10. \/ mode_enter' = 2 /\ rx_crc' = 0
       \/ mode_enter' = 0 /\ rx_crc' = Crc(xfr.tag, 1)
  <2>1. checks_header /\ mode_enter = IF virtual_sel THEN 0 ELSE 2
    BY HeaderChecked DEF Selection
  <2>2. mode_enter' = IF virtual_sel THEN mode_enter \div 2 ELSE 2
    BY <1>5, SelectionClock
  <2>3. RxPec(e) /\ ~e.start
    BY <1>4, <1>5 DEF Handler, Silent
  <2>4. CASE virtual_sel
    <3>1. rx_crc' = Feed(0, last_byte)
      BY <2>1, <2>3, <2>4, Zenon DEF RxPec
    <3> QED
      BY <2>1, <2>2, <2>4, <3>1, HeaderFeeds
  <2>5. CASE ~virtual_sel
    <3>1. rx_crc' = 0
      BY <2>3, <2>5, Zenon DEF RxPec
    <3> QED
      BY <2>2, <2>5, <3>1
  <2> QED
    BY <2>4, <2>5
<1>11. \/ mode_enter' = 3 - calm' /\ rx_crc' = 0
       \/ mode_enter' = 0 /\ rx_crc' = Crc(xfr'.tag, 1)
  BY <1>9, <1>10
<1>12. calm' \in 1 .. 2 /\ (recv' = "RxCmd" \/ (recv' = "Idle" /\ calm' = 1))
  BY <1>8, <1>9
<1> QED
  BY <1>7, <1>8, <1>9, <1>11, <1>12 DEF Opening

\* From Opening the receiver starts to cut.
LEMMA OpeningStep ==
    ASSUME WriteCalls, BusTypes, HandlerTypes, BusSide, Selection, Opening, Next
    PROVE  Opening' \/ Cutting'
<1>1. /\ Writing /\ AtAck /\ calm \in 1 .. 2
      /\ ExecIdle /\ PortIdle /\ ~sw_busy /\ owed = <<>>
      /\ recv = "RxCmd" \/ (recv = "Idle" /\ calm = 1)
      /\ queue_select /\ rx_queue = <<>> /\ conv = [bytes |-> <<>>, full |-> FALSE]
      /\ \/ mode_enter = 3 - calm /\ rx_crc = 0
         \/ mode_enter = 0 /\ rx_crc = Crc(xfr.tag, 1)
  BY DEF Opening
<1>2. conv.bytes = <<>> /\ ~conv.full /\ recv \in {"Idle", "RxCmd"}
  BY <1>1
<1>3. phase = "Bit" /\ xfr.k = 1 /\ ~Between
  BY <1>1 DEF AtAck, Between
<1>4. ShortGap \in Nat /\ ShortGap >= 5 /\ LongGap \in Nat /\ LongGap >= ShortGap
  BY CallFacts
<1>5. Tick
  <2>1. ~START /\ ~RepeatedStart /\ ~STOP /\ ~ByteEnd
    BY <1>3 DEF START, RepeatedStart, STOP, ByteEnd, MayEnd
  <2>2. ~BitEnd
    <3>1. ASSUME BitEnd PROVE calm >= ShortGap
      BY <3>1, BitEndMoves
    <3> QED
      BY <1>1, <1>4, <3>1
  <2> QED
    BY <2>1, <2>2 DEF Next
<1>6. ~MayRead
  BY <1>1 DEF MayRead
<1>7. PICK e : Clock(e, <<>>) /\ Silent(e) /\ ~e.sw_req
  BY <1>5, <1>6, TickEvent
<1>8. Handler(e) /\ ~e.start /\ ~e.stop
  BY <1>7 DEF Clock, Silent
<1>9. ~rx_valid /\ ~Taken /\ ~data_queue_flow
  BY <1>3 DEF BusSide, Taken, data_queue_flow, data_queue_wvalid
<1>10. /\ ExecIdle' /\ PortIdle' /\ ~sw_busy' /\ owed' = <<>> /\ rx_queue' = <<>>
       /\ conv' = [bytes |-> <<>>, full |-> FALSE]
  BY <1>1, <1>2, <1>7, <1>9, NothingMoves
<1>11. /\ phase' = phase /\ xfr' = xfr /\ calm' = calm + 1
       /\ Writing' /\ AtAck' /\ ~Between' /\ N' = N
  BY <1>1, <1>3, <1>4, <1>5, TickPlaces
<1>12. virtual_sel /\ recovery_pending
  <2>1. Checked
    BY <1>1, <1>3 DEF Checked
  <2> QED
    BY <1>1, <2>1, CommandPending
<1>13. recv' = "RxCmd" /\ queue_select'
  BY <1>1, <1>2, <1>8, <1>9, <1>12, RecvRests
<1>14. mode_enter' = mode_enter \div 2 /\ ~checks_header
  <2>1. ~(AtAck /\ calm = 0)
    BY <1>1
  <2> QED
    BY <1>8, <1>12, <2>1, SelectionClock, HeaderChecked
<1>15. CASE calm = 1
  <2>1. \/ mode_enter' = 1 /\ rx_crc' = 0
        \/ mode_enter' = 0 /\ rx_crc' = Crc(xfr.tag, 1)
    <3>1. rx_crc' = rx_crc
      <4>1. mode_enter # 1
        BY <1>1, <1>15
      <4> QED
        BY <1>8, <1>9, <1>12, <1>14, <4>1, PecWaits
    <3> QED
      BY <1>1, <1>14, <1>15, <3>1
  <2>2. calm' = 2
    BY <1>11, <1>15
  <2>3. \/ mode_enter' = 3 - calm' /\ rx_crc' = 0
        \/ mode_enter' = 0 /\ rx_crc' = Crc(xfr'.tag, 1)
    BY <1>11, <2>1, <2>2
  <2>4. calm' \in 1 .. 2
    BY <2>2
  <2> QED
    BY <1>10, <1>11, <1>13, <2>3, <2>4 DEF Opening
<1>16. CASE calm = 2
  <2>1. mode_enter' = 0 /\ rx_crc' = Crc(xfr.tag, 1)
    <3>1. CASE mode_enter = 1 /\ rx_crc = 0
      <4>1. RxPec(e)
        BY <1>8 DEF Handler
      <4>2. rx_crc' = Feed(rx_crc, last_byte)
        BY <1>8, <1>12, <1>14, <3>1, <4>1, Zenon DEF RxPec
      <4>3. rx_crc' = Feed(0, last_byte)
        BY <3>1, <4>2
      <4> QED
        BY <1>1, <1>14, <3>1, <4>3, HeaderFeeds
    <3>2. CASE mode_enter = 0 /\ rx_crc = Crc(xfr.tag, 1)
      <4>1. rx_crc' = rx_crc
        BY <1>8, <1>9, <1>12, <1>14, <3>2, PecWaits
      <4> QED
        BY <1>14, <3>2, <4>1
    <3> QED
      BY <1>1, <1>16, <3>1, <3>2
  <2>2. calm' = 3 /\ xfr'.k = 1 /\ ~Fin' /\ Checked'
    BY <1>3, <1>11, <1>16 DEF Fin, Checked
  <2>3. Got' = 0
    BY <2>2, Zenon DEF Got
  <2>4. data_ready' /\ ~queue_flush'
    <3>1. recv = "RxCmd"
      BY <1>1, <1>16
    <3> QED
      BY <1>8, <1>12, <3>1, RecvClock
  <2>5. N \in Nat /\ N' = N
    BY <1>1, <1>11, CommandFacts
  <2>6. Stored(0)'
    <3>1. Len(rx_queue') = 0 /\ Len(conv'.bytes) = 0
      BY <1>10
    <3> QED
      BY <2>5, <3>1 DEF Stored
  <2>7. RecvAt(Got)' /\ HeaderGot(Got)'
    <3>1. N' + 3 # 0 /\ 0 \notin 3 .. N' + 2
      BY <2>5
    <3> QED
      BY <1>13, <2>3, <3>1 DEF RecvAt, HeaderGot
  <2>8. ~(\/ Got' \in 4 .. N' + 2
          \/ Got' = 3 /\ (phase' # "Byte" \/ calm' # 1))
    BY <2>3, <2>5
  <2>9. conv'.full <=> (Len(conv'.bytes) = 4)
    BY <1>10
  <2>10. /\ rx_crc' = Crc(xfr'.tag, Got' + 1)
         /\ Got' = 2 => payload_left' % 256 = N' % 256
         /\ Got' \in 3 .. N' + 2 => payload_left' = N' + 3 - Got'
    <3>1. Got' + 1 = 1
      BY <2>3
    <3> QED
      BY <1>11, <2>1, <2>3, <2>5, <3>1
  <2>11. ~(AtAck' /\ calm' <= 2)
    BY <2>2
  <2>12. Stored(PayOf(Got))'
    BY <2>3, <2>6 DEF PayOf, Stored
  <2>13. owed' = IF Fin' THEN <<[plan |-> xfr'.plan, tag |-> xfr'.tag]>> ELSE <<>>
    BY <1>10, <2>2
  <2>14. ~conv'.full
    BY <1>10
  <2> QED
    BY <1>10, <1>11, <1>13, <2>2, <2>4, <2>7, <2>8, <2>9, <2>10, <2>11, <2>12, <2>13, <2>14
       DEF Cutting, PayOf
<1> QED
  BY <1>1, <1>15, <1>16

-----------------------------------------------------------------------------
(* A command is handed over. *)

\* While a command is handed over, nothing happens on the bus.
LEMMA HandingFacts ==
    ASSUME WriteCalls, BusTypes, HandlerTypes, BusSide, Selection, Handing, Next
    PROVE  /\ Writing /\ calm \in 1 .. 3 /\ xfr.k = N + 5 /\ phase = "Byte" /\ ~Between
           /\ ~(AtAck /\ calm = 0)
           /\ Tick /\ ~MayRead /\ ~rx_valid /\ ~Taken /\ ~data_queue_flow
           /\ virtual_sel /\ recovery_pending
           /\ xfr' = xfr /\ N' = N /\ Fin' /\ calm' = calm + 1 /\ Writing'
<1>1. Fin /\ calm \in 1 .. 3 /\ Stored(N)
  BY DEF Handing
<1>2. Writing /\ phase = "Byte" /\ xfr.k = N + 5
  BY <1>1 DEF Fin
<1>3. N \in Nat /\ N >= 1
  BY <1>2, CommandFacts
<1>4. ~Between /\ ~AtAck /\ Checked
  BY <1>2, <1>3 DEF Between, AtAck, Checked
<1>5. ShortGap \in Nat /\ ShortGap >= 5 /\ LongGap \in Nat /\ LongGap >= ShortGap
  BY CallFacts
<1>6. Tick
  <2>1. ~START /\ ~BitEnd
    BY <1>2 DEF START, BitEnd
  <2>2. ~(calm >= ShortGap) /\ ~(calm >= LongGap)
    BY <1>1, <1>5
  <2>3. ~RepeatedStart /\ ~STOP /\ ~ByteEnd
    BY <2>2 DEF RepeatedStart, STOP, ByteEnd, MayEnd
  <2> QED
    BY <2>1, <2>3 DEF Next
<1>7. ~MayRead
  <2>1. PICK pay \in Nat : pay = N
    BY <1>3
  <2>2. Stored(pay)
    BY <1>1, <2>1 DEF Stored
  <2> QED
    BY <1>2, <2>2, StoredForeign, ForeignNotRead
<1>8. ~rx_valid /\ ~Taken /\ ~data_queue_flow
  <2>1. ~rx_valid
    BY <1>1 DEF BusSide
  <2> QED
    BY <2>1 DEF Taken, data_queue_flow, data_queue_wvalid
<1>9. virtual_sel /\ recovery_pending
  BY <1>2, <1>4, CommandPending
<1>10. xfr' = xfr /\ N' = N /\ Fin' /\ Writing' /\ calm' = calm + 1
  BY <1>1, <1>2, <1>5, <1>6, TickPlaces
<1> QED
  BY <1>1, <1>2, <1>4, <1>6, <1>7, <1>8, <1>9, <1>10

\* The converter holds what is left of the payload.
LEMMA LastBytes ==
    ASSUME HandlerTypes, N \in Nat, Stored(N), Len(conv.bytes) < 4
    PROVE  /\ Len(conv.bytes) = N % 4 /\ 4 * Len(rx_queue) = N - (N % 4)
           /\ conv.bytes # <<>> <=> N % 4 # 0
<1>1. Len(conv.bytes) \in Nat /\ Len(rx_queue) \in Nat /\ conv.bytes \in Seq(Byte)
  BY DEF HandlerTypes
<1>2. 4 * Len(rx_queue) <= N /\ Len(conv.bytes) = N - 4 * Len(rx_queue)
  BY DEF Stored
<1>3. ASSUME NEW n \in Nat, NEW l \in Nat, NEW q \in Nat, l < 4, l = n - 4 * q, 4 * q <= n
      PROVE  l = n % 4 /\ 4 * q = n - (n % 4)
  <2>1. n = 4 * q + l
    BY <1>3
  <2>2. (4 * q + l) % 4 = l
    BY <1>3
  <2>3. l = n % 4
    BY <2>1, <2>2
  <2>4. 4 * q = n - l
    BY <1>3, <2>1
  <2> QED
    BY <2>3, <2>4, Zenon
<1>4. Len(conv.bytes) = N % 4 /\ 4 * Len(rx_queue) = N - (N % 4)
  BY <1>1, <1>2, <1>3
<1>5. conv.bytes # <<>> <=> Len(conv.bytes) # 0
  BY <1>1
<1> QED
  BY <1>4, <1>5

\* The last byte of a write command.
LEMMA PecByte ==
    ASSUME WriteCalls, NEW p \in AllPlans, p.kind = "write", NEW tag, NEW k, k = p.n + 4
    PROVE  ByteAt(p, tag, k) = IF p.good THEN Crc(tag, k) ELSE BadPec
BY WriteBytes

\* The clocks in which it is handed over.
LEMMA HandsOver ==
    ASSUME WriteCalls, BusTypes, HandlerTypes, BusSide, Selection, Handing, Tick, calm < 3
    PROVE  Handing'
<1>1. PICK e : Clock(e, <<>>) /\ Silent(e) /\ ~e.sw_req
  BY HandingFacts, TickEvent DEF Next
<1>2. /\ Writing /\ calm \in 1 .. 3 /\ ~Between /\ ~Taken /\ ~data_queue_flow
      /\ virtual_sel /\ recovery_pending
      /\ xfr' = xfr /\ N' = N /\ Fin' /\ calm' = calm + 1
  BY HandingFacts DEF Next
<1>3. Handler(e) /\ ~e.start /\ ~e.stop
  BY <1>1 DEF Clock, Silent
<1>4. /\ xfr.plan \in AllPlans /\ xfr.plan.kind = "write" /\ xfr.tag \in {1, 2}
      /\ N \in Nat /\ N >= 1 /\ N < 65536 /\ xfr.plan.n = N /\ xfr.plan.good \in BOOLEAN
  BY <1>2, CommandFacts, PlanFacts
<1>5. /\ exec = "Idle" /\ ~rreq /\ PortIdle /\ ~sw_busy /\ ~recv_is_rd
      /\ queue_select /\ HeaderGot(3)
      /\ hdr.pec = ByteAt(xfr.plan, xfr.tag, N + 4) /\ pec_calc = Crc(xfr.tag, N + 4)
      /\ owed = <<[plan |-> xfr.plan, tag |-> xfr.tag]>>
      /\ Stored(N) /\ Len(conv.bytes) < 4
      /\ recv = IF calm = 1 THEN "Cmd" ELSE "Busy"
      /\ recv_cmd_valid <=> (calm = 2)
      /\ exec_pending <=> (calm = 3)
      /\ exec_cmd.valid <=> (calm = 3)
      /\ queue_flush <=> (calm = 2 /\ N % 4 # 0)
      /\ conv.full <=> (calm = 3 /\ N % 4 # 0)
  BY DEF Handing
<1>6. /\ hdr.cmd = [f |-> xfr.tag, k |-> 2, v |-> xfr.plan.cmd]
      /\ hdr.lsb = N % 256 /\ hdr.msb = N \div 256
  BY <1>5 DEF HeaderGot
<1>7. calm # 3 /\ ~exec_cmd.valid /\ ~exec_pending /\ ~conv.full
  BY <1>5
<1>8. exec' = "Idle" /\ ~rreq'
  BY <1>3, <1>5, <1>7, ExecWaits
<1>9. ~rx_req(e) /\ ~rx_clr /\ ~sw_busy'
  <2>1. ~rx_req(e)
    BY <1>2, <1>5 DEF rx_req
  <2>2. ~rx_clr
    BY <1>5 DEF rx_clr, rx_data_queue_clr
  <2>3. ~sw_busy'
    BY <1>1, <1>5 DEF Clock
  <2> QED
    BY <2>1, <2>2, <2>3
<1>10. owed' = owed
  <2>1. ~TakesCommand
    BY <1>7 DEF TakesCommand
  <2>2. owed' = owed \o <<>>
    BY <1>1, <2>1 DEF Clock
  <2> QED
    BY <1>5, <2>2
<1>11. /\ hdr' = hdr /\ pec_calc' = pec_calc /\ recv' = "Busy"
  <2>1. recv \in {"Cmd", "Busy"} /\ ~cmd_done
    BY <1>5 DEF cmd_done
  <2> QED
    BY <1>2, <1>3, <2>1, RecvWaits
<1>12. /\ queue_select' /\ (recv_cmd_valid' <=> calm = 1) /\ ~recv_is_rd'
       /\ queue_flush' <=> calm = 1 /\ N % 4 # 0
  <2>1. /\ queue_flush' <=> recv = "Cmd" /\ hdr.lsb % 4 # 0
        /\ queue_select' = IF recv = "RxData" THEN data_queue_flow /\ payload_left = 1
                           ELSE queue_select
        /\ recv_cmd_valid' <=> recv = "Cmd"
        /\ recv_is_rd' <=> recv = "CmdIsRd" \/ (recv_is_rd /\ recv # "Idle")
    BY <1>2, <1>3, RecvClock
  <2>2. (N % 256) % 4 = N % 4
    BY <1>4, LengthBytes
  <2>3. recv = "Cmd" <=> calm = 1
    BY <1>5
  <2>4. recv # "RxData" /\ recv # "CmdIsRd"
    BY <1>5
  <2>5. queue_flush' <=> calm = 1 /\ N % 4 # 0
    BY <1>6, <2>1, <2>2, <2>3
  <2> QED
    BY <1>5, <2>1, <2>3, <2>4, <2>5
<1>13. /\ (exec_pending' <=> calm = 2) /\ (exec_cmd'.valid <=> calm = 2)
       /\ calm = 2 => exec_cmd' = [valid |-> TRUE, is_rd |-> FALSE, cmd |-> xfr.plan.cmd,
                                   f |-> xfr.tag, len |-> N, error |-> ~xfr.plan.good]
  <2>1. exec_cmd' = [valid |-> recv_cmd_valid, is_rd |-> recv_is_rd,
                     cmd |-> hdr.cmd.v, f |-> hdr.cmd.f, len |-> cmd_len,
                     error |-> cmd_error]
    BY <1>3 DEF Handler, Registers
  <2>2. exec_pending' <=> calm = 2
    BY <1>3, <1>5, <1>7 DEF Handler, ExecPending
  <2>3. cmd_len = N
    BY <1>4, <1>6, LengthBytes DEF cmd_len
  <2>4. cmd_error <=> ~xfr.plan.good
    <3>1. ByteAt(xfr.plan, xfr.tag, N + 4)
            = IF xfr.plan.good THEN Crc(xfr.tag, N + 4) ELSE BadPec
      <4>1. N + 4 = xfr.plan.n + 4 /\ xfr.plan \in AllPlans /\ xfr.plan.kind = "write"
        BY <1>4
      <4> QED
        BY <4>1, PecByte, Zenon
    <3>2. Crc(xfr.tag, N + 4) # BadPec
      BY <1>4 DEF Crc, BadPec
    <3> QED
      BY <1>5, <3>1, <3>2, Zenon DEF cmd_error
  <2>5. cmd_error = ~xfr.plan.good
    BY <1>4, <2>4 DEF cmd_error
  <2>6. ASSUME calm = 2
        PROVE  exec_cmd' = [valid |-> TRUE, is_rd |-> FALSE, cmd |-> xfr.plan.cmd,
                            f |-> xfr.tag, len |-> N, error |-> ~xfr.plan.good]
    <3>1. recv_cmd_valid = TRUE /\ recv_is_rd = FALSE
      BY <1>5, <2>6
    <3>2. hdr.cmd.v = xfr.plan.cmd /\ hdr.cmd.f = xfr.tag
      BY <1>6
    <3> QED
      BY <2>1, <2>3, <2>5, <3>1, <3>2
  <2>7. exec_cmd'.valid <=> calm = 2
    BY <1>5, <2>1
  <2> QED
    BY <2>2, <2>6, <2>7
<1>14. conv_flush <=> calm = 2 /\ N % 4 # 0
  BY <1>2, <1>5 DEF conv_flush, to_receiver
<1>15. conv.bytes # <<>> <=> N % 4 # 0
  BY <1>4, <1>5, LastBytes
<1>16. conv'.bytes = conv.bytes /\ (conv'.full <=> calm = 2 /\ N % 4 # 0)
  <2>1. CASE conv_flush
    <3>1. conv' = [bytes |-> conv.bytes, full |-> TRUE]
      BY <1>2, <1>3, <1>7, <1>14, <1>15, <2>1, ConvWaits
    <3> QED
      BY <1>14, <2>1, <3>1
  <2>2. CASE ~conv_flush
    <3>1. conv' = conv
      BY <1>2, <1>3, <1>7, <2>2, ConvWaits
    <3> QED
      BY <1>7, <1>14, <2>2, <3>1
  <2> QED
    BY <2>1, <2>2
<1>17. PortIdle' /\ rx_queue' = rx_queue
  <2>1. PortIdle' /\ rx_queue' = rx_queue \o <<>>
    BY <1>3, <1>5, <1>7, <1>9, PortWaits
  <2>2. rx_queue \in Seq(Seq(Byte))
    BY DEF HandlerTypes
  <2> QED
    BY <2>1, <2>2
<1>18. Stored(N)' /\ Len(conv'.bytes) < 4
  BY <1>2, <1>5, <1>16, <1>17 DEF Stored
<1>19. HeaderGot(3)'
  BY <1>2, <1>5, <1>11 DEF HeaderGot
<1>20. /\ calm' \in 1 .. 3 /\ calm' # 1 /\ (calm' = 2 <=> calm = 1) /\ (calm' = 3 <=> calm = 2)
  BY <1>2
<1>21. /\ hdr'.pec = ByteAt(xfr'.plan, xfr'.tag, N' + 4) /\ pec_calc' = Crc(xfr'.tag, N' + 4)
       /\ owed' = <<[plan |-> xfr'.plan, tag |-> xfr'.tag]>>
  BY <1>2, <1>5, <1>10, <1>11
<1>22. calm' = 3 => exec_cmd' = [valid |-> TRUE, is_rd |-> FALSE, cmd |-> xfr'.plan.cmd,
                                 f |-> xfr'.tag, len |-> N', error |-> ~xfr'.plan.good]
  BY <1>2, <1>13, <1>20
<1>23. /\ queue_flush' <=> (calm' = 2 /\ N' % 4 # 0)
       /\ conv'.full <=> (calm' = 3 /\ N' % 4 # 0)
       /\ recv' = IF calm' = 1 THEN "Cmd" ELSE "Busy"
       /\ recv_cmd_valid' <=> (calm' = 2)
       /\ exec_pending' <=> (calm' = 3)
       /\ exec_cmd'.valid <=> (calm' = 3)
  BY <1>2, <1>11, <1>12, <1>13, <1>16, <1>20
<1> QED
  BY <1>2, <1>8, <1>9, <1>12, <1>17, <1>18, <1>19, <1>20, <1>21, <1>22, <1>23 DEF Handing

\* Words rounds up.
LEMMA WordsCount ==
    ASSUME NEW n \in Nat, n >= 1
    PROVE  /\ Words(n) \in Nat /\ Words(n) >= 1 /\ 4 * (Words(n) - 1) < n
           /\ n <= 4 * Words(n)
           /\ \A d \in Nat : n <= 4 * d => Words(n) <= d
           /\ n % 4 = 0 => 4 * Words(n) = n
           /\ n % 4 # 0 => 4 * (Words(n) - 1) = n - (n % 4)
<1> DEFINE q == n \div 4
           l == n % 4
<1>1. q \in Nat /\ l \in 0 .. 3 /\ n = 4 * q + l
  OBVIOUS
<1> HIDE DEF q, l
<1>2. (n + 3) \div 4 = IF l = 0 THEN q ELSE q + 1
  <2>1. CASE l = 0
    <3>1. (4 * q + 3) \div 4 = q /\ n + 3 = 4 * q + 3
      BY <1>1, <2>1
    <3> QED
      BY <2>1, <3>1
  <2>2. CASE l = 1 \/ l = 2 \/ l = 3
    <3>1. (4 * q + l + 3) \div 4 = q + 1 /\ n + 3 = 4 * q + l + 3
      BY <1>1, <2>2
    <3> QED
      BY <2>2, <3>1
  <2> QED
    BY <1>1, <2>1, <2>2
<1>3. Words(n) = IF l = 0 THEN q ELSE q + 1
  BY <1>2 DEF Words
<1>4. /\ Words(n) \in Nat /\ Words(n) >= 1 /\ 4 * (Words(n) - 1) < n
      /\ n <= 4 * Words(n)
      /\ \A d \in Nat : n <= 4 * d => Words(n) <= d
      /\ l = 0 => 4 * Words(n) = n
      /\ l # 0 => 4 * (Words(n) - 1) = n - l
  BY <1>1, <1>3
<1> QED
  BY <1>4, Zenon DEF l

\* Words of a command are not software's.
LEMMA WordsForeign ==
    ASSUME WriteCalls, NEW p \in AllPlans, p.kind = "write", NEW tag \in {1, 2},
           NEW s, \A i \in 1 .. Len(s) : \E j \in Nat : 4 * j < p.n /\ s[i] = WordOf(p, tag, j)
    PROVE  \A i \in 1 .. Len(s) : s[i] # <<>> /\ s[i][1].v # OwnData
<1> TAKE i \in 1 .. Len(s)
<1>1. PICK j \in Nat : 4 * j < p.n /\ s[i] = WordOf(p, tag, j)
  OBVIOUS
<1>2. /\ WordOf(p, tag, j) # <<>> /\ WordOf(p, tag, j)[1].v = ValueOf(p)
      /\ ValueOf(p) # OwnData
  BY <1>1, WordsAre, Zenon
<1> QED
  BY <1>1, <1>2, Zenon

\* The executor takes up a write command.
LEMMA ExecTakes ==
    ASSUME NEW e, Handler(e), virtual_sel, exec = "Idle", exec_cmd.valid, ~exec_cmd.is_rd
    PROVE  /\ dcnt' = Words(exec_cmd.len) /\ csr_sel' = CsrsOf(exec_cmd.cmd)[1]
           /\ csr_end' = CsrsOf(exec_cmd.cmd)[2]
           /\ rreq' <=> ~exec_cmd.error /\ exec_cmd.len # 0
           /\ exec' = IF exec_cmd.error \/ (~RecoveryMode /\ exec_cmd.cmd > 39)
                         \/ exec_cmd.cmd > 47 \/ exec_cmd.cmd < 34 THEN "Error"
                      ELSE IF exec_cmd.cmd = FifoData THEN "FifoWrite" ELSE "CsrWrite"
<1> DEFINE i == exec_in(e)
<1>1. Executor(i) /\ i.cmd = exec_cmd /\ i.on = virtual_sel
  BY DEF Handler, exec_in
<1> HIDE DEF i
<1>2. /\ begins(i) /\ ~taken(i) /\ ~NextCsr(i)
      /\ exec \notin {"CsrWrite", "FifoWrite"} /\ exec # "CsrReadLen"
  BY <1>1 DEF begins, taken, NextCsr
<1>3. dcnt' = Words(exec_cmd.len)
  <2>1. dcnt' = CASE begins(i) -> Words(i.cmd.len)
                  [] exec \in {"CsrWrite", "FifoWrite"} /\ i.rack # <<>> ->
                        (dcnt + 65535) % 65536
                  [] exec = "CsrReadLen" -> csr_length
                  [] taken(i) -> (dcnt + 65535) % 65536
                  [] OTHER -> dcnt
    BY <1>1 DEF Executor, Counters
  <2> DEFINE w == exec \in {"CsrWrite", "FifoWrite"} /\ i.rack # <<>>
             l == exec = "CsrReadLen"
  <2>2. ~w /\ ~l
    BY <1>2
  <2>3. dcnt' = CASE begins(i) -> Words(i.cmd.len)
                  [] w -> (dcnt + 65535) % 65536
                  [] l -> csr_length
                  [] taken(i) -> (dcnt + 65535) % 65536
                  [] OTHER -> dcnt
    BY <2>1
  <2> HIDE DEF w, l
  <2>4. dcnt' = Words(i.cmd.len)
    BY <1>2, <2>2, <2>3
  <2> QED
    BY <1>1, <2>4, Zenon
<1>4. csr_sel' = CsrsOf(exec_cmd.cmd)[1] /\ csr_end' = CsrsOf(exec_cmd.cmd)[2]
  <2>1. Select(i)
    BY <1>1 DEF Executor
  <2>2. csr_sel' = CsrsOf(i.cmd.cmd)[1]
    BY <1>2, <2>1, Zenon DEF Select
  <2>3. csr_end' = CASE begins(i) -> CsrsOf(i.cmd.cmd)[2]
                     [] ~begins(i) /\ exec \in {"Idle", "CsrWrite", "CsrReadData"} ->
                           csr_end
                     [] OTHER -> Invalid
    BY <2>1 DEF Select
  <2> QED
    BY <1>1, <1>2, <2>2, <2>3, Zenon
<1>5. rreq' <=> ~exec_cmd.error /\ exec_cmd.len # 0
  BY <1>1 DEF Executor, Request
<1>6. refused(i) <=> \/ exec_cmd.error
                     \/ ~RecoveryMode /\ exec_cmd.cmd > 39
                     \/ exec_cmd.cmd > 47 \/ exec_cmd.cmd < 34
  BY <1>1 DEF refused
<1>7. exec' = IF refused(i) THEN "Error"
              ELSE IF exec_cmd.cmd = FifoData THEN "FifoWrite" ELSE "CsrWrite"
  BY <1>1 DEF Executor, exec_d
<1> QED
  BY <1>3, <1>4, <1>5, <1>6, <1>7, Zenon

\* The queue, when the last word of the payload has left the converter.
LEMMA LastWord ==
    ASSUME WriteCalls, BusTypes, HandlerTypes, Writing, Stored(N), Len(conv.bytes) < 4,
           NEW e, Handler(e), PortIdle, ~rx_req(e), ~rx_clr, ~data_queue_flow, ~conv_flush,
           conv.full <=> N % 4 # 0
    PROVE  /\ conv' = [bytes |-> <<>>, full |-> FALSE] /\ PortIdle'
           /\ Len(rx_queue') = Words(N)
           /\ \A i \in 1 .. Words(N) : rx_queue'[i] = WordOf(xfr.plan, xfr.tag, i - 1)
<1>1. N \in Nat /\ N >= 1 /\ RxDepth \in Nat
  BY CommandFacts, CallFacts
<1>2. /\ Len(conv.bytes) = N % 4 /\ 4 * Len(rx_queue) = N - (N % 4)
      /\ conv.bytes # <<>> <=> N % 4 # 0
  BY <1>1, LastBytes
<1>3. /\ conv \in [bytes : Seq(Byte), full : BOOLEAN] /\ rx_queue \in Seq(Seq(Byte))
      /\ Len(rx_queue) \in Nat
  BY DEF HandlerTypes
<1>4. /\ PortIdle'
      /\ rx_queue' = IF conv.full /\ Len(rx_queue) < RxDepth
                     THEN rx_queue \o <<conv.bytes>> ELSE rx_queue \o <<>>
  BY PortWaits
<1>5. CASE N % 4 = 0
  <2>1. ~conv.full /\ conv.bytes = <<>>
    BY <1>2, <1>5
  <2>2. conv' = conv /\ rx_queue' = rx_queue
    BY <1>3, <1>4, <2>1, ConvWaits
  <2>3. conv = [bytes |-> <<>>, full |-> FALSE]
    BY <1>3, <2>1
  <2>4. Len(rx_queue) = Words(N)
    <3>1. 4 * Words(N) = N /\ Words(N) \in Nat
      BY <1>1, <1>5, WordsCount
    <3>2. 4 * Len(rx_queue) = N
      BY <1>1, <1>2, <1>5
    <3> QED
      BY <1>3, <3>1, <3>2
  <2>5. \A i \in 1 .. Len(rx_queue) : rx_queue[i] = WordOf(xfr.plan, xfr.tag, i - 1)
    BY DEF Stored
  <2> QED
    BY <1>4, <2>2, <2>3, <2>4, <2>5
<1>6. CASE N % 4 # 0
  <2>1. conv.full /\ conv.bytes # <<>>
    BY <1>2, <1>6
  <2> DEFINE s == rx_queue \o <<conv.bytes>>
  <2>2. /\ Len(rx_queue) < RxDepth
        /\ Len(s) = Len(rx_queue) + 1
        /\ \A i \in 1 .. Len(rx_queue) + 1 : s[i] = WordOf(xfr.plan, xfr.tag, i - 1)
    <3>1. PICK pay \in Nat : pay = N
      BY <1>1
    <3>2. Stored(pay) /\ pay <= N
      BY <1>1, <3>1 DEF Stored
    <3> QED
      BY <2>1, <3>1, <3>2, WordMoves
  <2>3. conv' = [bytes |-> <<>>, full |-> FALSE]
    BY <2>1, <2>2, ConvWaits
  <2>4. rx_queue' = s
    BY <1>4, <2>1, <2>2
  <2> HIDE DEF s
  <2>5. Len(rx_queue) + 1 = Words(N)
    <3>1. 4 * (Words(N) - 1) = N - (N % 4) /\ Words(N) \in Nat
      BY <1>1, <1>6, WordsCount
    <3> QED
      BY <1>2, <1>3, <3>1
  <2> QED
    BY <1>4, <2>2, <2>3, <2>4, <2>5
<1> QED
  BY <1>1, <1>5, <1>6

\* The clock in which the executor takes it up.
LEMMA TakenUp ==
    ASSUME WriteCalls, BusTypes, HandlerTypes, BusSide, Selection, Handing, Tick, calm = 3
    PROVE  Executing'
<1>1. PICK e : Clock(e, <<>>) /\ Silent(e) /\ ~e.sw_req
  BY HandingFacts, TickEvent DEF Next
<1>2. /\ Writing /\ ~Between /\ ~Taken /\ ~data_queue_flow /\ ~(AtAck /\ calm = 0)
      /\ virtual_sel /\ recovery_pending
      /\ xfr' = xfr /\ N' = N /\ Fin' /\ calm' = calm + 1
  BY HandingFacts DEF Next
<1>3. Handler(e) /\ ~e.start /\ ~e.stop
  BY <1>1 DEF Clock, Silent
<1>4. /\ xfr.plan \in Plans /\ xfr.plan \in AllPlans /\ xfr.plan.kind = "write"
      /\ xfr.tag \in {1, 2} /\ xfr.plan.cmd \in Nat /\ xfr.plan.good \in BOOLEAN
      /\ N \in Nat /\ N >= 1 /\ N <= 4 * RxDepth /\ xfr.plan.n = N /\ RxDepth \in Nat
      /\ RxDepth >= 1
  BY <1>2, CommandFacts, PlanFacts, CallFacts
<1>5. /\ exec = "Idle" /\ ~rreq /\ PortIdle /\ ~sw_busy /\ ~recv_is_rd
      /\ queue_select
      /\ owed = <<[plan |-> xfr.plan, tag |-> xfr.tag]>>
      /\ Stored(N) /\ Len(conv.bytes) < 4
      /\ recv = "Busy" /\ ~recv_cmd_valid /\ exec_pending
      /\ exec_cmd = [valid |-> TRUE, is_rd |-> FALSE, cmd |-> xfr.plan.cmd,
                     f |-> xfr.tag, len |-> N, error |-> ~xfr.plan.good]
      /\ ~queue_flush
      /\ conv.full <=> N % 4 # 0
  BY DEF Handing
<1>6. /\ exec_cmd.valid /\ ~exec_cmd.is_rd /\ exec_cmd.cmd = xfr.plan.cmd
      /\ exec_cmd.len = N /\ (exec_cmd.error <=> ~xfr.plan.good)
  BY <1>5
<1>7. ~rx_req(e) /\ ~rx_clr /\ ~sw_busy'
  <2>1. ~rx_req(e)
    BY <1>2, <1>5 DEF rx_req
  <2>2. ~rx_clr
    BY <1>5 DEF rx_clr, rx_data_queue_clr
  <2>3. ~sw_busy'
    BY <1>1, <1>5 DEF Clock
  <2> QED
    BY <2>1, <2>2, <2>3
<1>8. owed' = <<>> /\ current' = [plan |-> xfr.plan, tag |-> xfr.tag]
  <2>1. TakesCommand
    BY <1>5, <1>6 DEF TakesCommand
  <2>2. owed' = <<>> \o <<>>
    BY <1>1, <2>1 DEF Clock
  <2>3. current' = owed[1]
    BY <1>1, <1>5, <2>1 DEF Clock
  <2> QED
    BY <1>5, <2>2, <2>3
<1>9. /\ conv' = [bytes |-> <<>>, full |-> FALSE] /\ PortIdle'
      /\ Len(rx_queue') = Words(N)
      /\ \A i \in 1 .. Words(N) : rx_queue'[i] = WordOf(xfr.plan, xfr.tag, i - 1)
  <2>1. ~conv_flush
    BY <1>2, <1>5 DEF conv_flush, to_receiver
  <2> QED
    BY <1>2, <1>3, <1>5, <1>7, <2>1, LastWord
<1>10. /\ dcnt' = Words(N) /\ csr_sel' = CsrsOf(xfr.plan.cmd)[1]
       /\ csr_end' = CsrsOf(xfr.plan.cmd)[2]
       /\ rreq' <=> xfr.plan.good
       /\ exec' = IF ~xfr.plan.good \/ (~RecoveryMode /\ xfr.plan.cmd > 39)
                     \/ xfr.plan.cmd > 47 \/ xfr.plan.cmd < 34 THEN "Error"
                  ELSE IF xfr.plan.cmd = FifoData THEN "FifoWrite" ELSE "CsrWrite"
  <2>1. N # 0
    BY <1>4
  <2> QED
    BY <1>2, <1>3, <1>5, <1>6, <2>1, ExecTakes
<1>11. recv' = "Busy" /\ queue_select' /\ ~queue_flush' /\ ~recv_cmd_valid' /\ ~recv_is_rd'
  <2>1. ~cmd_done
    BY <1>5 DEF cmd_done
  <2>2. recv' = "Busy"
    BY <1>2, <1>3, <1>5, <2>1, RecvWaits
  <2> QED
    BY <1>2, <1>3, <1>5, <2>2, RecvClock
<1>12. virtual_sel' /\ exec_pending' /\ ~exec_cmd'.valid
  <2>1. virtual_sel'
    BY <1>2, <1>3, SelectionClock
  <2>2. exec_pending'
    BY <1>3, <1>5 DEF Handler, ExecPending, cmd_done
  <2>3. ~exec_cmd'.valid
    BY <1>3, <1>5 DEF Handler, Registers
  <2> QED
    BY <2>1, <2>2, <2>3
<1>13. calm' = 4 /\ Fin' /\ Elapsed' = 4
  BY <1>2 DEF Elapsed
<1>14. /\ Words(N) \in Nat /\ Words(N) >= 1 /\ 4 * (Words(N) - 1) < N /\ Words(N) <= RxDepth
  BY <1>4, WordsCount
<1>15. current'.plan = xfr.plan /\ current'.tag = xfr.tag
  BY <1>8
<1>16. CASE xfr.plan.good /\ Allowed(xfr.plan)
  <2>1. /\ exec' = IF xfr.plan.cmd = FifoData THEN "FifoWrite" ELSE "CsrWrite"
        /\ rreq' /\ xfr.plan.cmd >= 34 /\ xfr.plan.cmd <= 47
    BY <1>4, <1>10, <1>16 DEF Allowed
  <2>2. csr_sel' \in CsrsOf(xfr.plan.cmd)[1] .. CsrsOf(xfr.plan.cmd)[2]
    BY <1>4, <1>10, <2>1, CsrsAre
  <2>3. TimeLeft' = 3 * Words(N) + 1
    BY <1>10, <2>1 DEF TimeLeft
  <2>4. TimeLeft' + Elapsed' <= 3 * RxDepth + 5
    BY <1>4, <1>13, <1>14, <2>3
  <2>5. ASSUME NEW i \in 1 .. Words(N)
        PROVE  rx_queue'[i] = WordOf(xfr.plan, xfr.tag, Words(N) - Words(N) + i - 1)
    <3>1. Words(N) - Words(N) + i - 1 = i - 1
      BY <1>14
    <3> QED
      BY <1>9, <3>1
  <2>6. WordsLeft(dcnt)'
    BY <1>4, <1>9, <1>10, <1>15, <2>5 DEF WordsLeft
  <2>7. dcnt' \in 1 .. Words(N)
    BY <1>10, <1>14
  <2>8. Moving'
    BY <1>4, <1>9, <1>10, <1>15, <1>16, <2>1, <2>2, <2>6, <2>7 DEF Moving, Allowed
  <2> QED
    BY <1>4, <1>7, <1>8, <1>9, <1>11, <1>12, <1>13, <1>15, <2>4, <2>8 DEF Executing, Carrying
<1>17. CASE ~(xfr.plan.good /\ Allowed(xfr.plan))
  <2>1. exec' = "Error"
    BY <1>4, <1>10, <1>17 DEF Allowed
  <2>2. TimeLeft' = 2
    BY <2>1, Zenon DEF TimeLeft
  <2>3. TimeLeft' + Elapsed' <= 3 * RxDepth + 5
    BY <1>4, <1>13, <2>2
  <2>4. Foreign'
    <3> DEFINE s == rx_queue'
    <3>1. \A i \in 1 .. Len(s) : \E j \in Nat : 4 * j < xfr.plan.n /\ s[i] = WordOf(xfr.plan, xfr.tag, j)
      <4> TAKE i \in 1 .. Len(s)
      <4>1. i - 1 \in Nat /\ 4 * (i - 1) < xfr.plan.n
        BY <1>4, <1>9, <1>14
      <4>2. s[i] = WordOf(xfr.plan, xfr.tag, i - 1)
        BY <1>9
      <4> QED
        BY <4>1, <4>2
    <3> HIDE DEF s
    <3>2. \A i \in 1 .. Len(s) : s[i] # <<>> /\ s[i][1].v # OwnData
      BY <1>4, <3>1, WordsForeign
    <3> QED
      BY <3>2 DEF Foreign, s
  <2> QED
    BY <1>4, <1>7, <1>8, <1>9, <1>11, <1>12, <1>13, <1>15, <2>1, <2>3, <2>4 DEF Executing, Carrying
<1> QED
  BY <1>16, <1>17

\* From Handing the command comes to the executor.
LEMMA HandingStep ==
    ASSUME WriteCalls, BusTypes, HandlerTypes, BusSide, Selection, Handing, Next
    PROVE  Handing' \/ Executing'
<1>1. calm \in 1 .. 3 /\ Tick
  BY HandingFacts
<1>2. calm < 3 \/ calm = 3
  BY <1>1
<1> QED
  BY <1>1, <1>2, HandsOver, TakenUp

-----------------------------------------------------------------------------
(* A command is carried out. *)

\* The receiver waits for the executor.
LEMMA RecvBusy ==
    ASSUME NEW e, Handler(e), virtual_sel, recv = "Busy", queue_select, ~recv_is_rd
    PROVE  /\ recv' = IF cmd_done THEN "Idle" ELSE "Busy"
           /\ queue_select' /\ ~queue_flush' /\ ~recv_cmd_valid' /\ ~recv_is_rd'
<1>1. recv' = recv_d(recv_in(e)) /\ recv_in(e).done = cmd_done
  BY RecvClock, RecvInputs
<1>2. recv' = IF cmd_done THEN "Idle" ELSE "Busy"
  BY <1>1 DEF recv_d
<1> QED
  BY <1>2, RecvClock

\* The executor, while it writes.
LEMMA ExecWrites ==
    ASSUME NEW e, Handler(e), virtual_sel, exec \in {"CsrWrite", "FifoWrite"}
    PROVE  /\ exec_rack = <<>> => exec' = exec /\ dcnt' = dcnt /\ csr_sel' = csr_sel /\ ~rreq'
           /\ exec_rack # <<>> =>
                 /\ exec' = IF dcnt = 1 THEN "Done" ELSE exec
                 /\ dcnt' = (dcnt + 65535) % 65536
                 /\ rreq' <=> dcnt # 1
                 /\ csr_sel' = IF exec = "CsrWrite" /\ csr_sel < csr_end
                               THEN csr_sel + 1 ELSE csr_sel
           /\ exec = "CsrWrite" => csr_end' = csr_end
<1> DEFINE i == exec_in(e)
<1>1. Executor(i) /\ i.rack = exec_rack /\ i.on = virtual_sel
  BY DEF Handler, exec_in
<1> HIDE DEF i
<1>2. /\ ~begins(i) /\ ~taken(i) /\ (NextCsr(i) <=> exec = "CsrWrite" /\ exec_rack # <<>>)
      /\ exec # "CsrReadLen" /\ exec # "Idle"
  BY <1>1 DEF begins, taken, NextCsr
<1>3. exec' = IF exec_rack # <<>> /\ dcnt = 1 THEN "Done" ELSE exec
  BY <1>1 DEF Executor, exec_d
<1>4. dcnt' = IF exec_rack # <<>> THEN (dcnt + 65535) % 65536 ELSE dcnt
  <2> DEFINE w == exec \in {"CsrWrite", "FifoWrite"} /\ i.rack # <<>>
             l == exec = "CsrReadLen"
  <2>1. dcnt' = CASE begins(i) -> Words(i.cmd.len)
                  [] w -> (dcnt + 65535) % 65536
                  [] l -> csr_length
                  [] taken(i) -> (dcnt + 65535) % 65536
                  [] OTHER -> dcnt
    BY <1>1 DEF Executor, Counters
  <2>2. ~l /\ (w <=> exec_rack # <<>>)
    BY <1>1, <1>2
  <2> HIDE DEF w, l
  <2> QED
    BY <1>2, <2>1, <2>2
<1>5. Select(i)
  BY <1>1 DEF Executor
<1>6. csr_sel' = IF exec = "CsrWrite" /\ exec_rack # <<>> /\ csr_sel < csr_end
                 THEN csr_sel + 1 ELSE csr_sel
  <2> DEFINE n == NextCsr(i) /\ csr_sel < csr_end
  <2>1. csr_sel' = CASE begins(i) -> CsrsOf(i.cmd.cmd)[1]
                     [] n -> csr_sel + 1
                     [] OTHER -> csr_sel
    BY <1>5 DEF Select
  <2>2. n <=> exec = "CsrWrite" /\ exec_rack # <<>> /\ csr_sel < csr_end
    BY <1>2
  <2> HIDE DEF n
  <2> QED
    BY <1>2, <2>1, <2>2
<1>7. exec = "CsrWrite" => csr_end' = csr_end
  BY <1>2, <1>5 DEF Select
<1>8. rreq' <=> exec_rack # <<>> /\ dcnt # 1
  BY <1>1, <1>2 DEF Executor, Request
<1> QED
  BY <1>3, <1>4, <1>6, <1>7, <1>8

\* A refused or finished command ends.
LEMMA ExecEnds ==
    ASSUME NEW e, Handler(e), virtual_sel, exec \in {"Error", "Done"}
    PROVE  exec' = (IF exec = "Error" THEN "Done" ELSE "Idle") /\ ~rreq'
<1> DEFINE i == exec_in(e)
<1>1. Executor(i) /\ i.on = virtual_sel
  BY DEF Handler, exec_in
<1> HIDE DEF i
<1> QED
  BY <1>1 DEF Executor, exec_d, Request

\* The read port, while the converter is empty.
LEMMA PortClock ==
    ASSUME HandlerTypes, NEW e, Handler(e), ~conv.full
    PROVE  /\ rx_clr => rx_queue' = <<>> /\ PortIdle'
           /\ ~rx_clr /\ ~port.rready =>
                 /\ rx_queue' = rx_queue
                 /\ rx_req(e) => port' = [rready |-> TRUE, ack |-> <<>>]
                 /\ ~rx_req(e) => PortIdle'
           /\ ~rx_clr /\ port.rready /\ rx_queue # <<>> =>
                 /\ rx_queue' = Tail(rx_queue)
                 /\ port' = [rready |-> FALSE, ack |-> <<Head(rx_queue)>>]
<1>1. RxDataQueue(e)
  BY DEF Handler
<1>2. rx_queue \in Seq(Seq(Byte))
  BY DEF HandlerTypes
<1>3. ASSUME rx_clr PROVE rx_queue' = <<>> /\ PortIdle'
  BY <1>1, <1>3 DEF RxDataQueue, FifoStep, PortIdle
<1>4. ASSUME ~rx_clr, ~port.rready
      PROVE  /\ rx_queue' = rx_queue
             /\ rx_req(e) => port' = [rready |-> TRUE, ack |-> <<>>]
             /\ ~rx_req(e) => PortIdle'
  <2>1. rx_queue' = rx_queue \o <<>>
    BY <1>1, <1>4 DEF RxDataQueue, FifoStep
  <2>2. port' = [rready |-> port.rready \/ rx_req(e), ack |-> <<>>]
    BY <1>1, <1>4 DEF RxDataQueue
  <2>3. /\ rx_req(e) => port' = [rready |-> TRUE, ack |-> <<>>]
        /\ ~rx_req(e) => PortIdle'
    BY <1>4, <2>2 DEF PortIdle
  <2> QED
    BY <1>2, <2>1, <2>2, <2>3
<1>5. ASSUME ~rx_clr, port.rready, rx_queue # <<>>
      PROVE  /\ rx_queue' = Tail(rx_queue)
             /\ port' = [rready |-> FALSE, ack |-> <<Head(rx_queue)>>]
  <2>1. rx_queue' = Tail(rx_queue) \o <<>>
    BY <1>1, <1>5 DEF RxDataQueue, FifoStep, RValid
  <2>2. Tail(rx_queue) \in Seq(Seq(Byte))
    BY <1>2, <1>5
  <2>3. port' = [rready |-> FALSE, ack |-> <<Head(rx_queue)>>]
    BY <1>1, <1>5 DEF RxDataQueue, RValid
  <2> QED
    BY <2>1, <2>2, <2>3
<1> QED
  BY <1>3, <1>4, <1>5

\* What does not depend on how far the executor has come.
LEMMA CarryFrame ==
    ASSUME WriteCalls, BusTypes, HandlerTypes, BusSide, Carrying,
           NEW e, Clock(e, <<>>), ~e.sw_req, ~rx_valid, ~(AtAck /\ calm = 0)
    PROVE  /\ Handler(e) /\ virtual_sel' /\ queue_select' /\ ~queue_flush'
           /\ ~recv_cmd_valid' /\ ~recv_is_rd' /\ ~exec_cmd'.valid /\ owed' = <<>>
           /\ ~sw_busy' /\ conv' = [bytes |-> <<>>, full |-> FALSE]
           /\ current' = current
           /\ ~conv.full /\ (rx_clr <=> exec = "Error") /\ rx_req(e) = rreq
           /\ exec_rack = port.ack
           /\ exec_pending' <=> exec # "Done"
           /\ recv' = IF exec = "Done" THEN "Idle" ELSE "Busy"
<1>1. /\ virtual_sel /\ exec_pending /\ recv = "Busy" /\ queue_select /\ ~queue_flush
      /\ ~recv_cmd_valid /\ ~recv_is_rd /\ ~exec_cmd.valid /\ owed = <<>> /\ ~sw_busy
      /\ conv = [bytes |-> <<>>, full |-> FALSE]
  BY DEF Carrying
<1>2. Handler(e)
  BY DEF Clock
<1>3. recovery_pending /\ to_receiver /\ ~conv_flush /\ ~data_queue_flow /\ ~conv.full
  BY <1>1 DEF recovery_pending, to_receiver, conv_flush, data_queue_flow,
              data_queue_wvalid
<1>4. ~sw_busy' /\ rx_req(e) = rreq /\ exec_rack = port.ack
  BY <1>1, <1>3, PendingClock
<1>5. virtual_sel'
  BY <1>1, <1>2, SelectionClock
<1>6. /\ recv' = IF exec = "Done" THEN "Idle" ELSE "Busy"
      /\ queue_select' /\ ~queue_flush' /\ ~recv_cmd_valid' /\ ~recv_is_rd'
  BY <1>1, <1>2, RecvBusy DEF cmd_done
<1>7. ~exec_cmd'.valid
  BY <1>1, <1>2 DEF Handler, Registers
<1>8. exec_pending' <=> exec # "Done"
  BY <1>1, <1>2 DEF Handler, ExecPending, cmd_done
<1>9. owed' = <<>> /\ current' = current
  <2>1. ~TakesCommand
    BY <1>1 DEF TakesCommand
  <2>2. owed' = owed \o <<>> /\ current' = current
    BY <2>1 DEF Clock
  <2> QED
    BY <1>1, <2>2
<1>10. conv' = conv
  BY <1>2, <1>3, ConvWaits
<1>11. rx_clr <=> exec = "Error"
  BY <1>3 DEF rx_clr, rx_data_queue_clr
<1> QED
  BY <1>1, <1>2, <1>3, <1>4, <1>5, <1>6, <1>7, <1>8, <1>9, <1>10, <1>11

\* The words of the command that the executor carries out.
LEMMA MovingFacts ==
    ASSUME WriteCalls, Carrying, Moving
    PROVE  /\ exec \in {"CsrWrite", "FifoWrite"}
           /\ current.plan.n \in Nat /\ current.plan.n >= 1 /\ current.plan.cmd \in Nat
           /\ current.plan \in AllPlans /\ current.plan.n <= 4 * RxDepth
           /\ Words(current.plan.n) \in Nat /\ Words(current.plan.n) <= RxDepth
           /\ Words(current.plan.n) < 65536
           /\ dcnt \in 1 .. Words(current.plan.n) /\ dcnt \in Nat
           /\ current.plan.cmd >= 34 /\ current.plan.cmd <= 47
<1>1. current.plan \in Plans /\ current.plan.kind = "write"
  BY DEF Carrying
<1>2. current.plan \in AllPlans
  BY <1>1 DEF AllPlans
<1>3. /\ current.plan.n \in Nat /\ current.plan.n >= 1 /\ current.plan.cmd \in Nat
      /\ current.plan.n <= 4 * RxDepth
  BY <1>1, <1>2, PlanFacts
<1>4. RxDepth \in Nat /\ 4 * RxDepth < 65536
  BY CallFacts
<1>5. Words(current.plan.n) \in Nat /\ Words(current.plan.n) <= RxDepth
  BY <1>3, <1>4, WordsCount
<1>6. /\ exec \in {"CsrWrite", "FifoWrite"} /\ dcnt \in 1 .. Words(current.plan.n)
      /\ Allowed(current.plan)
  BY DEF Moving
<1>7. current.plan.cmd >= 34 /\ current.plan.cmd <= 47
  BY <1>3, <1>6 DEF Allowed
<1> QED
  BY <1>2, <1>3, <1>4, <1>5, <1>6, <1>7

\* The executor asks for the next word.
LEMMA MoveAsks ==
    ASSUME WriteCalls, BusTypes, HandlerTypes, BusSide, Carrying, Moving,
           rreq, PortIdle, WordsLeft(dcnt),
           NEW e, Clock(e, <<>>), ~e.sw_req, ~rx_valid, ~(AtAck /\ calm = 0)
    PROVE  Moving' /\ TimeLeft' \in Int /\ TimeLeft' <= TimeLeft - 1
<1>1. /\ exec \in {"CsrWrite", "FifoWrite"} /\ dcnt \in Nat /\ virtual_sel
      /\ dcnt \in 1 .. Words(current.plan.n)
  BY MovingFacts DEF Carrying
<1>2. /\ Handler(e) /\ ~conv.full /\ ~rx_clr /\ rx_req(e) /\ exec_rack = <<>>
      /\ current' = current
  <2>1. exec_rack = port.ack /\ rx_req(e) = rreq /\ (rx_clr <=> exec = "Error")
    BY CarryFrame
  <2>2. port.ack = <<>>
    BY DEF PortIdle
  <2> QED
    BY <1>1, <2>1, <2>2, CarryFrame
<1>3. exec' = exec /\ dcnt' = dcnt /\ csr_sel' = csr_sel /\ ~rreq'
      /\ (exec = "CsrWrite" => csr_end' = csr_end)
  BY <1>1, <1>2, ExecWrites
<1>4. rx_queue' = rx_queue /\ port' = [rready |-> TRUE, ack |-> <<>>]
  <2>1. ~port.rready
    BY DEF PortIdle
  <2> QED
    BY <1>2, <2>1, PortClock
<1>5. TimeLeft = 3 * dcnt + 1 /\ TimeLeft' = 3 * dcnt
  <2>1. TimeLeft = 3 * dcnt + 1
    BY <1>1, Zenon DEF TimeLeft
  <2>2. /\ exec' # "Error" /\ exec' # "Done" /\ exec' \in {"CsrWrite", "FifoWrite"}
        /\ port'.rready /\ ~rreq' /\ dcnt' = dcnt
    BY <1>1, <1>3, <1>4
  <2>3. TimeLeft' = 3 * dcnt
    BY <2>2, Zenon DEF TimeLeft
  <2> QED
    BY <2>1, <2>3
<1>6. WordsLeft(dcnt)'
  <2>1. Len(rx_queue) = dcnt
        /\ \A i \in 1 .. dcnt :
              rx_queue[i] = WordOf(current.plan, current.tag,
                                   Words(current.plan.n) - dcnt + i - 1)
    BY DEF WordsLeft
  <2> QED
    BY <1>2, <1>3, <1>4, <2>1 DEF WordsLeft
<1>7. Moving'
  BY <1>1, <1>2, <1>3, <1>4, <1>6 DEF Moving, Allowed
<1> QED
  BY <1>1, <1>5, <1>7

\* The queue answers.
LEMMA MoveAnswers ==
    ASSUME WriteCalls, BusTypes, HandlerTypes, BusSide, Carrying, Moving,
           ~rreq, port = [rready |-> TRUE, ack |-> <<>>], WordsLeft(dcnt),
           NEW e, Clock(e, <<>>), ~e.sw_req, ~rx_valid, ~(AtAck /\ calm = 0)
    PROVE  Moving' /\ TimeLeft' \in Int /\ TimeLeft' <= TimeLeft - 1
<1>1. /\ exec \in {"CsrWrite", "FifoWrite"} /\ dcnt \in Nat /\ virtual_sel
      /\ dcnt \in 1 .. Words(current.plan.n) /\ Words(current.plan.n) \in Nat
  BY MovingFacts DEF Carrying
<1>2. /\ Handler(e) /\ ~conv.full /\ ~rx_clr /\ exec_rack = <<>> /\ current' = current
  <2>1. exec_rack = port.ack /\ (rx_clr <=> exec = "Error")
    BY CarryFrame
  <2> QED
    BY <1>1, <2>1, CarryFrame
<1>3. exec' = exec /\ dcnt' = dcnt /\ csr_sel' = csr_sel /\ ~rreq'
      /\ (exec = "CsrWrite" => csr_end' = csr_end)
  BY <1>1, <1>2, ExecWrites
<1>4. /\ Len(rx_queue) = dcnt
      /\ \A i \in 1 .. dcnt :
            rx_queue[i] = WordOf(current.plan, current.tag,
                                 Words(current.plan.n) - dcnt + i - 1)
  BY DEF WordsLeft
<1>5. rx_queue \in Seq(Seq(Byte)) /\ rx_queue # <<>>
  BY <1>1, <1>4 DEF HandlerTypes
<1>6. rx_queue' = Tail(rx_queue) /\ port' = [rready |-> FALSE, ack |-> <<Head(rx_queue)>>]
  BY <1>2, <1>5, PortClock
<1>7. TimeLeft = 3 * dcnt /\ TimeLeft' = 3 * dcnt - 1
  <2>1. TimeLeft = 3 * dcnt
    BY <1>1, Zenon DEF TimeLeft
  <2>2. /\ exec' # "Error" /\ exec' # "Done"
        /\ ~port'.rready /\ ~rreq' /\ dcnt' = dcnt
    BY <1>1, <1>3, <1>6
  <2>3. TimeLeft' = 3 * dcnt - 1
    BY <2>2, Zenon DEF TimeLeft
  <2> QED
    BY <2>1, <2>3
<1> DEFINE w == Words(current.plan.n)
           W(i) == WordOf(current.plan, current.tag, i)
<1> HIDE DEF W
<1>8. Head(rx_queue) = W(w - dcnt)
  <2>1. rx_queue[1] = W(w - dcnt + 1 - 1)
    BY <1>1, <1>4 DEF W
  <2>2. w - dcnt + 1 - 1 = w - dcnt
    BY <1>1
  <2> QED
    BY <1>5, <2>1, <2>2
<1>9. /\ Len(Tail(rx_queue)) = dcnt - 1
      /\ \A i \in 1 .. dcnt - 1 : Tail(rx_queue)[i] = W(w - (dcnt - 1) + i - 1)
  <2>1. /\ Len(Tail(rx_queue)) = dcnt - 1
        /\ \A i \in 1 .. dcnt - 1 : Tail(rx_queue)[i] = rx_queue[i + 1]
    BY <1>4, <1>5
  <2>2. ASSUME NEW i \in 1 .. dcnt - 1
        PROVE  Tail(rx_queue)[i] = W(w - (dcnt - 1) + i - 1)
    <3>1. i + 1 \in 1 .. dcnt /\ w - dcnt + (i + 1) - 1 = w - (dcnt - 1) + i - 1
      BY <1>1
    <3>2. rx_queue[i + 1] = W(w - dcnt + (i + 1) - 1)
      BY <1>4, <3>1, Zenon DEF W
    <3> QED
      BY <2>1, <3>1, <3>2
  <2> QED
    BY <2>1, <2>2
<1>10. WordsLeft(dcnt - 1)'
  BY <1>2, <1>3, <1>6, <1>9 DEF WordsLeft, W
<1>11. port' = [rready |-> FALSE,
                ack |-> <<WordOf(current'.plan, current'.tag,
                                 Words(current'.plan.n) - dcnt')>>]
  BY <1>2, <1>3, <1>6, <1>8 DEF W
<1>12. Moving'
  BY <1>1, <1>2, <1>3, <1>10, <1>11 DEF Moving, Allowed
<1> QED
  BY <1>1, <1>7, <1>12

\* The executor stores the word.
LEMMA MoveStores ==
    ASSUME WriteCalls, BusTypes, HandlerTypes, BusSide, Carrying, Moving,
           ~rreq, WordsLeft(dcnt - 1), ~port.rready, port.ack # <<>>,
           NEW e, Clock(e, <<>>), ~e.sw_req, ~rx_valid, ~(AtAck /\ calm = 0)
    PROVE  /\ \/ Moving'
              \/ exec' = "Done" /\ ~rreq' /\ PortIdle' /\ rx_queue' = <<>>
           /\ TimeLeft' \in Int /\ TimeLeft' <= TimeLeft - 1
<1>1. /\ exec \in {"CsrWrite", "FifoWrite"} /\ dcnt \in Nat /\ virtual_sel
      /\ dcnt \in 1 .. Words(current.plan.n) /\ Words(current.plan.n) \in Nat
      /\ Words(current.plan.n) < 65536
      /\ current.plan.cmd \in Nat /\ current.plan.cmd >= 34 /\ current.plan.cmd <= 47
  BY MovingFacts DEF Carrying
<1>2. /\ Handler(e) /\ ~conv.full /\ ~rx_clr /\ exec_rack # <<>> /\ current' = current
      /\ ~rx_req(e)
  <2>1. exec_rack = port.ack /\ rx_req(e) = rreq /\ (rx_clr <=> exec = "Error")
    BY CarryFrame
  <2> QED
    BY <1>1, <2>1, CarryFrame
<1>3. (dcnt + 65535) % 65536 = dcnt - 1
  BY <1>1, CountStaysSmall
<1>4. /\ exec' = IF dcnt = 1 THEN "Done" ELSE exec
      /\ dcnt' = dcnt - 1
      /\ rreq' <=> dcnt # 1
      /\ csr_sel' = IF exec = "CsrWrite" /\ csr_sel < csr_end THEN csr_sel + 1 ELSE csr_sel
      /\ exec = "CsrWrite" => csr_end' = csr_end
  BY <1>1, <1>2, <1>3, ExecWrites
<1>5. rx_queue' = rx_queue /\ PortIdle'
  BY <1>2, PortClock
<1>6. /\ Len(rx_queue) = dcnt - 1
      /\ \A i \in 1 .. dcnt - 1 :
            rx_queue[i] = WordOf(current.plan, current.tag,
                                 Words(current.plan.n) - (dcnt - 1) + i - 1)
  BY DEF WordsLeft
<1>7. TimeLeft = 3 * dcnt - 1
  <2>1. exec # "Error" /\ exec # "Done"
    BY <1>1
  <2> QED
    BY <2>1, Zenon DEF TimeLeft
<1>8. CASE dcnt = 1
  <2>1. exec' = "Done" /\ ~rreq'
    BY <1>4, <1>8
  <2>2. rx_queue' = <<>>
    <3>1. rx_queue \in Seq(Seq(Byte)) /\ Len(rx_queue) = 0
      BY <1>6, <1>8 DEF HandlerTypes
    <3> QED
      BY <1>5, <3>1
  <2>3. TimeLeft' = 1
    BY <2>1, Zenon DEF TimeLeft
  <2> QED
    BY <1>5, <1>7, <1>8, <2>1, <2>2, <2>3
<1>9. CASE dcnt # 1
  <2>1. exec' = exec /\ rreq'
    BY <1>4, <1>9
  <2>2. dcnt' \in 1 .. Words(current.plan.n)
    BY <1>1, <1>4, <1>9
  <2>3. TimeLeft' = 3 * dcnt' + 1
    <3>1. exec' \in {"CsrWrite", "FifoWrite"} /\ exec' # "Error" /\ exec' # "Done"
      BY <1>1, <2>1
    <3> QED
      BY <2>1, <3>1, Zenon DEF TimeLeft
  <2>4. WordsLeft(dcnt)'
    BY <1>2, <1>4, <1>5, <1>6 DEF WordsLeft
  <2>5. csr_sel' \in CsrsOf(current.plan.cmd)[1] .. CsrsOf(current.plan.cmd)[2]
    <3>1. /\ csr_sel \in CsrsOf(current.plan.cmd)[1] .. CsrsOf(current.plan.cmd)[2]
          /\ exec = "CsrWrite" => csr_end = CsrsOf(current.plan.cmd)[2]
      BY DEF Moving
    <3>2. CsrsOf(current.plan.cmd)[1] \in Nat /\ CsrsOf(current.plan.cmd)[2] \in Nat
      BY <1>1, CsrsAre
    <3> QED
      BY <1>4, <3>1, <3>2
  <2>6. exec' = "CsrWrite" => csr_end' = CsrsOf(current.plan.cmd)[2]
    BY <1>4, <2>1 DEF Moving
  <2>7. /\ current.plan.good /\ Allowed(current.plan)
        /\ exec = IF current.plan.cmd = FifoData THEN "FifoWrite" ELSE "CsrWrite"
    BY DEF Moving
  <2>8. Moving'
    BY <1>2, <1>5, <2>1, <2>2, <2>4, <2>5, <2>6, <2>7 DEF Moving, Allowed
  <2> QED
    BY <1>1, <1>4, <1>7, <2>3, <2>8
<1> QED
  BY <1>8, <1>9

\* TimeLeft by the cases of the execution.
LEMMA CarryTimes ==
    ASSUME WriteCalls, Carrying
    PROVE  /\ TimeLeft \in Nat /\ TimeLeft >= 1
           /\ exec \in {"Error", "Done", "CsrWrite", "FifoWrite"}
           /\ exec = "Error" => TimeLeft = 2
           /\ exec = "Done" => TimeLeft = 1
<1>1. exec = "Error" \/ exec = "Done" \/ Moving
  BY DEF Carrying
<1>2. CASE exec = "Error" \/ exec = "Done"
  <2>1. exec = "Error" => TimeLeft = 2
    BY Zenon DEF TimeLeft
  <2>2. exec = "Done" => TimeLeft = 1
    BY Zenon DEF TimeLeft
  <2> QED
    BY <1>2, <2>1, <2>2
<1>3. CASE Moving
  <2>1. exec \in {"CsrWrite", "FifoWrite"} /\ dcnt \in Nat /\ dcnt >= 1
    BY <1>3, MovingFacts
  <2>2. exec # "Error" /\ exec # "Done"
    BY <2>1
  <2>3. TimeLeft \in {3 * dcnt + 1, 3 * dcnt, 3 * dcnt - 1}
    <3> DEFINE a == exec \in {"CsrWrite", "FifoWrite"} /\ rreq
               b == exec \in {"CsrWrite", "FifoWrite"} /\ ~rreq /\ port.rready
    <3>1. TimeLeft = CASE exec = "Error" -> 2
              [] exec = "Done" -> 1
              [] a -> 3 * dcnt + 1
              [] b -> 3 * dcnt
              [] OTHER -> 3 * dcnt - 1
      BY DEF TimeLeft
    <3>2. ~(a /\ b)
      OBVIOUS
    <3> HIDE DEF a, b
    <3> QED
      BY <2>2, <3>1, <3>2
  <2> QED
    BY <2>1, <2>2, <2>3
<1> QED
  BY <1>1, <1>2, <1>3

\* Software does not read the payload.
LEMMA CarryForeign ==
    ASSUME WriteCalls, HandlerTypes, Carrying
    PROVE  ~MayRead
<1>1. CASE exec = "Error" /\ PortIdle /\ Foreign
  BY <1>1, ForeignNotRead
<1>2. CASE rx_queue = <<>>
  BY <1>2 DEF MayRead
<1>3. CASE Moving
  <2> DEFINE p == current.plan
             w == Words(p.n)
  <2>1. /\ p.n \in Nat /\ p \in AllPlans /\ w \in Nat /\ dcnt \in 1 .. w
        /\ 4 * (w - 1) < p.n
    <3>1. p.n \in Nat /\ p.n >= 1 /\ p \in AllPlans /\ w \in Nat /\ dcnt \in 1 .. w
      BY <1>3, MovingFacts
    <3>2. PICK n \in Nat : n = p.n
      BY <3>1
    <3>3. 4 * (Words(n) - 1) < n
      BY <3>1, <3>2, WordsCount
    <3> QED
      BY <3>1, <3>2, <3>3
  <2>2. p.kind = "write" /\ current.tag \in {1, 2}
    BY DEF Carrying
  <2>3. \E q \in Nat : q <= w /\ WordsLeft(q)
    <3>1. WordsLeft(dcnt) \/ WordsLeft(dcnt - 1)
      BY <1>3 DEF Moving
    <3> QED
      BY <2>1, <3>1
  <2>4. PICK q \in Nat : q <= w /\ WordsLeft(q)
    BY <2>3
  <2>5. \A i \in 1 .. Len(rx_queue) :
           \E j \in Nat : 4 * j < p.n /\ rx_queue[i] = WordOf(p, current.tag, j)
    <3> SUFFICES ASSUME NEW i \in 1 .. Len(rx_queue)
                 PROVE  \E j \in Nat : 4 * j < p.n /\ rx_queue[i] = WordOf(p, current.tag, j)
      OBVIOUS
    <3>1. Len(rx_queue) = q /\ rx_queue[i] = WordOf(p, current.tag, w - q + i - 1)
      BY <2>4 DEF WordsLeft
    <3>2. w - q + i - 1 \in Nat /\ w - q + i - 1 <= w - 1
      BY <2>1, <2>4, <3>1
    <3>3. 4 * (w - q + i - 1) < p.n
      BY <2>1, <2>4, <3>1, <3>2
    <3> QED
      BY <3>1, <3>2, <3>3
  <2>6. \A i \in 1 .. Len(rx_queue) : rx_queue[i] # <<>> /\ rx_queue[i][1].v # OwnData
    <3> HIDE DEF p
    <3> QED
      BY <2>1, <2>2, <2>5, WordsForeign
  <2>7. Foreign
    BY <2>6 DEF Foreign
  <2> QED
    BY <2>7, ForeignNotRead
<1> QED
  BY <1>1, <1>2, <1>3 DEF Carrying

\* A clock of the execution.
LEMMA CarryMoves ==
    ASSUME WriteCalls, BusTypes, HandlerTypes, BusSide, Carrying, exec # "Done",
           NEW e, Clock(e, <<>>), ~e.sw_req, ~rx_valid, ~(AtAck /\ calm = 0)
    PROVE  Carrying' /\ TimeLeft' \in Int /\ TimeLeft' <= TimeLeft - 1
<1>1. /\ Handler(e) /\ virtual_sel' /\ queue_select' /\ ~queue_flush'
      /\ ~recv_cmd_valid' /\ ~recv_is_rd' /\ ~exec_cmd'.valid /\ owed' = <<>>
      /\ ~sw_busy' /\ conv' = [bytes |-> <<>>, full |-> FALSE]
      /\ current' = current /\ exec_pending' /\ recv' = "Busy"
      /\ ~conv.full /\ (rx_clr <=> exec = "Error")
  BY CarryFrame
<1>2. current.plan \in Plans /\ current.plan.kind = "write" /\ current.tag \in {1, 2}
  BY DEF Carrying
<1>3. ASSUME \/ exec' = "Done" /\ ~rreq' /\ PortIdle' /\ rx_queue' = <<>>
             \/ Moving'
      PROVE  Carrying'
  BY <1>1, <1>2, <1>3 DEF Carrying
<1>4. CASE exec = "Error"
  <2>1. exec' = "Done" /\ ~rreq'
    <3>1. virtual_sel
      BY DEF Carrying
    <3> QED
      BY <1>1, <1>4, <3>1, ExecEnds
  <2>2. rx_queue' = <<>> /\ PortIdle'
    BY <1>1, <1>4, PortClock
  <2>3. TimeLeft = 2 /\ TimeLeft' = 1
    <3>1. TimeLeft' = 1
      BY <2>1, Zenon DEF TimeLeft
    <3> QED
      BY <1>4, <3>1, CarryTimes
  <2> QED
    BY <1>3, <2>1, <2>2, <2>3
<1>5. CASE Moving
  <2>1. CASE rreq /\ PortIdle /\ WordsLeft(dcnt)
    <3>1. Moving' /\ TimeLeft' \in Int /\ TimeLeft' <= TimeLeft - 1
      BY <1>5, <2>1, MoveAsks
    <3> QED
      BY <1>3, <3>1
  <2>2. CASE ~rreq /\ port = [rready |-> TRUE, ack |-> <<>>] /\ WordsLeft(dcnt)
    <3>1. Moving' /\ TimeLeft' \in Int /\ TimeLeft' <= TimeLeft - 1
      BY <1>5, <2>2, MoveAnswers
    <3> QED
      BY <1>3, <3>1
  <2>3. CASE /\ ~rreq /\ WordsLeft(dcnt - 1) /\ ~port.rready /\ port.ack # <<>>
    <3>1. /\ \/ Moving'
             \/ exec' = "Done" /\ ~rreq' /\ PortIdle' /\ rx_queue' = <<>>
          /\ TimeLeft' \in Int /\ TimeLeft' <= TimeLeft - 1
      BY <1>5, <2>3, MoveStores
    <3> QED
      BY <1>3, <3>1
  <2>5. ASSUME NEW x, port = [rready |-> FALSE, ack |-> <<x>>]
        PROVE  ~port.rready /\ port.ack # <<>>
    BY <2>5
  <2>4. \/ rreq /\ PortIdle /\ WordsLeft(dcnt)
        \/ ~rreq /\ port = [rready |-> TRUE, ack |-> <<>>] /\ WordsLeft(dcnt)
        \/ ~rreq /\ WordsLeft(dcnt - 1) /\ ~port.rready /\ port.ack # <<>>
    <3>1. \/ rreq /\ PortIdle /\ WordsLeft(dcnt)
          \/ ~rreq /\ port = [rready |-> TRUE, ack |-> <<>>] /\ WordsLeft(dcnt)
          \/ /\ ~rreq /\ WordsLeft(dcnt - 1)
             /\ \E x : port = [rready |-> FALSE, ack |-> <<x>>]
      BY <1>5, Zenon DEF Moving
    <3> QED
      BY <2>5, <3>1
  <2> QED
    BY <2>1, <2>2, <2>3, <2>4
<1> QED
  BY <1>4, <1>5 DEF Carrying

\* The execution ends.
LEMMA CarryEnds ==
    ASSUME WriteCalls, BusTypes, HandlerTypes, BusSide, Carrying, exec = "Done",
           NEW e, Clock(e, <<>>), ~e.sw_req, ~rx_valid, ~(AtAck /\ calm = 0)
    PROVE  /\ ExecIdle' /\ recv' = "Idle" /\ Empty' /\ PortIdle' /\ queue_select'
           /\ owed' = <<>>
<1>1. /\ Handler(e) /\ queue_select'
      /\ ~recv_cmd_valid' /\ ~recv_is_rd' /\ ~exec_cmd'.valid /\ owed' = <<>>
      /\ ~sw_busy' /\ conv' = [bytes |-> <<>>, full |-> FALSE]
      /\ ~exec_pending' /\ recv' = "Idle"
      /\ ~conv.full /\ ~rx_clr /\ rx_req(e) = rreq
  BY CarryFrame
<1>2. ~rreq /\ PortIdle /\ rx_queue = <<>> /\ virtual_sel
  BY DEF Carrying, Moving
<1>3. exec' = "Idle" /\ ~rreq'
  BY <1>1, <1>2, ExecEnds
<1>4. rx_queue' = <<>> /\ PortIdle'
  <2>1. ~port.rready
    BY <1>2 DEF PortIdle
  <2> QED
    BY <1>1, <1>2, <2>1, PortClock
<1> QED
  BY <1>1, <1>3, <1>4 DEF ExecIdle, Empty

\* Nothing is stored: the handler rests.
LEMMA EmptyRests ==
    ASSUME WriteCalls,
           Writing' => Between' \/ (AtAck' /\ calm' = 0) \/ (Fin' /\ calm' > 4),
           recv' \in {"Idle", "RxCmd"}, queue_select', ExecIdle', owed' = <<>>,
           PortIdle', Empty', InOwn' => Got' = 0
    PROVE  Resting'
<1>1. ~sw_busy' /\ rx_queue' = <<>> /\ conv' = [bytes |-> <<>>, full |-> FALSE]
  BY DEF Empty
<1>2. conv'.bytes = <<>> /\ ~conv'.full /\ Len(rx_queue') = 0 /\ Len(conv'.bytes) = 0
  BY <1>1
<1>3. RxDepth \in Nat /\ RxDepth >= 1
  BY CallFacts
<1>4. Pend' = 0
  BY <1>2 DEF Pend
<1>5. OwnWord4(conv.bytes)'
  BY <1>2 DEF OwnWord4
<1> QED
  BY <1>1, <1>2, <1>3, <1>4, <1>5 DEF Resting, OwnStored

\* An execution is done before the next header is through.
LEMMA ExecutingFacts ==
    ASSUME WriteCalls, BusTypes, HandlerTypes, BusSide, Executing
    PROVE  /\ ~rx_valid /\ ~(AtAck /\ calm = 0) /\ ~MayRead /\ ~ByteEnd /\ ~BitEnd
           /\ calm \in Nat /\ Elapsed \in Nat
           /\ phase = "Quiet" => Elapsed = ShortGap + calm
           /\ MayEnd => Fin /\ Elapsed = calm
<1>1. /\ Carrying
      /\ (Fin /\ calm >= 4) \/ Between
      /\ TimeLeft + Elapsed <= 3 * RxDepth + 5
  BY DEF Executing
<1>2. /\ ShortGap \in Nat /\ ShortGap >= 5 /\ LongGap \in Nat /\ LongGap >= ShortGap
      /\ RxDepth \in Nat /\ ShortGap + LongGap >= 3 * RxDepth + 5
  BY CallFacts
<1>3. /\ calm \in Nat /\ xfr.k \in Nat /\ N \in Nat /\ phase \in {"Quiet", "Byte", "Bit"}
  BY PlaceFacts
<1>4. TimeLeft \in Nat /\ TimeLeft >= 1
  BY <1>1, CarryTimes
<1>5. Fin => Writing /\ phase = "Byte" /\ xfr.k = N + 5
  BY DEF Fin
<1>6. /\ Elapsed \in Nat /\ (Fin => Elapsed = calm) /\ (~Fin => Elapsed = ShortGap + calm)
  BY <1>2, <1>3 DEF Elapsed
<1>7. ~rx_valid
  <2>1. rx_valid => phase = "Byte" /\ xfr.k > 1 /\ calm = 0
    BY DEF BusSide
  <2> QED
    BY <1>1, <1>3, <2>1 DEF Between
<1>8. ~AtAck /\ phase # "Bit"
  <2>1. phase = "Bit" => xfr.k > 0
    BY DEF BusSide
  <2> QED
    BY <1>1, <1>3, <1>5, <2>1 DEF Between, AtAck
<1>9. ~BitEnd
  <2>1. ASSUME BitEnd PROVE phase = "Bit"
    BY <2>1, BitEndMoves
  <2> QED
    BY <1>8, <2>1
<1>10. ~ByteEnd
  <2> SUFFICES ASSUME ByteEnd PROVE FALSE
    OBVIOUS
  <2>1. phase = "Byte" /\ calm >= LongGap /\ (xfr.k = 0 \/ (xfr.k > 0 /\ xfr.todo # <<>>))
    BY ByteEndMoves
  <2>2. CASE Between
    <3>1. xfr.k = 0 /\ ~Fin
      BY <1>3, <1>5, <2>1, <2>2 DEF Between
    <3> QED
      BY <1>1, <1>2, <1>3, <1>4, <1>6, <2>1, <3>1
  <2>3. CASE Fin
    <3>1. xfr.k > 0 /\ xfr.k = N + 5
      BY <1>3, <1>5, <2>3
    <3>2. xfr.k <= Size(xfr.plan)
      BY <3>1, NextByte
    <3>3. Size(xfr.plan) = N + 4
      BY <1>5, <2>3, CommandFacts
    <3> QED
      BY <1>3, <3>1, <3>2, <3>3
  <2> QED
    BY <1>1, <2>2, <2>3
<1>11. MayEnd => Fin /\ Elapsed = calm
  <2> SUFFICES ASSUME MayEnd PROVE Fin
    BY <1>6
  <2>1. phase = "Byte" /\ xfr.k > 0
    BY EndFacts
  <2> QED
    BY <1>1, <1>3, <2>1 DEF Between
<1>12. phase = "Quiet" => Elapsed = ShortGap + calm
  BY <1>5, <1>6
<1> QED
  BY <1>1, <1>3, <1>6, <1>7, <1>8, <1>9, <1>10, <1>11, <1>12, CarryForeign

\* The places after a clock in which the execution goes on.
LEMMA ExecutingGoesOn ==
    ASSUME WriteCalls, BusTypes, HandlerTypes, BusSide, Executing,
           NEW e, Clock(e, <<>>), ~e.sw_req,
           calm' \in Int, Between' \/ (Fin' /\ calm' >= 5),
           Elapsed' \in Nat, Elapsed' <= Elapsed + 1
    PROVE  Executing' \/ Resting'
<1>1. ~rx_valid /\ ~(AtAck /\ calm = 0) /\ Elapsed \in Nat
  BY ExecutingFacts
<1>2. Carrying /\ TimeLeft + Elapsed <= 3 * RxDepth + 5
  BY DEF Executing
<1>3. RxDepth \in Nat /\ TimeLeft \in Nat
  BY <1>2, CallFacts, CarryTimes
<1>4. CASE exec # "Done"
  <2>1. Carrying' /\ TimeLeft' \in Int /\ TimeLeft' <= TimeLeft - 1
    BY <1>1, <1>2, <1>4, CarryMoves
  <2> QED
    <3>1. PICK t \in Int : t = TimeLeft'
      BY <2>1
    <3>3. PICK s \in Nat : s = Elapsed'
      OBVIOUS
    <3>5. PICK u \in Nat : u = TimeLeft
      BY <1>3
    <3>6. PICK v \in Nat : v = Elapsed
      BY <1>1
    <3>7. PICK d \in Nat : d = RxDepth
      BY <1>3
    <3>8. u + v <= 3 * d + 5
      BY <1>2, <3>5, <3>6, <3>7
    <3>9. t <= u - 1
      BY <2>1, <3>1, <3>5
    <3>10. s <= v + 1
      BY <3>3, <3>6
    <3>4. t + s <= 3 * RxDepth + 5
      BY <3>7, <3>8, <3>9, <3>10
    <3>2. (Fin' /\ calm' >= 4) \/ Between'
      BY <1>3
    <3> QED
      BY <2>1, <3>1, <3>2, <3>3, <3>4 DEF Executing
<1>5. CASE exec = "Done"
  <2>1. ExecIdle' /\ recv' = "Idle" /\ Empty' /\ PortIdle' /\ queue_select' /\ owed' = <<>>
    BY <1>1, <1>2, <1>5, CarryEnds
  <2>2. calm' >= 5 => calm' > 4
    OBVIOUS
  <2>3. Writing' => Between' \/ (AtAck' /\ calm' = 0) \/ (Fin' /\ calm' > 4)
    BY <2>2
  <2>4. ~InOwn'
    BY DEF InOwn, Fin, Writing
  <2> QED
    BY <2>1, <2>3, <2>4, EmptyRests
<1> QED
  BY <1>4, <1>5

\* From Executing the handler comes to rest.
LEMMA ExecutingStep ==
    ASSUME WriteCalls, BusTypes, HandlerTypes, BusSide, Executing, Next
    PROVE  Executing' \/ Resting'
<1>1. /\ ~rx_valid /\ ~(AtAck /\ calm = 0) /\ ~MayRead /\ ~ByteEnd /\ ~BitEnd
      /\ calm \in Nat /\ Elapsed \in Nat
      /\ phase = "Quiet" => Elapsed = ShortGap + calm
      /\ MayEnd => Fin /\ Elapsed = calm
  BY ExecutingFacts
<1>2. /\ ShortGap \in Nat /\ ShortGap >= 5 /\ LongGap \in Nat /\ LongGap >= ShortGap
  BY CallFacts
<1>3. CASE Tick
  <2>1. PICK e : Clock(e, <<>>) /\ ~e.sw_req
    BY <1>1, <1>3, TickEvent
  <2>2. /\ calm' = IF calm < LongGap THEN calm + 1 ELSE calm
        /\ (Between' <=> Between) /\ (Fin' <=> Fin)
    BY <1>3, TickPlaces
  <2>3. Elapsed' \in Nat /\ Elapsed' <= Elapsed + 1
    BY <1>1, <1>2, <2>2 DEF Elapsed
  <2>4. calm' \in Int /\ (Between' \/ (Fin' /\ calm' >= 5))
    <3>1. (Fin /\ calm >= 4) \/ Between
      BY DEF Executing
    <3> QED
      BY <1>1, <1>2, <2>2, <3>1
  <2> QED
    BY <2>1, <2>3, <2>4, ExecutingGoesOn
<1>4. CASE START \/ RepeatedStart
  <2>1. PICK p : Begins(p) /\ Clock(StartEvent, <<>>)
    BY <1>4, StartBegins, RepeatedStartBegins
  <2>2. phase' = "Byte" /\ calm' = 0 /\ calm >= ShortGap /\ (phase = "Quiet" \/ MayEnd)
    BY <2>1 DEF Begins
  <2>3. xfr'.k = 0 /\ xfr'.plan \in AllPlans
    BY <2>1, BeginTypes DEF Begins, AllPlans
  <2>4. Between' /\ ~Fin'
    <3>1. PICK n \in Nat : n = xfr'.plan.n
      BY <2>3, PlanFacts
    <3> QED
      BY <2>3, <3>1 DEF Between, Fin, N
  <2>5. Elapsed' = ShortGap
    BY <1>2, <2>2, <2>4 DEF Elapsed
  <2>6. Elapsed' \in Nat /\ Elapsed' <= Elapsed + 1
    BY <1>1, <1>2, <2>2, <2>5
  <2>7. ~StartEvent.sw_req
    BY StartsEvent DEF Starts
  <2> QED
    BY <2>1, <2>2, <2>4, <2>6, <2>7, ExecutingGoesOn
<1>5. CASE STOP
  <2>1. /\ Clock(StopEvent, <<>>) /\ MayEnd /\ phase' = "Quiet" /\ calm' = 0 /\ xfr' = xfr
    BY <1>5 DEF STOP, StopEvent
  <2>2. calm >= ShortGap
    BY <2>1 DEF MayEnd
  <2>3. Between' /\ ~Fin'
    BY <2>1 DEF Between, Fin
  <2>4. Elapsed' = ShortGap
    BY <1>2, <2>1, <2>3 DEF Elapsed
  <2>5. Elapsed' \in Nat /\ Elapsed' <= Elapsed + 1
    BY <1>1, <1>2, <2>1, <2>2, <2>4
  <2>6. ~StopEvent.sw_req
    BY StopsEvent DEF Stops
  <2> QED
    BY <2>1, <2>3, <2>5, <2>6, ExecutingGoesOn
<1> QED
  BY <1>1, <1>3, <1>4, <1>5 DEF Next

-----------------------------------------------------------------------------
(* No command. *)

\* The messages to the target.
LEMMA OwnFacts ==
    ASSUME WriteCalls, BusTypes, BusSide, InOwn
    PROVE  /\ xfr.plan.kind = "own" /\ ~Writing /\ ForUs /\ ~Between
           /\ N \in Nat /\ N <= 4 /\ Size(xfr.plan) = N
           /\ xfr.k \in Nat /\ xfr.k >= 1 /\ xfr.k <= N + 1
           /\ phase \in {"Byte", "Bit"} /\ calm \in Nat
           /\ Got \in Nat /\ Got <= 4
           /\ phase = "Bit" => Got < 4
<1>1. xfr.plan.kind = "own" /\ ~Between
  BY DEF InOwn
<1>2. /\ calm \in Nat /\ xfr.k \in Nat /\ N \in Nat /\ xfr.plan \in AllPlans
      /\ phase \in {"Quiet", "Byte", "Bit"}
  BY PlaceFacts
<1>3. N <= 4
  BY <1>1, <1>2, PlanFacts DEF N
<1>4. Size(xfr.plan) = N
  <2>1. xfr.plan.kind # "write"
    BY <1>1
  <2> QED
    BY <1>1, <2>1, Zenon DEF Size, N
<1>5. xfr.k <= N + 1
  BY <1>4 DEF BusSide
<1>6. phase # "Quiet" /\ xfr.k # 0
  BY <1>1 DEF Between
<1>7. /\ xfr.k = 1 => Got = 0
      /\ xfr.k # 1 /\ phase = "Byte" /\ calm > 0 => Got = xfr.k - 1
      /\ xfr.k # 1 /\ ~(phase = "Byte" /\ calm > 0) => Got = xfr.k - 2
  BY GotIs
<1>8. Got \in Nat /\ Got <= 4 /\ (phase = "Bit" => Got < 4)
  BY <1>2, <1>3, <1>5, <1>6, <1>7
<1>9. ~Writing /\ ForUs
  BY <1>1 DEF Writing, ForUs
<1> QED
  BY <1>1, <1>2, <1>3, <1>4, <1>5, <1>6, <1>8, <1>9

\* They pass by the recovery handler.
LEMMA OwnNotPending ==
    ASSUME WriteCalls, BusTypes, BusSide, Selection, ExecIdle, InOwn, ~(AtAck /\ calm = 0)
    PROVE  ~recovery_pending
<1>1. ~Writing /\ ~Between /\ calm \in Nat
  BY OwnFacts
<1>2. Checked
  BY <1>1 DEF Checked
<1>3. ~(virtual_sel /\ xfer_in_progress) /\ ~exec_pending
  BY <1>1, <1>2 DEF Selection, ExecIdle
<1> QED
  BY <1>3 DEF recovery_pending

\* A byte that waits belongs to such a message, and there is room for it.
LEMMA RestReady ==
    ASSUME WriteCalls, BusTypes, BusSide, Selection, Resting, rx_valid
    PROVE  /\ InOwn /\ phase = "Byte" /\ xfr.k > 1 /\ calm = 0 /\ Got = xfr.k - 2 /\ Got < 4
           /\ ~recovery_pending /\ ~conv.full /\ rx_wready /\ data_queue_flow
<1>1. phase = "Byte" /\ xfr.k > 1 /\ calm = 0 /\ xfr.k \in Nat /\ N \in Nat
  BY PlaceFacts DEF BusSide
<1>2. ~Between /\ ~AtAck /\ ~(Fin /\ calm > 4)
  BY <1>1 DEF Between, AtAck
<1>3. ForUs /\ ~Writing
  BY <1>1, <1>2 DEF BusSide, Resting
<1>4. InOwn
  BY <1>2, <1>3 DEF InOwn, ForUs, Writing
<1>5. Got = xfr.k - 2 /\ Got < 4
  <2>1. xfr.k <= N + 1 /\ N <= 4
    BY <1>4, OwnFacts
  <2> QED
    BY <1>1, <2>1, GotIs
<1>6. ~conv.full
  BY <1>4, <1>5 DEF Resting, OwnStored
<1>7. ~recovery_pending
  BY <1>2, <1>4, OwnNotPending DEF Resting
<1>8. rx_wready /\ data_queue_flow
  BY <1>6, <1>7 DEF rx_wready, to_receiver, data_queue_flow, data_queue_wvalid
<1> QED
  BY <1>1, <1>4, <1>5, <1>6, <1>7, <1>8

\* Nothing is stored, and nothing comes.
LEMMA RestsEmpty ==
    ASSUME WriteCalls, HandlerTypes, Resting, Empty, ~rx_valid,
           NEW e, Clock(e, <<>>), ~e.sw_req,
           Writing' => Between' \/ (AtAck' /\ calm' = 0) \/ (Fin' /\ calm' > 4),
           InOwn' => Got' = 0
    PROVE  Resting'
<1>1. /\ recv \in {"Idle", "RxCmd"} /\ queue_select /\ ExecIdle /\ owed = <<>>
      /\ PortIdle \/ sw_busy
  BY DEF Resting
<1>2. ~sw_busy /\ rx_queue = <<>> /\ conv = [bytes |-> <<>>, full |-> FALSE]
  BY DEF Empty
<1>3. conv.bytes = <<>> /\ ~conv.full /\ PortIdle
  BY <1>1, <1>2
<1>4. Handler(e) /\ ~Taken /\ ~data_queue_flow
  BY DEF Clock, Taken, data_queue_flow, data_queue_wvalid
<1>5. /\ ExecIdle' /\ PortIdle' /\ ~sw_busy' /\ owed' = <<>> /\ rx_queue' = rx_queue
      /\ conv' = conv
  BY <1>1, <1>2, <1>3, <1>4, NothingMoves
<1>6. recv' \in {"Idle", "RxCmd"} /\ queue_select'
  BY <1>1, <1>4, RecvRests
<1>7. Empty'
  BY <1>2, <1>5 DEF Empty
<1> QED
  BY <1>5, <1>6, <1>7, EmptyRests

\* A handler that is selected rests with an empty queue.
LEMMA RestsPending ==
    ASSUME WriteCalls, BusTypes, HandlerTypes, BusSide, Selection, Resting, Next,
           recovery_pending \/ (Writing /\ phase # "Quiet"),
           ~(Tick /\ AtAck /\ calm = 0 /\ Writing)
    PROVE  Resting'
<1>1. /\ Writing => Between \/ (AtAck /\ calm = 0) \/ (Fin /\ calm > 4)
      /\ Empty /\ ExecIdle
  BY DEF Resting
<1>2. ~rx_valid
  <2>1. rx_valid => InOwn /\ ~recovery_pending
    BY RestReady
  <2> QED
    BY <2>1 DEF InOwn, Writing
<1>3. InOwn => AtAck /\ calm = 0
  BY <1>1, OwnNotPending DEF InOwn, Writing
<1>4. ~MayRead
  BY <1>1 DEF Empty, MayRead
<1>5. /\ calm \in Nat /\ xfr.k \in Nat /\ N \in Nat /\ phase \in {"Quiet", "Byte", "Bit"}
      /\ ShortGap \in Nat /\ ShortGap >= 5 /\ LongGap \in Nat /\ LongGap >= ShortGap
  BY PlaceFacts, CallFacts
<1>6. CASE Tick
  <2>1. PICK e : Clock(e, <<>>) /\ ~e.sw_req
    BY <1>4, <1>6, TickEvent
  <2>2. /\ phase' = phase /\ xfr' = xfr
        /\ calm' = IF calm < LongGap THEN calm + 1 ELSE calm
        /\ (Between' <=> Between) /\ (Writing' <=> Writing) /\ (Fin' <=> Fin)
    BY <1>6, TickPlaces
  <2>3. Writing' => Between' \/ (Fin' /\ calm' > 4)
    BY <1>1, <1>5, <1>6, <2>2
  <2>4. InOwn' => Got' = 0
    <3>1. InOwn' => xfr'.k = 1
      BY <1>3, <2>2 DEF InOwn, AtAck
    <3>2. xfr'.k = 1 => Got' = 0
      BY Zenon DEF Got
    <3> QED
      BY <3>1, <3>2
  <2> QED
    BY <1>1, <1>2, <2>1, <2>3, <2>4, RestsEmpty
<1>7. CASE ByteEnd
  <2>1. /\ phase = "Byte" /\ phase' = "Bit" /\ calm' = 0 /\ calm >= LongGap
        /\ xfr'.plan = xfr.plan /\ xfr'.k = xfr.k + 1
        /\ xfr.k = 0 \/ (xfr.k > 0 /\ xfr.todo # <<>>)
        /\ \E e : Clock(e, <<>>) /\ Dones(e)
    BY <1>7, ByteEndMoves
  <2>2. PICK e : Clock(e, <<>>) /\ ~e.sw_req
    BY <2>1 DEF Dones
  <2>3. xfr.k = 0
    <3> SUFFICES ASSUME xfr.k # 0 PROVE FALSE
      OBVIOUS
    <3>1. ~Between
      BY <2>1 DEF Between
    <3>2. ~AtAck
      BY <2>1 DEF AtAck
    <3>3. ~InOwn
      BY <1>3, <3>2
    <3>4. xfr.k > 0 /\ xfr.k <= Size(xfr.plan)
      BY <1>5, <1>7, NextByte
    <3>5. CASE Writing
      <4>1. xfr.k = N + 5 /\ Size(xfr.plan) = N + 4
        BY <1>1, <3>1, <3>2, <3>5, CommandFacts DEF Fin
      <4> QED
        BY <1>5, <3>4, <4>1
    <3>6. CASE ~Writing
      <4>1. Size(xfr.plan) = 0
        BY <3>1, <3>3, <3>6 DEF Size, InOwn, Writing
      <4> QED
        BY <1>5, <3>4, <4>1
    <3> QED
      BY <3>5, <3>6
  <2>4. AtAck' /\ calm' = 0 /\ Got' = 0
    <3>1. xfr'.k = 1
      BY <2>1, <2>3
    <3>2. Got' = 0
      BY <3>1, Zenon DEF Got
    <3> QED
      BY <2>1, <3>1, <3>2 DEF AtAck
  <2> QED
    BY <1>1, <1>2, <2>2, <2>4, RestsEmpty
<1>8. CASE BitEnd
  <2>1. /\ phase = "Bit" /\ phase' = "Byte" /\ calm >= ShortGap
        /\ xfr'.plan = xfr.plan /\ xfr'.k = xfr.k
    BY <1>8, BitEndMoves
  <2>2. ~Between /\ ~Fin /\ ~(AtAck /\ calm = 0)
    BY <1>5, <2>1 DEF Between, Fin, BusSide
  <2>3. ~Writing /\ ~InOwn
    BY <1>1, <1>3, <2>2
  <2>4. ~Writing' /\ ~InOwn'
    BY <2>1, <2>2, <2>3 DEF Writing, InOwn
  <2>5. PICK e : Clock(e, <<>>) /\ ~e.sw_req
    BY <1>8, <2>3, BitEndEvent DEF Dones, Writing
  <2> QED
    BY <1>1, <1>2, <2>4, <2>5, RestsEmpty
<1>9. CASE START \/ RepeatedStart
  <2>1. PICK p : Begins(p) /\ Clock(StartEvent, <<>>)
    BY <1>9, StartBegins, RepeatedStartBegins
  <2>2. xfr'.k = 0
    BY <2>1, BeginTypes
  <2>3. Between' /\ ~InOwn'
    BY <2>2 DEF Between, InOwn
  <2>4. ~StartEvent.sw_req
    BY StartsEvent DEF Starts
  <2> QED
    BY <1>1, <1>2, <2>1, <2>3, <2>4, RestsEmpty
<1>10. CASE STOP
  <2>1. Clock(StopEvent, <<>>) /\ phase' = "Quiet"
    BY <1>10 DEF STOP, StopEvent
  <2>2. Between' /\ ~InOwn'
    BY <2>1 DEF Between, InOwn
  <2>3. ~StopEvent.sw_req
    BY StopsEvent DEF Stops
  <2> QED
    BY <1>1, <1>2, <2>1, <2>2, <2>3, RestsEmpty
<1> QED
  BY <1>6, <1>7, <1>8, <1>9, <1>10 DEF Next

\* When a transfer may end, the last word of a message still has to be flushed.
LEMMA RestEnds ==
    ASSUME WriteCalls, BusTypes, BusSide, Selection, Resting,
           (phase = "Quiet" /\ calm >= ShortGap) \/ MayEnd
    PROVE  /\ calm \in Nat /\ calm >= 5 /\ ~rx_valid /\ ~last_q /\ ~conv.full
           /\ conv.bytes # <<>> => fsm = "RxPWriteData" /\ phase = "Byte"
<1>1. calm \in Nat /\ xfr.k \in Nat /\ ShortGap \in Nat /\ ShortGap >= 5
  BY PlaceFacts, CallFacts
<1>2. MayEnd => /\ phase = "Byte" /\ xfr.k > 0 /\ calm >= ShortGap
                /\ fsm = "RxPWriteData" <=> ForUs
  BY EndFacts
<1>3. calm >= 5
  BY <1>1, <1>2
<1>4. ~rx_valid /\ ~last_q
  BY <1>3 DEF BusSide
<1>5. CASE phase = "Quiet" /\ calm >= ShortGap
  <2>1. Between /\ calm > 1
    BY <1>1, <1>5 DEF Between
  <2> QED
    BY <1>1, <1>3, <1>4, <2>1 DEF Resting, OwnStored
<1>6. CASE MayEnd
  <2>1. ~Between
    BY <1>1, <1>2, <1>6 DEF Between
  <2>2. CASE InOwn
    <3>1. ForUs /\ Got \in Nat
      BY <2>2, OwnFacts
    <3>2. calm # 1
      BY <1>3
    <3>3. ~conv.full
      <4>1. CASE Got < 4
        BY <2>2, <4>1 DEF Resting, OwnStored
      <4>2. CASE Got >= 4
        BY <2>2, <3>2, <4>2 DEF Resting, OwnStored
      <4> QED
        BY <3>1, <4>1, <4>2
    <3> QED
      BY <1>1, <1>2, <1>3, <1>4, <1>6, <3>1, <3>3
  <2>3. CASE ~InOwn
    <3>1. conv.bytes = <<>> /\ ~conv.full
      BY <2>1, <2>3 DEF Resting, OwnStored
    <3> QED
      BY <1>1, <1>3, <1>4, <3>1
  <2> QED
    BY <2>2, <2>3
<1> QED
  BY <1>5, <1>6

\* Software has read every message.
LEMMA DrainedEmpty ==
    ASSUME HandlerTypes, OwnStored, Drained
    PROVE  rx_queue = <<>> /\ conv.bytes = <<>>
<1>1. conv.bytes \in Seq(Byte) /\ rx_queue \in Seq(Seq(Byte))
  BY DEF HandlerTypes
<1>2. /\ OwnWord4(conv.bytes)
      /\ \A i \in 1 .. Len(rx_queue) : rx_queue[i] # <<>> /\ OwnWord4(rx_queue[i])
  BY DEF OwnStored
<1>3. ASSUME NEW w \in Seq(Byte), w # <<>>, OwnWord4(w), \A b \in ToSet(w) : b.v # OwnData
      PROVE  FALSE
  <2>1. 1 \in 1 .. Len(w) /\ 1 \in DOMAIN w
    BY <1>3
  <2>2. w[1] \in ToSet(w)
    BY <2>1 DEF ToSet
  <2> QED
    BY <1>3, <2>1, <2>2 DEF OwnWord4
<1>4. \A w \in {conv.bytes} \union ToSet(rx_queue) : \A b \in ToSet(w) : b.v # OwnData
  BY DEF Drained
<1>5. conv.bytes = <<>>
  BY <1>1, <1>2, <1>3, <1>4
<1>6. rx_queue = <<>>
  <2> SUFFICES ASSUME rx_queue # <<>> PROVE FALSE
    OBVIOUS
  <2>1. 1 \in 1 .. Len(rx_queue) /\ 1 \in DOMAIN rx_queue /\ rx_queue[1] \in Seq(Byte)
    BY <1>1
  <2>2. rx_queue[1] \in ToSet(rx_queue)
    BY <2>1 DEF ToSet
  <2> QED
    BY <1>2, <1>3, <1>4, <2>1, <2>2
<1> QED
  BY <1>5, <1>6

\* A command begins when nothing is stored.
LEMMA RestsWrite ==
    ASSUME WriteCalls, BusTypes, HandlerTypes, BusSide, Selection, Resting,
           NEW p, Begins(p), p.kind = "write", Clock(StartEvent, <<>>)
    PROVE  Resting'
<1>1. p \in Plans /\ p \in AllPlans /\ Follows(p) /\ Habits = {}
  BY DEF Begins, AllPlans, WriteCalls
<1>2. HeaderOf(p).addr = "virtual"
  <2>1. p.kind # "own" /\ p.kind # "broadcast" /\ p.kind # "other"
    OBVIOUS
  <2> QED
    BY <1>1, <2>1, HeadersAre, Zenon
<1>3. Drained
  BY <1>1, <1>2 DEF Follows
<1>4. rx_queue = <<>> /\ conv.bytes = <<>> /\ ~sw_busy
  BY <1>3, DrainedEmpty DEF Resting, Drained
<1>5. ~conv.full /\ ~rx_valid
  <2>1. (phase = "Quiet" /\ calm >= ShortGap) \/ MayEnd
    BY DEF Begins
  <2> QED
    BY <2>1, RestEnds
<1>6. Empty
  <2>1. conv \in [bytes : Seq(Byte), full : BOOLEAN]
    BY DEF HandlerTypes
  <2> QED
    BY <1>4, <1>5, <2>1 DEF Empty
<1>7. Between' /\ ~InOwn'
  <2>1. xfr'.k = 0
    BY BeginTypes
  <2> QED
    BY <2>1 DEF Between, InOwn
<1>8. ~StartEvent.sw_req
  BY StartsEvent DEF Starts
<1> QED
  BY <1>5, <1>6, <1>7, <1>8, RestsEmpty

-----------------------------------------------------------------------------
(* Software reads the messages while others come. *)

\* Receiver, executor and port.
LEMMA RestClock ==
    ASSUME WriteCalls, BusTypes, HandlerTypes, BusSide, Resting, ~recovery_pending,
           ~(AtAck /\ calm = 0 /\ Writing),
           NEW e, Clock(e, <<>>), e.sw_req => MayRead
    PROVE  /\ recv' \in {"Idle", "RxCmd"} /\ queue_select' /\ ExecIdle' /\ owed' = <<>>
           /\ PortIdle' \/ (sw_busy' /\ (port'.ack = <<>> \/ ~port'.rready))
           /\ ~recovery_pending'
<1>1. /\ recv \in {"Idle", "RxCmd"} /\ queue_select /\ ExecIdle /\ owed = <<>>
      /\ PortIdle \/ (sw_busy /\ (port.ack = <<>> \/ ~port.rready))
  BY DEF Resting
<1>2. Handler(e) /\ ~Taken
  BY DEF Clock, Taken, to_receiver
<1>3. recv' \in {"Idle", "RxCmd"} /\ queue_select'
  BY <1>1, <1>2, RecvRests
<1>4. ExecIdle'
  BY <1>1, <1>2, IdleClock
<1>5. owed' = <<>>
  <2>1. ~TakesCommand
    BY <1>1 DEF TakesCommand, ExecIdle
  <2>2. owed' = owed \o <<>>
    BY <2>1 DEF Clock
  <2> QED
    BY <1>1, <2>2
<1>6. PortIdle' \/ (sw_busy' /\ (port'.ack = <<>> \/ ~port'.rready))
  <2>1. /\ rx_req(e) = e.sw_req /\ ~rx_clr
        /\ sw_busy' = (e.sw_req \/ (sw_busy /\ port.ack = <<>>))
    BY DEF rx_req, rx_clr, Clock, sw_rack
  <2>2. port' = IF port.rready /\ RValid(rx_queue)
                THEN [rready |-> FALSE, ack |-> <<Head(rx_queue)>>]
                ELSE [rready |-> port.rready \/ e.sw_req, ack |-> <<>>]
    BY <1>2, <2>1 DEF Handler, RxDataQueue
  <2>3. CASE sw_busy /\ port.ack = <<>>
    <3>1. sw_busy'
      BY <2>1, <2>3
    <3>2. port'.ack = <<>> \/ ~port'.rready
      BY <2>2
    <3> QED
      BY <3>1, <3>2
  <2>4. CASE sw_busy /\ port.ack # <<>>
    <3>1. ~e.sw_req /\ ~port.rready
      BY <1>1, <2>4 DEF MayRead, PortIdle
    <3> QED
      BY <2>2, <3>1 DEF PortIdle
  <2>5. CASE ~sw_busy
    <3>1. ~port.rready
      BY <1>1, <2>5 DEF PortIdle
    <3>2. CASE e.sw_req
      <4>1. sw_busy'
        BY <2>1, <3>2
      <4>2. port'.ack = <<>>
        BY <2>2, <3>1
      <4> QED
        BY <4>1, <4>2
    <3>3. CASE ~e.sw_req
      BY <2>2, <3>1, <3>3 DEF PortIdle
    <3> QED
      BY <3>2, <3>3
  <2> QED
    BY <2>3, <2>4, <2>5
<1>7. ~(xfer_in_progress' /\ virtual_sel')
  <2>1. ~(xfer_in_progress /\ virtual_sel)
    BY DEF recovery_pending
  <2>2. CASE ~(AtAck /\ calm = 0)
    BY <1>2, <2>1, <2>2, SelectionClock
  <2>3. CASE AtAck /\ calm = 0
    <3>1. ~Writing
      BY <2>3
    <3>2. ForUs => xfr.plan.kind # "broadcast"
      BY DEF ForUs
    <3> QED
      BY <1>2, <2>3, <3>1, <3>2, SelectionClock
  <2> QED
    BY <2>2, <2>3
<1>8. ~recovery_pending'
  BY <1>4, <1>7 DEF recovery_pending, ExecIdle
<1> QED
  BY <1>3, <1>4, <1>5, <1>6, <1>8

\* The queue: at most the word in the converter is added.
LEMMA RestQueue ==
    ASSUME HandlerTypes, OwnStored, ~recovery_pending, NEW e, Handler(e),
           conv.full => conv.bytes # <<>>
    PROVE  /\ \A i \in 1 .. Len(rx_queue') : rx_queue'[i] # <<>> /\ OwnWord4(rx_queue'[i])
           /\ Len(rx_queue') \in Nat
           /\ ~conv.full => Len(rx_queue') <= Len(rx_queue)
           /\ Len(rx_queue') <= Len(rx_queue) + 1
<1>1. conv.bytes \in Seq(Byte) /\ rx_queue \in Seq(Seq(Byte))
  BY DEF HandlerTypes
<1>2. /\ OwnWord4(conv.bytes)
      /\ \A i \in 1 .. Len(rx_queue) : rx_queue[i] # <<>> /\ OwnWord4(rx_queue[i])
  BY DEF OwnStored
<1> DEFINE q == IF port.rready /\ RValid(rx_queue) THEN Tail(rx_queue) ELSE rx_queue
           o == IF WReady(rx_queue, RxDepth)
                THEN IF conv.full THEN <<conv.bytes>> ELSE <<>> ELSE <<>>
<1>3. rx_queue' = q \o o
  <2>1. ~rx_clr
    BY DEF rx_clr
  <2> QED
    BY <2>1 DEF Handler, RxDataQueue, FifoStep
<1>4. /\ q \in Seq(Seq(Byte)) /\ Len(q) <= Len(rx_queue) /\ Len(q) \in Nat
      /\ \A i \in 1 .. Len(q) : q[i] # <<>> /\ OwnWord4(q[i])
  <2>1. CASE port.rready /\ RValid(rx_queue)
    <3>1. q = Tail(rx_queue) /\ rx_queue # <<>>
      BY <2>1 DEF RValid
    <3>2. /\ Tail(rx_queue) \in Seq(Seq(Byte)) /\ Len(Tail(rx_queue)) = Len(rx_queue) - 1
          /\ \A i \in 1 .. Len(rx_queue) - 1 :
                Tail(rx_queue)[i] = rx_queue[i + 1] /\ i + 1 \in 1 .. Len(rx_queue)
      BY <1>1, <3>1
    <3>3. \A i \in 1 .. Len(Tail(rx_queue)) :
             Tail(rx_queue)[i] # <<>> /\ OwnWord4(Tail(rx_queue)[i])
      BY <1>2, <3>2
    <3>4. Len(rx_queue) \in Nat /\ Len(Tail(rx_queue)) \in Nat
          /\ Len(Tail(rx_queue)) <= Len(rx_queue)
      BY <1>1, <3>2
    <3> HIDE DEF q
    <3> QED
      BY <3>1, <3>2, <3>3, <3>4
  <2>2. CASE ~(port.rready /\ RValid(rx_queue))
    BY <1>1, <1>2, <2>2
  <2> QED
    BY <2>1, <2>2
<1>5. /\ o \in Seq(Seq(Byte)) /\ Len(o) \in 0 .. 1 /\ (~conv.full => Len(o) = 0)
      /\ \A i \in 1 .. Len(o) : o[i] # <<>> /\ OwnWord4(o[i])
  <2>1. CASE o = <<>>
    BY <2>1
  <2>2. CASE conv.full /\ o = <<conv.bytes>>
    <3>1. conv.bytes # <<>> /\ Len(o) = 1 /\ o[1] = conv.bytes
      BY <2>2
    <3> QED
      BY <1>1, <1>2, <2>2, <3>1
  <2> QED
    BY <2>1, <2>2
<1> HIDE DEF q, o
<1>6. Len(q \o o) = Len(q) + Len(o)
  BY <1>4, <1>5
<1>7. ASSUME NEW i \in 1 .. Len(q \o o)
      PROVE  (q \o o)[i] # <<>> /\ OwnWord4((q \o o)[i])
  <2>1. CASE i <= Len(q)
    BY <1>4, <1>5, <1>6, <2>1
  <2>2. CASE i > Len(q)
    <3>1. i - Len(q) \in 1 .. Len(o) /\ (q \o o)[i] = o[i - Len(q)]
      BY <1>4, <1>5, <1>6, <2>2
    <3> QED
      BY <1>5, <3>1
  <2> QED
    BY <1>4, <2>1, <2>2
<1>8. \A i \in 1 .. Len(rx_queue') : rx_queue'[i] # <<>> /\ OwnWord4(rx_queue'[i])
  BY <1>3, <1>7
<1>9. Len(rx_queue') = Len(q) + Len(o) /\ Len(rx_queue) \in Nat
  BY <1>1, <1>3, <1>6
<1>10. Len(rx_queue') \in Nat /\ Len(rx_queue') <= Len(rx_queue) + 1
  BY <1>4, <1>5, <1>9
<1>11. ~conv.full => Len(rx_queue') <= Len(rx_queue)
  BY <1>4, <1>5, <1>9
<1> QED
  BY <1>8, <1>10, <1>11

\* A full word waits for one clock only, and the queue has room for it.
LEMMA FullFacts ==
    ASSUME WriteCalls, BusTypes, HandlerTypes, BusSide, OwnStored
    PROVE  /\ conv.full => conv.bytes # <<>> /\ calm = 1 /\ Len(rx_queue) < RxDepth
           /\ Len(rx_queue) \in Nat /\ RxDepth \in Nat /\ Pend \in 0 .. 1
           /\ conv.bytes # <<>> <=> Pend = 1
<1>1. Len(rx_queue) \in Nat /\ RxDepth \in Nat /\ calm \in Nat
  BY CallFacts, PlaceFacts DEF HandlerTypes
<1>2. Pend \in 0 .. 1 /\ (conv.bytes # <<>> <=> Pend = 1)
  BY DEF Pend
<1>3. conv.full => conv.bytes # <<>> /\ calm = 1
  <2>1. CASE InOwn
    <3>1. Got \in Nat
      BY <2>1, OwnFacts
    <3>2. CASE Got < 4
      BY <2>1, <3>2 DEF OwnStored
    <3>3. CASE Got >= 4
      BY <2>1, <3>3 DEF OwnStored
    <3> QED
      BY <3>1, <3>2, <3>3
  <2>2. CASE Between
    <3>1. CASE calm = 0
      BY <2>2, <3>1 DEF OwnStored
    <3>2. CASE calm = 1
      BY <2>2, <3>2 DEF OwnStored
    <3>3. CASE calm > 1
      BY <2>2, <3>3 DEF OwnStored
    <3> QED
      BY <1>1, <3>1, <3>2, <3>3
  <2>3. CASE ~(Between \/ InOwn)
    BY <2>3 DEF OwnStored
  <2> QED
    BY <2>1, <2>2, <2>3
<1>4. conv.full => Len(rx_queue) < RxDepth
  <2>1. Len(rx_queue) + Pend <= RxDepth
    BY DEF OwnStored
  <2> QED
    BY <1>1, <1>2, <1>3, <2>1
<1> QED
  BY <1>1, <1>2, <1>3, <1>4

\* A clock in which nothing reaches the converter and nothing leaves it.
LEMMA OwnWaits ==
    ASSUME HandlerTypes, OwnStored, ~recovery_pending, NEW e, Handler(e),
           ~rx_valid, ~conv.full, ~last_q \/ conv.bytes = <<>>
    PROVE  /\ conv' = conv /\ Pend' = Pend
           /\ Len(rx_queue') \in Nat /\ Len(rx_queue') <= Len(rx_queue)
           /\ \A i \in 1 .. Len(rx_queue') : rx_queue'[i] # <<>> /\ OwnWord4(rx_queue'[i])
           /\ OwnWord4(conv'.bytes) /\ Len(conv'.bytes) <= 4
<1>1. ~data_queue_flow /\ (~conv_flush \/ conv.bytes = <<>>)
  BY DEF data_queue_flow, data_queue_wvalid, conv_flush, to_receiver
<1>2. conv' = conv
  BY <1>1, ConvWaits
<1>3. Pend' = Pend
  BY <1>2 DEF Pend
<1>4. OwnWord4(conv.bytes) /\ Len(conv.bytes) <= 4
  BY DEF OwnStored
<1>5. OwnWord4(conv'.bytes) /\ Len(conv'.bytes) <= 4
  BY <1>2, <1>4
<1> QED
  BY <1>2, <1>3, <1>5, RestQueue

\* What is left to show after such a clock: the places.
LEMMA OwnPlaces ==
    ASSUME WriteCalls, BusTypes, HandlerTypes, BusSide, OwnStored, ~recovery_pending,
           NEW e, Handler(e), ~rx_valid, ~conv.full, ~last_q \/ conv.bytes = <<>>,
           xfr'.plan.kind = "own" /\ phase' = "Byte" /\ xfr'.k = 0 =>
              Len(rx_queue) + Pend < RxDepth,
           InOwn' => \/ /\ Got' < 4 /\ Len(rx_queue) < RxDepth
                        /\ Len(conv.bytes) = Got'
                     \/ ~(Got' < 4) /\ calm' # 1 /\ conv.bytes = <<>>,
           Between' /\ calm' = 0 /\ conv.bytes # <<>> => last_q',
           Between' /\ ~(calm' = 0) => conv.bytes = <<>>,
           ~(Between' \/ InOwn') => conv.bytes = <<>>,
           calm' \in Nat, InOwn' => Got' \in Nat
    PROVE  OwnStored'
<1>1. /\ conv' = conv /\ Pend' = Pend
      /\ Len(rx_queue') \in Nat /\ Len(rx_queue') <= Len(rx_queue)
      /\ \A i \in 1 .. Len(rx_queue') : rx_queue'[i] # <<>> /\ OwnWord4(rx_queue'[i])
      /\ OwnWord4(conv'.bytes) /\ Len(conv'.bytes) <= 4
  BY OwnWaits
<1>2. Len(rx_queue) \in Nat /\ RxDepth \in Nat /\ Pend \in 0 .. 1
  BY FullFacts
<1>3. Len(rx_queue) + Pend <= RxDepth
  BY DEF OwnStored
<1>4. PICK l \in Nat : l = Len(rx_queue')
  BY <1>1
<1>5. PICK m \in 0 .. 1 : m = Pend
  BY <1>2
<1>6. Len(rx_queue') + Pend' <= RxDepth
  <2>1. l + m <= RxDepth
    BY <1>1, <1>2, <1>3, <1>4, <1>5
  <2> QED
    BY <1>1, <1>4, <1>5, <2>1
<1>7. xfr'.plan.kind = "own" /\ phase' = "Byte" /\ xfr'.k = 0 =>
         Len(rx_queue') + Pend' < RxDepth
  <2>1. Len(rx_queue) + Pend < RxDepth => l + m < RxDepth
    BY <1>1, <1>2, <1>4, <1>5
  <2> QED
    BY <1>1, <1>4, <1>5, <2>1
<1>8. Len(rx_queue) < RxDepth => Len(rx_queue') < RxDepth
  BY <1>1, <1>2
<1>9. InOwn' => (Got' >= 4 <=> ~(Got' < 4))
  <2>1. ASSUME NEW g \in Nat PROVE g >= 4 <=> ~(g < 4)
    OBVIOUS
  <2> QED
    BY <2>1
<1>10. calm' > 1 => ~(calm' = 0)
  OBVIOUS
<1>11. InOwn' /\ Got' < 4 => Len(rx_queue') < RxDepth /\ Len(conv'.bytes) = Got' /\ ~conv'.full
  BY <1>1, <1>8
<1>12. InOwn' /\ Got' >= 4 =>
          (conv'.full <=> calm' = 1) /\ (conv'.full <=> conv'.bytes # <<>>)
  BY <1>1, <1>9
<1>13. /\ Between' /\ calm' = 0 => ~conv'.full /\ (conv'.bytes # <<>> => last_q')
       /\ Between' /\ calm' = 1 => (conv'.full <=> conv'.bytes # <<>>)
       /\ (Between' /\ calm' > 1) \/ ~(Between' \/ InOwn')
            => conv'.bytes = <<>> /\ ~conv'.full
  BY <1>1, <1>10
<1> QED
  BY <1>1, <1>6, <1>7, <1>11, <1>12, <1>13 DEF OwnStored

\* A clock changes the places by the time only.
LEMMA TickGot ==
    ASSUME WriteCalls, BusTypes, BusSide, Tick
    PROVE  /\ InOwn' <=> InOwn
           /\ ~rx_valid /\ InOwn => Got' = Got
           /\ rx_valid /\ InOwn => Got' = Got + 1
           /\ calm \in Nat /\ calm' \in Nat /\ calm' >= 1
           /\ calm = 0 => calm' = 1
           /\ calm >= 1 => calm' >= 2
<1>1. /\ phase' = phase /\ xfr' = xfr /\ calm' \in 1 .. LongGap
      /\ calm' = IF calm < LongGap THEN calm + 1 ELSE calm
      /\ (Between' <=> Between)
  BY TickPlaces
<1>2. calm \in Nat /\ xfr.k \in Nat /\ LongGap \in Nat /\ LongGap >= 5
  BY PlaceFacts, CallFacts
<1>3. InOwn' <=> InOwn
  BY <1>1 DEF InOwn
<1>4. /\ calm' \in Nat /\ calm' >= 1 /\ (calm = 0 => calm' = 1)
      /\ (calm >= 1 => calm' >= 2)
  BY <1>1, <1>2
<1>5. rx_valid <=> (phase = "Byte" /\ xfr.k > 1 /\ calm = 0)
  BY DEF BusSide
<1>6. /\ xfr.k = 1 => Got' = 0
      /\ xfr.k # 1 /\ phase = "Byte" => Got' = xfr.k - 1
      /\ xfr.k # 1 /\ ~(phase = "Byte") => Got' = xfr.k - 2
  <2>1. calm' > 0
    BY <1>4
  <2> DEFINE b == xfr.k # 1 /\ phase = "Byte"
  <2>2. (xfr'.k # 1 /\ phase' = "Byte" /\ calm' > 0) <=> b
    BY <1>1, <2>1
  <2>3. Got' = CASE xfr.k = 1 -> 0
                 [] xfr'.k # 1 /\ phase' = "Byte" /\ calm' > 0 -> xfr.k - 1
                 [] OTHER -> xfr.k - 2
    BY <1>1 DEF Got
  <2> DEFINE c == xfr'.k # 1 /\ phase' = "Byte" /\ calm' > 0
  <2>4. Got' = CASE xfr.k = 1 -> 0 [] c -> xfr.k - 1 [] OTHER -> xfr.k - 2
    BY <2>3
  <2>5. (c => xfr.k # 1) /\ (c <=> b)
    BY <1>1, <2>2
  <2> HIDE DEF c
  <2> QED
    BY <2>4, <2>5
<1>7. /\ xfr.k = 1 => Got = 0
      /\ xfr.k # 1 /\ phase = "Byte" /\ calm > 0 => Got = xfr.k - 1
      /\ xfr.k # 1 /\ ~(phase = "Byte" /\ calm > 0) => Got = xfr.k - 2
  BY GotIs
<1>8. InOwn => xfr.k >= 1
  BY OwnFacts
<1>9. ~rx_valid /\ InOwn => Got' = Got
  BY <1>2, <1>5, <1>6, <1>7, <1>8
<1>10. rx_valid /\ InOwn => Got' = Got + 1
  BY <1>2, <1>5, <1>6, <1>7
<1> QED
  BY <1>2, <1>3, <1>4, <1>9, <1>10

\* A byte goes into the converter.
LEMMA OwnTickByte ==
    ASSUME WriteCalls, BusTypes, HandlerTypes, BusSide, Selection, Resting, Tick,
           NEW e, Clock(e, <<>>), rx_valid
    PROVE  OwnStored'
<1>1. /\ InOwn /\ phase = "Byte" /\ xfr.k > 1 /\ calm = 0 /\ Got = xfr.k - 2 /\ Got < 4
      /\ ~recovery_pending /\ ~conv.full /\ data_queue_flow
  BY RestReady
<1>2. Handler(e) /\ OwnStored /\ Got \in Nat /\ xfr.k \in Nat /\ N \in Nat /\ xfr.k <= N + 1
  BY <1>1, OwnFacts DEF Clock, Resting
<1>3. Len(conv.bytes) = Got /\ Len(rx_queue) < RxDepth /\ OwnWord4(conv.bytes)
  BY <1>1, <1>2 DEF OwnStored
<1>4. conv' = [bytes |-> Append(conv.bytes, last_byte), full |-> Len(conv.bytes) = 3]
  <2>1. ~conv_flush
    BY <1>1 DEF conv_flush, to_receiver, BusSide, InOwn
  <2> QED
    BY <1>1, <1>2, <2>1, ConvFills
<1>5. last_byte.v = OwnData
  <2>1. last_byte.v = ByteAt(xfr.plan, xfr.tag, xfr.k - 1)
    <3>1. ~Between /\ xfr.k # 1
      BY <1>1, <1>2, OwnFacts
    <3> QED
      BY <3>1 DEF BusSide
  <2>2. xfr.plan.kind = "own"
    BY <1>1 DEF InOwn
  <2> QED
    BY <2>1, <2>2 DEF ByteAt
<1>6. /\ InOwn' /\ Got' = Got + 1 /\ calm' = 1
      /\ phase' = phase /\ xfr' = xfr /\ (Between' <=> Between)
  BY <1>1, TickGot, TickPlaces
<1>7. conv.bytes \in Seq(Byte) /\ last_byte \in Byte
  BY DEF HandlerTypes, BusTypes
<1>8. /\ Len(conv'.bytes) = Got + 1 /\ conv'.bytes # <<>> /\ OwnWord4(conv'.bytes)
      /\ conv'.full <=> Got = 3
  <2> DEFINE s == Append(conv.bytes, last_byte)
  <2>1. /\ Len(s) = Got + 1 /\ \A j \in 1 .. Got : s[j] = conv.bytes[j]
        /\ s[Got + 1] = last_byte
    BY <1>2, <1>3, <1>7
  <2>2. OwnWord4(s)
    <3>1. \A j \in 1 .. Got : conv.bytes[j].v = OwnData
      BY <1>3 DEF OwnWord4
    <3>2. \A j \in 1 .. Len(s) : j \in 1 .. Got \/ j = Got + 1
      BY <1>2, <2>1
    <3> HIDE DEF s
    <3> QED
      BY <1>5, <2>1, <3>1, <3>2 DEF OwnWord4
  <2>3. s # <<>>
    <3>1. Len(s) # 0
      BY <1>2, <2>1
    <3> HIDE DEF s
    <3> QED
      BY <3>1
  <2> QED
    BY <1>3, <1>4, <2>1, <2>2, <2>3
<1>9. /\ \A i \in 1 .. Len(rx_queue') : rx_queue'[i] # <<>> /\ OwnWord4(rx_queue'[i])
      /\ Len(rx_queue') \in Nat /\ Len(rx_queue') <= Len(rx_queue)
  BY <1>1, <1>2, RestQueue
<1>10. Len(rx_queue) \in Nat /\ RxDepth \in Nat
  BY <1>2, FullFacts
<1>11. Pend' = 1
  BY <1>8 DEF Pend
<1>12. Len(rx_queue') + Pend' <= RxDepth
  <2>1. Len(rx_queue') + 1 <= RxDepth
    BY <1>3, <1>9, <1>10
  <2> QED
    BY <1>11, <2>1
<1>13. ~Between' /\ xfr'.k # 0
  BY <1>1, <1>2, <1>6 DEF Between
<1>14. Len(conv'.bytes) <= 4
  BY <1>1, <1>2, <1>8
<1>15. /\ Got' < 4 <=> Got # 3
       /\ Got' >= 4 <=> Got = 3
  <2>1. PICK g \in Nat : g = Got
    BY <1>2
  <2>2. g < 4 /\ Got' = g + 1
    BY <1>1, <1>6, <2>1
  <2> QED
    BY <2>1, <2>2
<1>16. InOwn' /\ Got' < 4 => Len(rx_queue') < RxDepth /\ Len(conv'.bytes) = Got' /\ ~conv'.full
  BY <1>3, <1>6, <1>8, <1>9, <1>10, <1>15
<1>17. InOwn' /\ Got' >= 4 =>
          (conv'.full <=> calm' = 1) /\ (conv'.full <=> conv'.bytes # <<>>)
  BY <1>6, <1>8, <1>15
<1> QED
  BY <1>6, <1>8, <1>9, <1>12, <1>13, <1>14, <1>16, <1>17 DEF OwnStored

\* The last word of a message is flushed.
LEMMA OwnTickFlush ==
    ASSUME WriteCalls, BusTypes, HandlerTypes, BusSide, Selection, Resting, Tick,
           ~recovery_pending, NEW e, Clock(e, <<>>), last_q, conv.bytes # <<>>
    PROVE  OwnStored'
<1>1. Between /\ calm = 0
  BY DEF BusSide
<1>2. Handler(e) /\ OwnStored
  BY DEF Clock, Resting
<1>3. ~conv.full /\ ~rx_valid
  <2>1. ~conv.full
    BY <1>1, <1>2 DEF OwnStored
  <2>2. xfr.k \in Nat
    BY PlaceFacts
  <2> QED
    BY <1>1, <2>1, <2>2 DEF BusSide, Between
<1>4. conv' = [bytes |-> conv.bytes, full |-> TRUE]
  <2>1. ~data_queue_flow /\ conv_flush
    BY <1>3 DEF data_queue_flow, data_queue_wvalid, conv_flush, to_receiver
  <2> QED
    BY <1>2, <1>3, <2>1, ConvWaits
<1>5. /\ \A i \in 1 .. Len(rx_queue') : rx_queue'[i] # <<>> /\ OwnWord4(rx_queue'[i])
      /\ Len(rx_queue') \in Nat /\ Len(rx_queue') <= Len(rx_queue)
  BY <1>2, <1>3, RestQueue
<1>6. Len(rx_queue) \in Nat /\ RxDepth \in Nat /\ Pend = 1 /\ Pend' = 1
  BY <1>2, <1>4, FullFacts DEF Pend
<1>7. /\ OwnWord4(conv.bytes) /\ Len(conv.bytes) <= 4
      /\ Len(rx_queue) + Pend <= RxDepth
      /\ xfr.plan.kind = "own" /\ phase = "Byte" /\ xfr.k = 0 =>
            Len(rx_queue) + Pend < RxDepth
  BY <1>2 DEF OwnStored
<1>8. /\ phase' = phase /\ xfr' = xfr /\ calm' = 1 /\ Between' /\ ~InOwn'
  BY <1>1, TickPlaces, TickGot DEF InOwn
<1>9. /\ Len(rx_queue') + Pend' <= RxDepth
      /\ xfr'.plan.kind = "own" /\ phase' = "Byte" /\ xfr'.k = 0 =>
            Len(rx_queue') + Pend' < RxDepth
  <2>1. /\ Len(rx_queue') + 1 <= RxDepth
        /\ Len(rx_queue) + 1 < RxDepth => Len(rx_queue') + 1 < RxDepth
    BY <1>5, <1>6, <1>7
  <2> QED
    BY <1>6, <1>7, <1>8, <2>1
<1>10. /\ OwnWord4(conv'.bytes) /\ Len(conv'.bytes) <= 4
       /\ conv'.full /\ conv'.bytes # <<>>
  BY <1>4, <1>7
<1>11. ~(calm' = 0) /\ ~(calm' > 1)
  BY <1>8
<1> QED
  BY <1>5, <1>8, <1>9, <1>10, <1>11 DEF OwnStored

\* A full word goes into the queue.
LEMMA OwnTickFull ==
    ASSUME WriteCalls, BusTypes, HandlerTypes, BusSide, Selection, Resting, Tick,
           ~recovery_pending, NEW e, Clock(e, <<>>), conv.full
    PROVE  OwnStored'
<1>1. Handler(e) /\ OwnStored
  BY DEF Clock, Resting
<1>2. /\ conv.bytes # <<>> /\ calm = 1 /\ Len(rx_queue) < RxDepth
      /\ Len(rx_queue) \in Nat /\ RxDepth \in Nat /\ Pend = 1
  BY <1>1, FullFacts
<1>3. ~rx_valid /\ ~last_q
  BY <1>2 DEF BusSide
<1>4. conv' = [bytes |-> <<>>, full |-> FALSE]
  <2>1. ~data_queue_flow /\ ~conv_flush
    BY <1>3 DEF data_queue_flow, data_queue_wvalid, conv_flush, to_receiver
  <2> QED
    BY <1>1, <1>2, <2>1, ConvWaits
<1>5. /\ \A i \in 1 .. Len(rx_queue') : rx_queue'[i] # <<>> /\ OwnWord4(rx_queue'[i])
      /\ Len(rx_queue') \in Nat /\ Len(rx_queue') <= Len(rx_queue) + 1
  BY <1>1, <1>2, RestQueue
<1>6. /\ Len(rx_queue) + Pend <= RxDepth
      /\ xfr.plan.kind = "own" /\ phase = "Byte" /\ xfr.k = 0 =>
            Len(rx_queue) + Pend < RxDepth
  BY <1>1 DEF OwnStored
<1>7. /\ phase' = phase /\ xfr' = xfr /\ (Between' <=> Between) /\ (InOwn' <=> InOwn)
      /\ InOwn => Got' = Got
      /\ calm' \in Nat /\ calm' >= 2
  BY <1>2, <1>3, TickPlaces, TickGot
<1>8. conv'.bytes = <<>> /\ ~conv'.full /\ Len(conv'.bytes) = 0 /\ Pend' = 0
      /\ OwnWord4(conv'.bytes)
  BY <1>4 DEF Pend, OwnWord4
<1>9. /\ Len(rx_queue') + Pend' <= RxDepth
      /\ xfr'.plan.kind = "own" /\ phase' = "Byte" /\ xfr'.k = 0 =>
            Len(rx_queue') + Pend' < RxDepth
  <2>1. /\ Len(rx_queue') <= RxDepth
        /\ Len(rx_queue) + 1 < RxDepth => Len(rx_queue') < RxDepth
        /\ Len(rx_queue') + 0 = Len(rx_queue')
    BY <1>2, <1>5
  <2> QED
    BY <1>2, <1>6, <1>7, <1>8, <2>1
<1>10. InOwn => ~(Got < 4)
  BY <1>1 DEF OwnStored
<1>11. ~(calm' = 0) /\ ~(calm' = 1) /\ Len(conv'.bytes) <= 4
  BY <1>7, <1>8
<1>12. InOwn' => ~(Got' < 4)
  BY <1>7, <1>10
<1> QED
  BY <1>5, <1>8, <1>9, <1>11, <1>12 DEF OwnStored

\* A clock in a message to the target.
LEMMA OwnTick ==
    ASSUME WriteCalls, BusTypes, HandlerTypes, BusSide, Selection, Resting, Tick,
           ~recovery_pending, NEW e, Clock(e, <<>>)
    PROVE  OwnStored'
<1>1. CASE rx_valid
  BY <1>1, OwnTickByte
<1>2. CASE last_q /\ conv.bytes # <<>>
  BY <1>2, OwnTickFlush
<1>3. CASE conv.full
  BY <1>3, OwnTickFull
<1>4. CASE ~rx_valid /\ (~last_q \/ conv.bytes = <<>>) /\ ~conv.full
  <2>1. Handler(e) /\ OwnStored
    BY DEF Clock, Resting
  <2>2. /\ phase' = phase /\ xfr' = xfr /\ (Between' <=> Between)
    BY TickPlaces
  <2>3. /\ InOwn' <=> InOwn
        /\ InOwn => Got' = Got
        /\ calm \in Nat /\ calm' \in Nat /\ calm' >= 1
        /\ calm = 0 => calm' = 1
        /\ calm >= 1 => calm' >= 2
    BY <1>4, TickGot
  <2>4. xfr'.plan.kind = "own" /\ phase' = "Byte" /\ xfr'.k = 0 =>
           Len(rx_queue) + Pend < RxDepth
    BY <2>1, <2>2 DEF OwnStored
  <2>5. ASSUME InOwn
        PROVE  /\ \/ /\ Got' < 4 /\ Len(rx_queue) < RxDepth
                     /\ Len(conv.bytes) = Got'
                  \/ ~(Got' < 4) /\ calm' # 1 /\ conv.bytes = <<>>
               /\ Got' \in Nat
    <3>1. Got \in Nat /\ (phase = "Bit" => Got < 4) /\ phase \in {"Byte", "Bit"}
          /\ xfr.k \in Nat /\ xfr.k >= 1
      BY <2>5, OwnFacts
    <3>2. CASE Got < 4
      BY <2>1, <2>3, <2>5, <3>1, <3>2 DEF OwnStored
    <3>3. CASE Got >= 4
      <4>1. (conv.full <=> calm = 1) /\ (conv.full <=> conv.bytes # <<>>)
        BY <2>1, <2>5, <3>3 DEF OwnStored
      <4>2. ~(Got < 4)
        BY <3>1, <3>3
      <4>3. phase = "Byte" /\ xfr.k # 1
        BY <3>1, <3>3, <4>2, GotIs
      <4>4. calm # 0
        BY <1>4, <3>1, <4>3 DEF BusSide
      <4>5. calm' # 1
        BY <1>4, <2>3, <4>1, <4>4
      <4> QED
        BY <1>4, <2>3, <2>5, <3>1, <4>1, <4>2, <4>5
    <3> QED
      BY <3>1, <3>2, <3>3
  <2>6. ~(calm' = 0)
    BY <2>3
  <2>7. Between => conv.bytes = <<>>
    <3>1. CASE calm = 0
      BY <1>4, <2>1, <3>1 DEF OwnStored
    <3>2. CASE calm = 1
      BY <1>4, <2>1, <3>2 DEF OwnStored
    <3>3. CASE calm > 1
      BY <2>1, <3>3 DEF OwnStored
    <3> QED
      BY <2>3, <3>1, <3>2, <3>3
  <2>8. ~(Between \/ InOwn) => conv.bytes = <<>>
    BY <2>1 DEF OwnStored
  <2>9. InOwn' => \/ /\ Got' < 4 /\ Len(rx_queue) < RxDepth
                     /\ Len(conv.bytes) = Got'
                  \/ ~(Got' < 4) /\ calm' # 1 /\ conv.bytes = <<>>
    BY <2>3, <2>5
  <2>10. InOwn' => Got' \in Nat
    BY <2>3, <2>5
  <2>11. /\ Between' /\ calm' = 0 /\ conv.bytes # <<>> => last_q'
         /\ Between' /\ ~(calm' = 0) => conv.bytes = <<>>
         /\ ~(Between' \/ InOwn') => conv.bytes = <<>>
    BY <2>2, <2>3, <2>6, <2>7, <2>8
  <2> QED
    BY <1>4, <2>1, <2>3, <2>4, <2>9, <2>10, <2>11, OwnPlaces
<1> QED
  BY <1>1, <1>2, <1>3, <1>4

\* A byte of a message, or of another transfer, comes to its end.
LEMMA OwnByteEnd ==
    ASSUME WriteCalls, BusTypes, HandlerTypes, BusSide, Selection, Resting, ByteEnd,
           ~recovery_pending, NEW e, Clock(e, <<>>)
    PROVE  OwnStored'
<1>1. /\ phase = "Byte" /\ phase' = "Bit" /\ calm >= LongGap /\ calm' = 0
      /\ xfr.k = 0 \/ (xfr.k > 0 /\ xfr.todo # <<>>)
      /\ xfr'.plan = xfr.plan /\ xfr'.k = xfr.k + 1
  BY ByteEndMoves
<1>2. calm \in Nat /\ xfr.k \in Nat /\ N \in Nat /\ calm >= 5
  BY <1>1, PlaceFacts, CallFacts
<1>3. Handler(e) /\ OwnStored
  BY DEF Clock, Resting
<1>4. ~rx_valid /\ ~last_q /\ ~conv.full
  <2>1. ~(calm = 0) /\ ~(calm = 1)
    BY <1>2
  <2>2. ~conv.full
    BY <1>3, <2>1, FullFacts
  <2> QED
    BY <2>1, <2>2 DEF BusSide
<1>5. ~Between' /\ phase' # "Byte" /\ (InOwn' <=> xfr.plan.kind = "own")
  BY <1>1, <1>2 DEF Between, InOwn
<1>6. xfr'.k = 1 => Got' = 0
  BY Zenon DEF Got
<1>7. xfr'.k # 1 => Got' = xfr'.k - 2
  BY <1>5, Zenon DEF Got
<1>8. CASE xfr.k = 0
  <2>1. Between /\ calm > 1
    BY <1>2, <1>8 DEF Between
  <2>2. conv.bytes = <<>>
    BY <1>3, <2>1 DEF OwnStored
  <2>3. Got' = 0
    BY <1>1, <1>6, <1>8
  <2>4. InOwn' => Len(rx_queue) < RxDepth
    <3>1. xfr.plan.kind = "own" => Len(rx_queue) + Pend < RxDepth
      BY <1>1, <1>3, <1>8 DEF OwnStored
    <3>2. Len(rx_queue) \in Nat /\ RxDepth \in Nat /\ Pend \in 0 .. 1
      BY <1>3, FullFacts
    <3> QED
      BY <1>5, <3>1, <3>2
  <2>5. Got' < 4 /\ Len(conv.bytes) = Got' /\ Got' \in Nat /\ calm' \in Nat
    BY <1>1, <2>2, <2>3
  <2> QED
    BY <1>3, <1>4, <1>5, <2>2, <2>4, <2>5, OwnPlaces
<1>9. CASE xfr.k > 0
  <2>1. ~Between
    BY <1>1, <1>9 DEF Between
  <2>2. ASSUME InOwn
        PROVE  /\ Got' < 4 /\ Len(rx_queue) < RxDepth
               /\ Len(conv.bytes) = Got' /\ Got' \in Nat
    <3>1. /\ N <= 4 /\ Size(xfr.plan) = N /\ Got \in Nat
      BY <2>2, OwnFacts
    <3>2. xfr.k <= N
      BY <1>9, <3>1, NextByte
    <3>3. /\ xfr.k = 1 => Got = 0
          /\ xfr.k # 1 => Got = xfr.k - 1
      BY <1>1, <1>2, GotIs
    <3>4. xfr'.k # 1 /\ Got' = xfr.k - 1
      BY <1>1, <1>2, <1>7, <1>9
    <3>5. Got' = Got
      BY <1>2, <3>3, <3>4
    <3>6. Got < 4
      BY <1>2, <1>9, <3>1, <3>2, <3>3
    <3>7. Len(rx_queue) < RxDepth /\ Len(conv.bytes) = Got
      BY <1>3, <2>2, <3>6 DEF OwnStored
    <3> QED
      BY <3>1, <3>5, <3>6, <3>7
  <2>3. InOwn' <=> InOwn
    BY <1>5, <2>1 DEF InOwn
  <2>4. ~InOwn => conv.bytes = <<>>
    BY <1>3, <2>1 DEF OwnStored
  <2>5. calm' \in Nat
    BY <1>1
  <2> QED
    BY <1>3, <1>4, <1>5, <2>2, <2>3, <2>4, <2>5, OwnPlaces
<1> QED
  BY <1>1, <1>8, <1>9

\* The end of a T-bit in a message to the target.
LEMMA OwnBitEnd ==
    ASSUME WriteCalls, BusTypes, HandlerTypes, BusSide, Selection, Resting, BitEnd,
           ~recovery_pending, NEW e, Handler(e)
    PROVE  OwnStored'
<1>1. /\ phase = "Bit" /\ phase' = "Byte" /\ calm >= ShortGap /\ calm' = 0
      /\ xfr'.plan = xfr.plan /\ xfr'.k = xfr.k
  BY BitEndMoves
<1>2. /\ calm \in Nat /\ xfr.k \in Nat /\ N \in Nat /\ calm >= 5 /\ xfr.k > 0
  BY <1>1, PlaceFacts, CallFacts DEF BusSide
<1>3. OwnStored
  BY DEF Resting
<1>4. ~rx_valid /\ ~last_q /\ ~conv.full
  <2>1. ~(calm = 0) /\ ~(calm = 1)
    BY <1>2
  <2>2. ~conv.full
    BY <1>3, <2>1, FullFacts
  <2> QED
    BY <2>1, <2>2 DEF BusSide
<1>5. ~Between /\ ~Between' /\ (InOwn' <=> InOwn) /\ xfr'.k # 0
  BY <1>1, <1>2 DEF Between, InOwn
<1>6. Got' = Got
  <2>1. /\ xfr.k = 1 => Got = 0
        /\ xfr.k # 1 => Got = xfr.k - 2
    BY <1>1, GotIs
  <2>2. xfr'.k = 1 => Got' = 0
    BY Zenon DEF Got
  <2>3. xfr'.k # 1 => Got' = xfr'.k - 2
    <3>1. ~(calm' > 0)
      BY <1>1
    <3> QED
      BY <3>1, Zenon DEF Got
  <2> QED
    BY <1>1, <2>1, <2>2, <2>3
<1>7. InOwn => /\ Got < 4 /\ Got \in Nat /\ Len(rx_queue) < RxDepth
               /\ Len(conv.bytes) = Got
  <2>1. InOwn => Got < 4 /\ Got \in Nat
    BY <1>1, OwnFacts
  <2> QED
    BY <1>3, <2>1 DEF OwnStored
<1>8. ~InOwn => conv.bytes = <<>>
  BY <1>3, <1>5 DEF OwnStored
<1>9. calm' \in Nat
  BY <1>1
<1> QED
  BY <1>3, <1>4, <1>5, <1>6, <1>7, <1>8, <1>9, OwnPlaces

\* A transfer ends: the last word of a message is marked.
LEMMA OwnEnds ==
    ASSUME WriteCalls, BusTypes, HandlerTypes, BusSide, Selection, Resting,
           ~recovery_pending, NEW e, Handler(e),
           (phase = "Quiet" /\ calm >= ShortGap) \/ MayEnd,
           Starts(e) \/ Stops(e),
           Between', calm' = 0,
           xfr'.plan.kind = "own" /\ phase' = "Byte" => HasRoom
    PROVE  OwnStored'
<1>1. /\ ~rx_valid /\ ~last_q /\ ~conv.full /\ OwnStored
      /\ conv.bytes # <<>> => fsm = "RxPWriteData"
  BY RestEnds DEF Resting
<1>2. conv.bytes # <<>> => last_q'
  <2> SUFFICES ASSUME fsm = "RxPWriteData" PROVE last_q'
    BY <1>1
  <2>1. fsm_next(e) \in {"RxFByte", "Idle"}
    <3>1. CASE Starts(e)
      BY <3>1, FsmStarts
    <3>2. CASE Stops(e)
      <4>1. fsm \in Places
        BY PlaceFacts
      <4> QED
        BY <3>2, <4>1, FsmStops
    <3> QED
      BY <3>1, <3>2
  <2>2. ~e.perr /\ ~parity_err
    BY DEF Starts, Stops, BusSide
  <2> QED
    BY <2>1, <2>2, FrontClock
<1>3. xfr'.plan.kind = "own" /\ phase' = "Byte" /\ xfr'.k = 0 =>
         Len(rx_queue) + Pend < RxDepth
  <2>1. Len(rx_queue) \in Nat /\ RxDepth \in Nat /\ Pend \in 0 .. 1
    BY <1>1, FullFacts
  <2>2. HasRoom => Len(rx_queue) + Pend < RxDepth
    BY <2>1 DEF HasRoom
  <2> QED
    BY <2>2
<1>4. ~InOwn' /\ calm' \in Nat
  BY DEF InOwn
<1> QED
  BY <1>1, <1>2, <1>3, <1>4, OwnPlaces

\* Rest is kept when what is stored is the message.
LEMMA RestsOn ==
    ASSUME WriteCalls, BusTypes, HandlerTypes, BusSide, Resting, ~recovery_pending,
           ~(Writing /\ phase # "Quiet"),
           NEW e, Clock(e, <<>>), e.sw_req => MayRead,
           OwnStored', ~(Writing' /\ phase' # "Quiet")
    PROVE  Resting'
<1>1. ~(AtAck /\ calm = 0 /\ Writing)
  BY DEF AtAck
<1>2. /\ recv' \in {"Idle", "RxCmd"} /\ queue_select' /\ ExecIdle' /\ owed' = <<>>
      /\ PortIdle' \/ (sw_busy' /\ (port'.ack = <<>> \/ ~port'.rready))
      /\ ~recovery_pending'
  BY <1>1, RestClock
<1>3. Writing' => Between'
  BY DEF Between
<1> QED
  BY <1>2, <1>3 DEF Resting

\* Rest is left with the header of a command only.
LEMMA RestingStep ==
    ASSUME WriteCalls, BusTypes, HandlerTypes, BusSide, Selection, Resting, Next
    PROVE  Opening' \/ Resting'
<1>1. CASE Tick /\ AtAck /\ calm = 0 /\ Writing
  BY <1>1, OpensOnHeader
<1>2. CASE /\ ~(Tick /\ AtAck /\ calm = 0 /\ Writing)
           /\ recovery_pending \/ (Writing /\ phase # "Quiet")
  BY <1>2, RestsPending
<1>3. CASE ~recovery_pending /\ ~(Writing /\ phase # "Quiet")
  <2>1. CASE Tick
    <3>1. PICK e : Clock(e, <<>>) /\ (e.sw_req => MayRead)
      BY <2>1, TickEvent
    <3>2. OwnStored'
      BY <1>3, <2>1, <3>1, OwnTick
    <3>3. ~(Writing' /\ phase' # "Quiet")
      BY <1>3, <2>1, TickPlaces
    <3> QED
      BY <1>3, <3>1, <3>2, <3>3, RestsOn
  <2>2. CASE ByteEnd
    <3>1. /\ phase = "Byte" /\ xfr'.plan = xfr.plan
          /\ \E e : Clock(e, <<>>) /\ Dones(e)
      BY <2>2, ByteEndMoves
    <3>2. PICK e : Clock(e, <<>>) /\ ~e.sw_req
      BY <3>1 DEF Dones
    <3>3. OwnStored'
      BY <1>3, <2>2, <3>2, OwnByteEnd
    <3>4. ~Writing'
      BY <1>3, <3>1 DEF Writing
    <3> QED
      BY <1>3, <3>2, <3>3, <3>4, RestsOn
  <2>3. CASE BitEnd
    <3>1. phase = "Bit" /\ xfr'.plan = xfr.plan
      BY <2>3, BitEndMoves
    <3>2. ~Writing /\ ~Writing'
      BY <1>3, <3>1 DEF Writing
    <3>3. PICK e : Clock(e, <<>>) /\ ~e.sw_req
      BY <2>3, <3>2, BitEndEvent DEF Dones, Writing
    <3>4. OwnStored'
      BY <1>3, <2>3, <3>3, OwnBitEnd DEF Clock
    <3> QED
      BY <1>3, <3>2, <3>3, <3>4, RestsOn
  <2>4. CASE START \/ RepeatedStart
    <3>1. PICK p : Begins(p) /\ Clock(StartEvent, <<>>)
      BY <2>4, StartBegins, RepeatedStartBegins
    <3>2. CASE p.kind = "write"
      BY <3>1, <3>2, RestsWrite
    <3>3. CASE p.kind # "write"
      <4>1. xfr'.plan = p /\ xfr'.k = 0
        BY <3>1, BeginTypes
      <4>2. /\ calm' = 0 /\ Follows(p)
            /\ (phase = "Quiet" /\ calm >= ShortGap) \/ MayEnd
        BY <3>1 DEF Begins
      <4>3. Between' /\ ~Writing'
        BY <3>3, <4>1 DEF Between, Writing
      <4>4. xfr'.plan.kind = "own" /\ phase' = "Byte" => HasRoom
        BY <4>1, <4>2 DEF Follows
      <4>5. Starts(StartEvent) /\ ~StartEvent.sw_req /\ Handler(StartEvent)
        BY <3>1, StartsEvent DEF Starts, Clock
      <4>6. OwnStored'
        BY <1>3, <4>2, <4>3, <4>4, <4>5, OwnEnds
      <4> QED
        BY <1>3, <3>1, <4>3, <4>5, <4>6, RestsOn
    <3> QED
      BY <3>2, <3>3
  <2>5. CASE STOP
    <3>1. Clock(StopEvent, <<>>) /\ MayEnd /\ phase' = "Quiet" /\ calm' = 0
      BY <2>5 DEF STOP, StopEvent
    <3>2. Between'
      BY <3>1 DEF Between
    <3>3. Stops(StopEvent) /\ ~StopEvent.sw_req /\ Handler(StopEvent)
      BY <3>1, StopsEvent DEF Stops, Clock
    <3>4. ~(xfr'.plan.kind = "own" /\ phase' = "Byte")
      BY <3>1
    <3>5. OwnStored'
      BY <1>3, <3>1, <3>2, <3>3, <3>4, OwnEnds
    <3> QED
      BY <1>3, <3>1, <3>3, <3>5, RestsOn
  <2> QED
    BY <2>1, <2>2, <2>3, <2>4, <2>5 DEF Next
<1> QED
  BY <1>1, <1>2, <1>3

-----------------------------------------------------------------------------
(* The invariant. *)

\* A byte is taken in the clock in which it is there.
LEMMA BytesTaken ==
    ASSUME WriteCalls, BusTypes, HandlerTypes, BusSide, Selection, Stages, rx_valid
    PROVE  (Cutting \/ Resting) /\ rx_wready
<1>1. phase = "Byte" /\ xfr.k > 1 /\ calm = 0 /\ xfr.k \in Nat
  BY PlaceFacts DEF BusSide
<1>2. ~Opening
  BY <1>1 DEF Opening, AtAck
<1>3. ~Handing
  BY <1>1 DEF Handing
<1>4. ~Executing
  BY ExecutingFacts
<1>5. Cutting \/ Resting
  BY <1>2, <1>3, <1>4 DEF Stages
<1> QED
  BY <1>5, CuttingReady, RestReady

\* Every action is a clock of the handler.
LEMMA NextHandler ==
    ASSUME Next, WriteCalls, BusTypes, BusSide
    PROVE  \E e : Handler(e)
<1>1. CASE Tick
  BY <1>1, TickEvent DEF Clock
<1>2. CASE START \/ RepeatedStart
  BY <1>2, StartBegins, RepeatedStartBegins DEF Clock
<1>3. CASE ByteEnd
  BY <1>3, ByteEndEvent DEF Clock
<1>4. CASE BitEnd
  BY <1>4, BitEndEvent DEF Clock
<1>5. CASE STOP
  BY <1>5 DEF STOP, Clock
<1> QED
  BY <1>1, <1>2, <1>3, <1>4, <1>5 DEF Next

\* From each stage a step leads to that stage or to the next.
LEMMA StagesStep ==
    ASSUME WriteCalls, BusTypes, HandlerTypes, BusSide, Selection, Stages, Next
    PROVE  Stages'
<1>1. CASE Opening
  BY <1>1, OpeningStep DEF Stages
<1>2. CASE Cutting
  BY <1>2, CuttingStep DEF Stages
<1>3. CASE Handing
  BY <1>3, HandingStep DEF Stages
<1>4. CASE Executing
  BY <1>4, ExecutingStep DEF Stages
<1>5. CASE Resting
  BY <1>5, RestingStep DEF Stages
<1> QED
  BY <1>1, <1>2, <1>3, <1>4, <1>5 DEF Stages

\* The invariant holds after every action.
LEMMA WriteInvStep ==
    ASSUME WriteCalls, WriteInv, Next
    PROVE  WriteInv'
<1>1. BusTypes /\ HandlerTypes /\ BusSide /\ Selection /\ Stages
  BY DEF WriteInv
<1>2. rx_valid => rx_wready
  BY <1>1, BytesTaken
<1>3. BusTypes' /\ BusSide'
  BY <1>1, <1>2, BusStep
<1>4. HandlerTypes'
  BY <1>1, NextHandler, HandlerTypesStep
<1>5. Selection'
  BY <1>1, SelectionStep
<1>6. Stages'
  BY <1>1, StagesStep
<1> QED
  BY <1>3, <1>4, <1>5, <1>6 DEF WriteInv

\* It holds initially.
LEMMA WriteInvInit ==
    ASSUME WriteCalls, Init
    PROVE  WriteInv
<1>1. /\ phase = "Quiet" /\ calm = LongGap /\ xfr = NoTransfer /\ sw_busy = FALSE
      /\ owed = <<>> /\ HandlerInit
  BY DEF Init
<1>2. LongGap \in Nat /\ LongGap >= 5 /\ RxDepth \in Nat /\ RxDepth >= 1
  BY CallFacts
<1>3. /\ xfr.plan = NoTransfer.plan /\ xfr.plan.kind = "other" /\ xfr.k = 0
      /\ xfr.todo = <<>>
  BY <1>1 DEF NoTransfer, Plan
<1>4. Between /\ ~AtAck /\ ~Writing /\ ~InOwn /\ ~Fin
  BY <1>1, <1>3 DEF Between, AtAck, Writing, InOwn, Fin
<1>5. BusTypes
  <2>1. xfr \in [plan : AllPlans, tag : {1, 2}, todo : Seq(Nat), k : Nat,
                 over : BOOLEAN, expected : BOOLEAN]
    BY <1>1 DEF NoTransfer, AllPlans
  <2>2. last_byte \in Byte
    BY <1>1 DEF HandlerInit, NoByte, Byte
  <2>3. calm \in 0 .. LongGap
    BY <1>1, <1>2
  <2> QED
    BY <1>1, <2>1, <2>2, <2>3 DEF BusTypes
<1>6. HandlerTypes
  <2>1. hdr \in [cmd : Byte, lsb : Nat, msb : Nat, pec : Nat]
    BY <1>1 DEF HandlerInit, ReceiverInit, NoByte, Byte
  <2>2. conv \in [bytes : Seq(Byte), full : BOOLEAN]
    BY <1>1 DEF HandlerInit
  <2>3. rx_queue \in Seq(Seq(Byte))
    BY <1>1 DEF HandlerInit
  <2>4. payload_left \in Nat /\ payload_left < 65536 /\ mode_enter \in 0 .. 2
    BY <1>1 DEF HandlerInit, ReceiverInit
  <2>5. virtual_sel \in BOOLEAN
    BY <1>1 DEF HandlerInit
  <2>6. xfer_in_progress \in BOOLEAN
    BY <1>1 DEF HandlerInit
  <2> QED
    BY ONLY <2>1, <2>2, <2>3, <2>4, <2>5, <2>6 DEF HandlerTypes
<1>7. BusSide
  <2>1. FsmAt
    BY <1>1, <1>4 DEF FsmAt, HandlerInit, FsmInit
  <2>2. Size(xfr.plan) = 0 /\ SentBytes = 0
    BY <1>3 DEF Size, SentBytes
  <2>3. rx_valid = FALSE /\ parity_err = FALSE /\ last_q = FALSE
    BY <1>1 DEF HandlerInit
  <2>4. Len(xfr.todo) = 0
    BY <1>3
  <2> QED
    BY <1>1, <1>3, <1>4, <2>1, <2>2, <2>3, <2>4 DEF BusSide
<1>8. Selection
  BY <1>1, <1>4 DEF Selection, Checked, HandlerInit
<1>9. Resting
  <2>1. /\ rx_queue = <<>> /\ conv.bytes = <<>> /\ conv.full = FALSE
        /\ Len(rx_queue) = 0 /\ Len(conv.bytes) = 0
    BY <1>1 DEF HandlerInit
  <2>2. OwnStored
    <3>1. OwnWord4(conv.bytes) /\ Pend = 0
      BY <2>1 DEF OwnWord4, Pend
    <3>2. phase # "Byte" /\ calm # 0 /\ calm # 1
      BY <1>1, <1>2
    <3> QED
      BY <1>2, <1>4, <2>1, <3>1, <3>2 DEF OwnStored
  <2>3. ExecIdle /\ PortIdle
    BY <1>1 DEF HandlerInit, ExecutorInit, ReceiverInit, NoCommand, ExecIdle, PortIdle
  <2>4. ~recovery_pending
    BY <1>1 DEF HandlerInit, recovery_pending
  <2>5. recv \in {"Idle", "RxCmd"} /\ queue_select
    BY <1>1 DEF HandlerInit, ReceiverInit
  <2> QED
    BY <1>1, <1>4, <2>2, <2>3, <2>4, <2>5 DEF Resting
<1> QED
  BY <1>5, <1>6, <1>7, <1>8, <1>9 DEF WriteInv, Stages

\* A stuttering step, variable by variable.
LEMMA Unchanged ==
    ASSUME UNCHANGED vars
    PROVE  /\ phase' = phase /\ calm' = calm /\ xfr' = xfr /\ sw_busy' = sw_busy
           /\ owed' = owed /\ current' = current
           /\ fsm' = fsm /\ bus_addr' = bus_addr
           /\ recv' = recv /\ data_ready' = data_ready /\ queue_select' = queue_select
           /\ queue_flush' = queue_flush /\ payload_left' = payload_left /\ hdr' = hdr
           /\ pec_calc' = pec_calc /\ recv_cmd_valid' = recv_cmd_valid
           /\ recv_is_rd' = recv_is_rd
           /\ exec' = exec /\ dcnt' = dcnt /\ csr_sel' = csr_sel /\ csr_end' = csr_end
           /\ rreq' = rreq
           /\ virtual_sel' = virtual_sel /\ xfer_in_progress' = xfer_in_progress
           /\ last_byte' = last_byte /\ rx_valid' = rx_valid /\ parity_err' = parity_err
           /\ last_q' = last_q /\ exec_pending' = exec_pending
           /\ mode_enter' = mode_enter /\ conv' = conv /\ rx_queue' = rx_queue
           /\ port' = port /\ exec_cmd' = exec_cmd /\ rx_crc' = rx_crc
BY DEF vars, busVars, allVars, fsmVars, recvVars, execVars, handlerVars

\* The invariant holds after a stuttering step.
LEMMA WriteInvStutter ==
    ASSUME WriteInv, UNCHANGED vars
    PROVE  WriteInv'
<1>1. BusTypes' /\ HandlerTypes'
  BY Unchanged DEF WriteInv, BusTypes, HandlerTypes
<1>2. /\ (Between' <=> Between) /\ (AtAck' <=> AtAck) /\ (Writing' <=> Writing)
      /\ (ForUs' <=> ForUs) /\ N' = N /\ SentBytes' = SentBytes
      /\ (InOwn' <=> InOwn) /\ (Checked' <=> Checked) /\ (Fin' <=> Fin)
  BY Unchanged DEF Between, AtAck, Writing, ForUs, N, SentBytes, InOwn, Checked, Fin
<1>3. Got' = Got /\ Elapsed' = Elapsed /\ Pend' = Pend /\ TimeLeft' = TimeLeft
  <2>1. Got' = Got
    BY Unchanged DEF Got
  <2>2. Elapsed' = Elapsed
    BY <1>2, Unchanged DEF Elapsed
  <2>3. Pend' = Pend
    BY Unchanged DEF Pend
  <2>4. TimeLeft' = TimeLeft
    BY Unchanged DEF TimeLeft
  <2> QED
    BY <2>1, <2>2, <2>3, <2>4
<1>4. (ExecIdle' <=> ExecIdle) /\ (PortIdle' <=> PortIdle) /\ (Empty' <=> Empty)
      /\ (recovery_pending' <=> recovery_pending)
  BY Unchanged DEF ExecIdle, PortIdle, Empty, recovery_pending
<1>5. BusSide'
  <2>1. FsmAt'
    BY <1>2, Unchanged DEF WriteInv, BusSide, FsmAt
  <2> QED
    BY <1>2, <2>1, Unchanged DEF WriteInv, BusSide
<1>6. Selection'
  BY <1>2, Unchanged DEF WriteInv, Selection
<1>7. ASSUME NEW pay, Stored(pay) PROVE Stored(pay)'
  BY <1>2, <1>7, Unchanged DEF Stored
<1>8. ASSUME Opening PROVE Opening'
  BY <1>2, <1>4, <1>8, Unchanged DEF Opening
<1>9. ASSUME Cutting PROVE Cutting'
  <2>1. RecvAt(Got)' /\ HeaderGot(Got)'
    BY <1>2, <1>3, <1>9, Unchanged DEF Cutting, RecvAt, HeaderGot
  <2>2. Stored(IF Got <= 3 THEN 0 ELSE IF Got <= N + 3 THEN Got - 3 ELSE N)'
    BY <1>2, <1>3, <1>7, <1>9, Unchanged DEF Cutting, Stored
  <2> QED
    BY <1>2, <1>3, <1>4, <1>9, <2>1, <2>2, Unchanged DEF Cutting
<1>10. ASSUME Handing PROVE Handing'
  <2>1. HeaderGot(3)' /\ Stored(N)'
    BY <1>2, <1>7, <1>10, Unchanged DEF Handing, HeaderGot, Stored
  <2> QED
    BY <1>2, <1>4, <1>10, <2>1, Unchanged DEF Handing
<1>11. ASSUME Executing PROVE Executing'
  <2>1. ASSUME NEW q, WordsLeft(q) PROVE WordsLeft(q)'
    BY <2>1, Unchanged DEF WordsLeft
  <2>2. Moving => Moving'
    BY <1>4, <2>1, Unchanged DEF Moving, WordsLeft
  <2>3. Foreign => Foreign'
    BY Unchanged DEF Foreign
  <2>4. Carrying'
    BY <1>4, <1>11, <2>2, <2>3, Unchanged DEF Executing, Carrying
  <2> QED
    BY <1>2, <1>3, <1>11, <2>4, Unchanged DEF Executing
<1>12. ASSUME Resting PROVE Resting'
  <2>1. OwnStored'
    BY <1>2, <1>3, <1>12, Unchanged DEF Resting, OwnStored
  <2> QED
    BY <1>2, <1>4, <1>12, <2>1, Unchanged DEF Resting
<1> QED
  BY <1>1, <1>5, <1>6, <1>8, <1>9, <1>10, <1>11, <1>12 DEF WriteInv, Stages

\* Receiver, executor and queue are where the transfer on the bus puts them, for
\* every set of write plans, every depth of the queue, and both modes.
THEOREM WritesInvariance ==
    ASSUME WriteCalls
    PROVE  Spec => []WriteInv
<1>1. Init => WriteInv
  BY WriteInvInit
<1>2. WriteInv /\ [Next]_vars => WriteInv'
  BY WriteInvStep, WriteInvStutter
<1> QED
  BY <1>1, <1>2, PTL DEF Spec

\* The executor takes a command up in one clock only, with what the receiver
\* has cut of the transfer before.
THEOREM CommandsTaken ==
    ASSUME WriteCalls
    PROVE  Spec => []ExactlyTheCommands
<1>1. ASSUME WriteInv PROVE ExactlyTheCommands
  <2>1. BusTypes /\ HandlerTypes /\ BusSide /\ Selection /\ Stages
    BY <1>1 DEF WriteInv
  <2>2. xfr.k \in Nat /\ calm \in Nat /\ N \in Nat
    BY <2>1, PlaceFacts
  <2>3. ASSUME phase = "Byte", xfr.k = 1 PROVE owed = <<>>
    <3>1. ~Fin
      BY <2>2, <2>3 DEF Fin
    <3> QED
      BY <2>1, <3>1
         DEF Stages, Opening, Cutting, Handing, Executing, Carrying, Resting
  <2>4. ASSUME TakesCommand
        PROVE  /\ owed = <<[plan |-> xfr.plan, tag |-> xfr.tag]>>
               /\ exec_cmd = [valid |-> TRUE, is_rd |-> FALSE, cmd |-> xfr.plan.cmd,
                              f |-> xfr.tag, len |-> N, error |-> ~xfr.plan.good]
               /\ xfr.plan.kind = "write"
    <3>1. Handing
      BY <2>1, <2>4
         DEF TakesCommand, Stages, Opening, Cutting, ExecIdle, Executing, Carrying,
             Resting
    <3>2. calm = 3
      BY <2>4, <3>1 DEF TakesCommand, Handing
    <3> QED
      BY <3>1, <3>2 DEF Handing, Fin, Writing
  <2>5. ASSUME TakesCommand
        PROVE  /\ owed # <<>>
               /\ owed[1].tag = exec_cmd.f /\ owed[1].plan.cmd = exec_cmd.cmd
               /\ owed[1].plan.kind = "write" /\ exec_cmd.is_rd = FALSE
               /\ exec_cmd.error = ~owed[1].plan.good
               /\ exec_cmd.len = owed[1].plan.n
    <3>1. owed # <<>> /\ owed[1] = [plan |-> xfr.plan, tag |-> xfr.tag]
      BY <2>4, <2>5
    <3>2. owed[1].plan = xfr.plan /\ owed[1].tag = xfr.tag
      BY <3>1
    <3> DEFINE bad == ~xfr.plan.good
    <3>3. exec_cmd = [valid |-> TRUE, is_rd |-> FALSE, cmd |-> xfr.plan.cmd,
                      f |-> xfr.tag, len |-> N, error |-> bad]
      BY <2>4, <2>5
    <3> HIDE DEF bad
    <3>4. /\ exec_cmd.is_rd = FALSE /\ exec_cmd.cmd = xfr.plan.cmd
          /\ exec_cmd.f = xfr.tag /\ exec_cmd.len = N /\ exec_cmd.error = bad
      BY <3>3
    <3>5. exec_cmd.error = ~owed[1].plan.good
      BY <3>2, <3>4, Zenon DEF bad
    <3> QED
      BY <2>4, <2>5, <3>1, <3>2, <3>4, <3>5, Zenon DEF N
  <2>6. ASSUME TakesCommand
        PROVE  exec_cmd.is_rd = (owed[1].plan.kind = "read")
    BY <2>5, <2>6
  <2> QED
    BY <2>3, <2>5, <2>6 DEF ExactlyTheCommands
<1> QED
  BY <1>1, WritesInvariance, PTL

\* The queue answers the executor only in the middle of a command.
LEMMA QueueAnswers ==
    ASSUME WriteCalls, WriteInv, exec_rack # <<>>
    PROVE  /\ Carrying /\ Moving
           /\ exec_rack = <<WordOf(current.plan, current.tag,
                                   Words(current.plan.n) - dcnt)>>
<1>1. Stages
  BY DEF WriteInv
<1>2. recovery_pending /\ exec_rack = port.ack
  BY DEF exec_rack
<1>3. ~PortIdle
  BY <1>2 DEF PortIdle
<1>4. ~Resting
  BY <1>2, <1>3 DEF Resting, Empty
<1>5. Executing
  BY <1>1, <1>3, <1>4 DEF Stages, Opening, Cutting, Handing
<1>6. Carrying /\ Moving
  BY <1>3, <1>5 DEF Executing, Carrying
<1>7. port.ack = <<WordOf(current.plan, current.tag, Words(current.plan.n) - dcnt)>>
  <2>1. port # [rready |-> TRUE, ack |-> <<>>]
    BY <1>2
  <2> QED
    BY <1>3, <1>6, <2>1 DEF Moving
<1> QED
  BY <1>2, <1>6, <1>7

\* The words of a payload are those that PayloadIsOwn asks for.
LEMMA OwnWords ==
    ASSUME WriteCalls, Carrying, Moving
    PROVE  /\ WordOf(current.plan, current.tag, Words(current.plan.n) - dcnt)
                  = OwnWord(Words(current.plan.n) - dcnt)
           /\ \A j \in DOMAIN WordOf(current.plan, current.tag, Words(current.plan.n) - dcnt) :
                 WordOf(current.plan, current.tag,
                        Words(current.plan.n) - dcnt)[j].v = current.plan.cmd
<1>1. current.plan.good
  BY DEF Moving
<1>2. PICK n \in Nat : n = current.plan.n
  BY MovingFacts
<1>3. PICK i \in Nat : i = Words(current.plan.n) - dcnt
  <2>1. Words(current.plan.n) \in Nat /\ dcnt \in 1 .. Words(current.plan.n)
    BY MovingFacts
  <2> QED
    BY <2>1
<1>4. ValueOf(current.plan) = current.plan.cmd
  BY <1>1 DEF ValueOf
<1>5. Min2(5 + 4 * i + 3, 4 + n) - (5 + 4 * i) + 1 = Min2(4, n - 4 * i)
  BY DEF Min2
<1>6. ASSUME NEW j \in 1 .. Min2(4, n - 4 * i)
      PROVE  5 + 4 * i + j - 1 = 4 + (4 * i + j)
  <2>1. j \in Int
    BY DEF Min2
  <2> QED
    BY <2>1
<1>7. OwnWord(i) = [j \in 1 .. Min2(4, n - 4 * i) |->
                      [f |-> current.tag, k |-> 5 + 4 * i + j - 1, v |-> current.plan.cmd]]
  BY <1>2, <1>5 DEF OwnWord
<1>8. WordOf(current.plan, current.tag, i)
        = [j \in 1 .. Min2(4, n - 4 * i) |->
             [f |-> current.tag, k |-> 4 + (4 * i + j), v |-> current.plan.cmd]]
  BY <1>2, <1>4 DEF WordOf, WordLen, PayByte
<1>9. OwnWord(i) = WordOf(current.plan, current.tag, i)
  BY <1>6, <1>7, <1>8
<1>10. \A j \in DOMAIN WordOf(current.plan, current.tag, i) :
          WordOf(current.plan, current.tag, i)[j].v = current.plan.cmd
  BY <1>8
<1> QED
  BY <1>3, <1>9, <1>10

\* The executor gets the words of its own command, in order, and no others.
THEOREM PayloadsKept ==
    ASSUME WriteCalls
    PROVE  Spec => []PayloadIsOwn
<1>1. ASSUME WriteInv PROVE PayloadIsOwn
  <2> SUFFICES ASSUME exec_rack # <<>>
               PROVE  /\ exec \in {"CsrWrite", "FifoWrite"}
                      /\ exec_rack[1] = OwnWord(Words(current.plan.n) - dcnt)
    BY DEF PayloadIsOwn
  <2>1. /\ Carrying /\ Moving
        /\ exec_rack[1] = WordOf(current.plan, current.tag, Words(current.plan.n) - dcnt)
    BY <1>1, QueueAnswers
  <2> QED
    BY <2>1, OwnWords, MovingFacts
<1> QED
  BY <1>1, WritesInvariance, PTL

\* A CSR is written only by a command that has a good PEC, is allowed, and names
\* it, with the payload of that command.
THEOREM WritesAllowed ==
    ASSUME WriteCalls
    PROVE  Spec => []WritesJustified
<1>1. ASSUME WriteInv PROVE WritesJustified
  <2> SUFFICES ASSUME NEW s \in csr_written(exec_rack), NEW j \in DOMAIN exec_rack[1]
               PROVE  LET c == exec_rack[1][j].v
                      IN  /\ s \in CsrsOf(c)[1] .. CsrsOf(c)[2]
                          /\ RecoveryMode \/ c <= 39
    BY DEF WritesJustified
  <2>1. exec_rack # <<>> /\ s = csr_sel
    BY DEF csr_written
  <2>2. /\ Carrying /\ Moving
        /\ exec_rack[1] = WordOf(current.plan, current.tag, Words(current.plan.n) - dcnt)
    BY <1>1, <2>1, QueueAnswers
  <2>3. exec_rack[1][j].v = current.plan.cmd
    BY <2>2, OwnWords
  <2>4. /\ csr_sel \in CsrsOf(current.plan.cmd)[1] .. CsrsOf(current.plan.cmd)[2]
        /\ RecoveryMode \/ current.plan.cmd <= 39
    BY <2>2 DEF Moving, Allowed
  <2> QED
    BY <2>1, <2>3, <2>4
<1> QED
  BY <1>1, WritesInvariance, PTL

\* The handler never takes a byte of a private write to the target.
THEOREM OwnPassesBy ==
    ASSUME WriteCalls
    PROVE  Spec => []NormalBypass
<1>1. ASSUME WriteInv PROVE NormalBypass
  <2> SUFFICES ASSUME rx_valid, bus_addr.addr = "ours" PROVE ~recovery_pending
    BY DEF NormalBypass
  <2>1. BusTypes /\ HandlerTypes /\ BusSide /\ Selection /\ Stages
    BY <1>1 DEF WriteInv
  <2>2. CASE Cutting
    <3>1. Writing /\ ~Between
      BY <2>2 DEF Cutting, Checked
    <3>2. bus_addr.addr = "virtual"
      BY <2>1, <3>1, PlaceFacts
    <3> QED
      BY <3>2
  <2>3. CASE Resting
    BY <2>1, <2>3, RestReady
  <2> QED
    BY <2>1, <2>2, <2>3, BytesTaken
<1> QED
  BY <1>1, WritesInvariance, PTL
=============================================================================
