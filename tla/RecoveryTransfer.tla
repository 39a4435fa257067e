-------------------------- MODULE RecoveryTransfer --------------------------
(***************************************************************************)
(* The recovery handler with the bus and the software around it.  A        *)
(* controller sends recovery commands to the virtual target, reads their   *)
(* responses, and sends private writes to the target itself, which         *)
(* software reads from RX_DATA.  The controller keeps to the protocol, but *)
(* for the habits in Habits:                                               *)
(*   "cut"        a write command ends before its last byte,               *)
(*   "shorten"    a response is not read to its end,                       *)
(*   "leave"      a read command is followed by another transfer,          *)
(*   "parity"     a byte has a wrong T-bit,                                *)
(*   "undrained"  it addresses the virtual target before software read RX_DATA.*)
(* Commands are told apart by tags 1 and 2, used in turn; another transfer  *)
(* has the tag of the command before it.                                   *)
(***************************************************************************)
EXTENDS RecoveryHandler, SequencesExt

CONSTANTS
    Plans,     \* the transfers of the controller
    Habits,
    ShortGap,  \* clocks between two events on the bus, at least
    LongGap    \* clocks of a byte, at least

VARIABLES
    phase,     \* "Quiet", or in a transfer "Byte" or "Bit" (ACK or T)
    calm,      \* clocks since the last event, up to LongGap
    xfr,       \* the transfer: its plan, tag, bytes to send, bytes done
    sw_busy,   \* software waits for RX_DATA
    owed,      \* the command that was sent and not yet taken up, if any
    current,   \* the command taken up last
    out        \* the bytes of the response that the target FSM took

busVars == <<phase, calm, xfr, sw_busy, owed, current, out>>
vars == <<allVars, busVars>>

\* A plan: kind, and for the commands the code, the length, and is the PEC good.
\* The kinds are "write" and "read" (commands), "response", "own" (a private
\* write to the target), "other" and "broadcast" (the 7E header alone).
Plan(kind, cmd, n, good) == [kind |-> kind, cmd |-> cmd, n |-> n, good |-> good]
NoTransfer ==
    [plan |-> Plan("other", 0, 0, TRUE), tag |-> 2, todo |-> <<>>, k |-> 0,
     over |-> TRUE, expected |-> FALSE]
NoCmd == [plan |-> Plan("other", 0, 0, TRUE), tag |-> 0]

Init == /\ HandlerInit
        /\ phase = "Quiet" /\ calm = LongGap /\ xfr = NoTransfer
        /\ sw_busy = FALSE /\ owed = <<>> /\ current = NoCmd /\ out = <<>>

-----------------------------------------------------------------------------
HeaderOf(p) ==
    CASE p.kind = "broadcast" -> Broadcast
      [] p.kind = "own" -> [addr |-> "ours", rnw |-> FALSE]
      [] p.kind = "other" -> [addr |-> "other", rnw |-> FALSE]
      [] OTHER -> [addr |-> "virtual", rnw |-> p.kind = "response"]

OwnData == 0
BadPec == 998
\* The bytes of a payload show whether a command with a good PEC sent them.
Payload(p) == [j \in 1 .. p.n |-> IF p.good THEN p.cmd ELSE 1]
BytesOf(p, tag) ==
    CASE p.kind = "write" ->
            <<p.cmd, p.n % 256, p.n \div 256>> \o Payload(p)
            \o <<IF p.good THEN Crc(tag, p.n + 4) ELSE BadPec>>
      [] p.kind = "read" -> <<p.cmd, IF p.good THEN Crc(tag, 2) ELSE BadPec>>
      [] p.kind = "own" -> [j \in 1 .. p.n |-> OwnData]
      [] OTHER -> <<>>

Allowed(p) == p.cmd \in 34 .. 47 /\ (RecoveryMode \/ p.cmd <= 39)
\* Software has read the messages to the target.
Drained ==
    /\ ~sw_busy
    /\ \A w \in {conv.bytes} \union ToSet(rx_queue) :
          \A b \in ToSet(w) : b.v # OwnData

\* Software keeps up: there is room for a message of two words.
HasRoom == Len(rx_queue) + 2 <= RxDepth

\* What may follow the transfer before.
Follows(p) ==
    /\ p.kind \in {"own", "write"} => HasRoom
    /\ xfr.plan.kind = "read" /\ phase # "Quiet" /\ xfr.todo = <<>> /\ ~xfr.over =>
          p.kind = "response" \/ "leave" \in Habits
    /\ HeaderOf(p).addr = "virtual" => Drained \/ "undrained" \in Habits

NextTag(p) == IF p.kind \in {"write", "read"} THEN 3 - xfr.tag ELSE xfr.tag
NextTransfer(p) ==
    xfr' = [plan |-> p, tag |-> NextTag(p), todo |-> BytesOf(p, NextTag(p)),
            k |-> 0, over |-> FALSE,
            expected |-> /\ p.kind = "response" /\ phase # "Quiet"
                         /\ xfr.plan.kind = "read" /\ xfr.todo = <<>>
                         /\ ~xfr.over
                         /\ xfr.plan.good /\ Allowed(xfr.plan)]

-----------------------------------------------------------------------------
NoEvent == [start |-> FALSE, stop |-> FALSE, done |-> FALSE, byte |-> NoByte,
            hdr |-> NoHeader, perr |-> FALSE, sw_req |-> FALSE]

TakesCommand == exec = "Idle" /\ exec_cmd.valid

\* A clock: the hardware moves, and the history of the commands with it.
Clock(e, sent) ==
    /\ Handler(e)
    /\ owed' = (IF TakesCommand THEN <<>> ELSE owed) \o sent
    /\ current' = IF TakesCommand /\ owed # <<>> THEN owed[1] ELSE current
    /\ out' = IF e.start THEN <<>>
              ELSE IF tx_fifo_rready(e) THEN Append(out, data_byte(xmit_in(e)))
              ELSE out
    /\ sw_busy' = (e.sw_req \/ (sw_busy /\ sw_rack = <<>>))

\* Software reads the words of the messages to the target.
MayRead == ~sw_busy /\ rx_queue # <<>> /\ Head(rx_queue)[1].v = OwnData

Tick ==
    /\ \E sw \in {FALSE} \union (IF MayRead THEN {TRUE} ELSE {}) :
          Clock([NoEvent EXCEPT !.sw_req = sw], <<>>)
    /\ calm' = IF calm < LongGap THEN calm + 1 ELSE calm
    /\ UNCHANGED <<phase, xfr>>

START ==
    /\ phase = "Quiet" /\ calm >= ShortGap
    /\ \E p \in Plans : Follows(p) /\ NextTransfer(p)
    /\ Clock([NoEvent EXCEPT !.start = TRUE], <<>>)
    /\ phase' = "Byte" /\ calm' = 0

IsRead == xfr.plan.kind = "response"

\* The eight bits of a byte.
ByteEnd ==
    /\ phase = "Byte" /\ calm >= LongGap /\ ~xfr.over
    /\ xfr.k = 0 \/ xfr.todo # <<>> \/ IsRead
    /\ LET v == IF xfr.k = 0 \/ IsRead THEN 0 ELSE Head(xfr.todo)
       IN  Clock([NoEvent EXCEPT
                     !.done = TRUE, !.hdr = HeaderOf(xfr.plan),
                     !.byte = [f |-> xfr.tag, k |-> xfr.k + 1, v |-> v]], <<>>)
    /\ xfr' = [xfr EXCEPT !.k = @ + 1,
                          !.todo = IF xfr.k = 0 \/ IsRead THEN @ ELSE Tail(@)]
    /\ phase' = "Bit" /\ calm' = 0

Acked == fsm \in {"TxAckFByte", "TxAckSByte"}

\* The ACK or T bit.  A read ends with a T-bit of 0, a NACK ends any transfer.
BitEnd ==
    /\ phase = "Bit" /\ calm >= ShortGap
    /\ \E perr \in {FALSE} \union
             (IF "parity" \in Habits /\ fsm_rx_bit THEN {TRUE} ELSE {}) :
          Clock([NoEvent EXCEPT !.done = TRUE, !.perr = perr],
                IF xfr.plan.kind = "write" /\ xfr.todo = <<>>
                THEN <<[plan |-> xfr.plan, tag |-> xfr.tag]>> ELSE <<>>)
    /\ xfr' = [xfr EXCEPT !.over = IF xfr.k = 1 THEN ~Acked
                                   ELSE IsRead /\ tx_end_xfer]
    /\ phase' = "Byte" /\ calm' = 0

MayEnd ==
    /\ phase = "Byte" /\ xfr.k > 0 /\ calm >= ShortGap
    /\ \/ xfr.over
       \/ IF IsRead THEN "shorten" \in Habits /\ xfr.k > 1
          ELSE xfr.todo = <<>> \/ "cut" \in Habits

RepeatedStart ==
    /\ MayEnd
    /\ \E p \in Plans : Follows(p) /\ NextTransfer(p)
    /\ Clock([NoEvent EXCEPT !.start = TRUE],
             IF xfr.plan.kind = "read" /\ xfr.todo = <<>> /\ ~xfr.over
             THEN <<[plan |-> xfr.plan, tag |-> xfr.tag]>> ELSE <<>>)
    /\ phase' = "Byte" /\ calm' = 0

STOP ==
    /\ MayEnd
    /\ Clock([NoEvent EXCEPT !.stop = TRUE], <<>>)
    /\ phase' = "Quiet" /\ calm' = 0
    /\ UNCHANGED xfr

Next == Tick \/ START \/ ByteEnd \/ BitEnd \/ RepeatedStart \/ STOP
Spec == Init /\ [][Next]_vars

\* The clock runs, and a controller goes on with a transfer it has begun.
FairSpec == /\ Spec /\ WF_vars(Tick) /\ WF_vars(ByteEnd) /\ WF_vars(BitEnd)
            /\ WF_vars(STOP)
-----------------------------------------------------------------------------
TypeOK ==
    /\ FsmTypeOK /\ recv \in RecvStates /\ xmit \in XmitStates
    /\ exec \in ExecStates
    /\ payload_left \in 0 .. 65535 /\ dcnt \in 0 .. 65535 /\ bcnt \in 0 .. 3
    /\ byte_counter \in 0 .. 65535 /\ mode_enter \in 0 .. 2
    /\ Len(conv.bytes) <= 4 /\ Len(rx_queue) <= RxDepth
    /\ phase \in {"Quiet", "Byte", "Bit"} /\ calm \in 0 .. LongGap
    /\ Len(owed) <= 1

\* The executor takes up the commands that were sent, each once, in order,
\* with the right verdict on the PEC, and before the next header is answered.
ExactlyTheCommands ==
    /\ TakesCommand =>
          /\ owed # <<>>
          /\ LET c == owed[1]
             IN  /\ exec_cmd.f = c.tag /\ exec_cmd.cmd = c.plan.cmd
                 /\ exec_cmd.is_rd = (c.plan.kind = "read")
                 /\ exec_cmd.error = ~c.plan.good
                 /\ exec_cmd.len = IF exec_cmd.is_rd THEN 0 ELSE c.plan.n
    /\ phase = "Byte" /\ xfr.k = 1 => owed = <<>>

\* The queue answers the executor only while it carries out a write, and with
\* the words of that command's own payload, in order.
Min2(a, b) == IF a < b THEN a ELSE b
OwnWord(n) ==
    LET first == 5 + 4 * n
        last == Min2(first + 3, 4 + current.plan.n)
    IN  [j \in 1 .. last - first + 1 |->
            [f |-> current.tag, k |-> first + j - 1, v |-> current.plan.cmd]]
PayloadIsOwn ==
    exec_rack # <<>> =>
        /\ exec \in {"CsrWrite", "FifoWrite"}
        /\ exec_rack[1] = OwnWord(Words(current.plan.n) - dcnt)

\* A CSR is written only with the payload of a command that has a good PEC,
\* is allowed in this mode, and names that CSR.
WritesJustified ==
    \A s \in csr_written(exec_rack) : \A j \in DOMAIN exec_rack[1] :
        LET c == exec_rack[1][j].v
        IN  /\ s \in CsrsOf(c)[1] .. CsrsOf(c)[2]
            /\ RecoveryMode \/ c <= 39

\* A response is the length, the bytes of the CSRs of the command, and the PEC
\* over both, and the T-bit ends it exactly there.
ResponseTo(c) ==
    LET len == CsrsOf(c)[3]
    IN  <<<<"len", 0, len>>, <<"len", 1, 0>>>>
        \o [j \in 1 .. len |->
              <<"csr", CsrsOf(c)[1] + (j - 1) \div 4, (j - 1) % 4>>]
        \o <<<<"pec", 2 + len, 0>>>>
ResponseWhole ==
    /\ IsPrefix(out, ResponseTo(current.plan.cmd))
    /\ IsRead /\ phase = "Byte" /\ xfr.k > 1 =>
          xfr.over = (SubSeq(out, 1, xfr.k - 1) = ResponseTo(current.plan.cmd))

\* The target acknowledges the read of a response if and only if a good and
\* allowed read command came just before it.
ReadAnswered ==
    IsRead /\ phase = "Byte" /\ xfr.k = 1 => xfr.over = ~xfr.expected

\* A byte with a wrong T-bit is not handed on.
BadByteDropped == ~(rx_valid /\ parity_err)

\* The private writes to the target pass by the recovery handler.
NormalBypass == rx_valid /\ bus_addr.addr = "ours" => ~recovery_pending

\* Only the private writes to the target leave a descriptor for software.
NoStrayDescriptor ==
    last_q /\ ~recovery_pending => bus_addr.addr = "ours"

\* A command that was taken up comes to its end.
CommandEnds == exec_pending ~> ~exec_pending
=============================================================================
