---------------------------- MODULE PrivateWrite ----------------------------
(***************************************************************************)
(* Private writes to software: the target FSM with its data latches,       *)
(* descriptor_rx.sv, width_converter_8toN.sv, the RX data and descriptor   *)
(* queues, a controller that writes messages and the firmware agent of the *)
(* tests (rx_agent) that reads descriptors and words.  One step is one     *)
(* clock.  No recovery transfer takes place: the multiplexers of           *)
(* recovery_handler.sv stand at the software side.  A byte is the pair of  *)
(* the tag of its message and its place in it; tags are used in turn.      *)
(***************************************************************************)
EXTENDS TargetFsm, SyncFifo, FiniteSetsExt

CONSTANTS DataDepth,  \* words of the RX data queue
          DescDepth,  \* entries of the RX descriptor queue
          Plans,      \* the transfers of the controller, see Plan
          ShortGap,   \* clocks between two events on the bus, at least
          LongGap     \* clocks of a byte, at least

\* A transfer to an address (of TargetFsm) with n bytes, of which the one at
\* place bad, if not 0, has a wrong T-bit.
Plan(addr, n, bad) == [addr |-> addr, n |-> n, bad |-> bad]

ASSUME WriteAssumption ==
    /\ DataDepth \in Nat \ {0} /\ DescDepth \in Nat \ {0}
    /\ \A p \in Plans : p.n \in 0 .. 65535 /\ p.bad \in 0 .. p.n
ASSUME GapAssumption == ShortGap \in Nat \ {0} /\ LongGap \in Nat \ {0}

VARIABLES last_byte,
          rx_valid,        \* rx_fifo_wvalid_o
          parity_err,
          overflow, overflow_q,  \* rx_overflow_err_r, rx_overflow_err_q
          byte_counter, byte_counter_q, transfer_ended_q, rx_error,
          conv,            \* the bytes in the converter, and is it full
          data, desc,      \* the two queues
          reader,          \* the message that software reads
          phase, calm, xfr,  \* the bus, as in RecoveryTransfer
          muted,           \* a T-bit was wrong since the last STOP
          lost, lost_q,    \* a byte of this message, of the one that ended
                           \* last, did not reach the converter in its turn
          owed,            \* messages sent, whose descriptors were not read
          backed_up,       \* a word or a descriptor found its queue full
          reported,        \* an overflow was reported, or a descriptor dropped
          wrong            \* software got something else than was sent

latches == <<last_byte, rx_valid, parity_err, overflow, overflow_q>>
descVars == <<byte_counter, byte_counter_q, transfer_ended_q, rx_error>>
bus == <<phase, calm, xfr, muted>>
history == <<lost, lost_q, owed, backed_up, reported, wrong>>
vars == <<fsmVars, latches, descVars, conv, data, desc, reader, bus, history>>

NoByte == <<0, 0>>
NextTag(t) == (t % 3) + 1
NoTransfer == [plan |-> Plan("other", 0, 0), tag |-> 3, k |-> 0]
NoMessage == [tag |-> 0, len |-> 0, next |-> 1]

Init ==
    /\ FsmInit
    /\ last_byte = NoByte /\ rx_valid = FALSE /\ parity_err = FALSE
    /\ overflow = FALSE /\ overflow_q = FALSE
    /\ byte_counter = 0 /\ byte_counter_q = 0 /\ transfer_ended_q = FALSE
    /\ rx_error = FALSE
    /\ conv = [bytes |-> <<>>, full |-> FALSE]
    /\ data = <<>> /\ desc = <<>> /\ reader = NoMessage
    /\ phase = "Quiet" /\ calm = LongGap /\ xfr = NoTransfer /\ muted = FALSE
    /\ lost = FALSE /\ lost_q = FALSE /\ owed = <<>>
    /\ backed_up = FALSE /\ reported = FALSE /\ wrong = FALSE

-----------------------------------------------------------------------------
(* The hardware.  What happens on the bus in a clock is a record e.          *)

NoEvent == [start |-> FALSE, stop |-> FALSE, done |-> FALSE, byte |-> NoByte,
            hdr |-> NoHeader, perr |-> FALSE]

fsm_in(e) ==
    [Quiet EXCEPT
        !.start = e.start, !.stop = e.stop,
        !.rx_done = e.done /\ (fsm_rx_byte \/ fsm_rx_bit), !.rx_data = e.hdr,
        !.tx_done = e.done /\ fsm_tx_bit]
fsm_next(e) == state_d(fsm_in(e))

\* rx_last_byte_o
transfer_ended(e) == fsm = "RxPWriteData" /\ fsm_next(e) \in {"RxFByte", "Idle"}
parity_err_o(e) == e.done /\ fsm_rx_bit /\ e.perr
rx_overflow_err == overflow /\ ~overflow_q

\* sink_ready_o of the converter is rx_fifo_wready_i of the FSM.
sink_ready == ~conv.full
accepted == rx_valid /\ sink_ready

\* Mutant: an overflow is noticed only while the byte waits for its T-bit.
OverflowLate(e) ==
    overflow' = \/ fsm_next(e) = "RxPWriteTbit" /\ rx_valid /\ ~sink_ready
                \/ overflow /\ fsm # "Idle" /\ fsm_next(e) \notin {"RxFByte", "Idle"}
Overflow(e) ==
    overflow' = \/ fsm_next(e) = "RxPWriteData" /\ rx_valid /\ ~sink_ready
                \/ overflow /\ fsm # "Idle" /\ fsm_next(e) \notin {"RxFByte", "Idle"}

Latches(e) ==
    /\ last_byte' = IF e.done /\ fsm_rx_byte THEN e.byte ELSE last_byte
    /\ parity_err' = (parity_err_o(e) \/ (parity_err /\ fsm # "Idle"))
    /\ Overflow(e) /\ overflow_q' = overflow
    /\ rx_valid' = /\ ~accepted
                   /\ \/ rx_valid
                      \/ /\ fsm = "RxPWriteTbit" /\ fsm_next(e) # "RxPWriteTbit"
                         /\ ~parity_err /\ ~rx_overflow_err

\* descriptor_rx.  The mutant counts on from message to message when the next
\* one follows at once.
CounterKept(e) ==
    byte_counter' = IF transfer_ended(e) /\ e.stop THEN 0
                    ELSE IF accepted THEN (byte_counter + 1) % 65536
                    ELSE byte_counter
Counter(e) ==
    byte_counter' = IF transfer_ended(e) THEN 0
                    ELSE IF accepted THEN (byte_counter + 1) % 65536
                    ELSE byte_counter

Descriptor(e) ==
    /\ Counter(e)
    /\ byte_counter_q' = IF transfer_ended(e) THEN byte_counter ELSE byte_counter_q
    /\ transfer_ended_q' = transfer_ended(e)
    /\ rx_error' = \/ parity_err_o(e) \/ rx_overflow_err
                   \/ rx_error /\ ~transfer_ended_q

\* width_converter_8toN: a flush comes before a byte, and a byte before a pop.
conv_pop == conv.full /\ WReady(data, DataDepth)
Converter ==
    conv' = [bytes |-> IF accepted THEN Append(conv.bytes, last_byte)
                       ELSE IF conv_pop THEN <<>> ELSE conv.bytes,
             full |-> \/ transfer_ended_q /\ (conv.full \/ conv.bytes # <<>>)
                      \/ accepted /\ Len(conv.bytes) = 3
                      \/ conv.full /\ ~conv_pop]

\* The queues; op is what software reads in this clock.
Queues(op) ==
    /\ data' = FifoStep(data, DataDepth, FALSE,
                        IF conv.full THEN <<conv.bytes>> ELSE <<>>, op = "data")
    /\ desc' = FifoStep(desc, DescDepth, FALSE,
                        IF transfer_ended_q
                        THEN <<[len |-> byte_counter_q, err |-> rx_error]>>
                        ELSE <<>>,
                        op = "desc")

-----------------------------------------------------------------------------
(* The software. *)

\* What a transfer has sent, as its descriptor tells it: the bytes up to one with
\* a wrong T-bit, and the error; after such a byte, none until a STOP.
Message(x) ==
    [tag |-> x.tag,
     len |-> IF muted THEN 0 ELSE IF x.plan.bad # 0 THEN x.plan.bad ELSE x.plan.n,
     err |-> x.plan.bad # 0]

Words(len) == (len + 3) \div 4
Reading == reader.next <= Words(reader.len)
\* The word of the message that comes next.
Word(r) ==
    LET before == 4 * (r.next - 1)
    IN [j \in 1 .. Min({4, r.len - before}) |-> <<r.tag, before + j>>]

\* rx_agent: a descriptor, then its words.
Reads == {"none"} \union (IF Reading THEN {"data"}
                          ELSE IF RValid(desc) THEN {"desc"} ELSE {})

Software(op) ==
    CASE op = "none" -> UNCHANGED <<reader, wrong>>
      [] op = "desc" ->
            LET d == Head(desc)
                m == IF owed = <<>> THEN [tag |-> 0, len |-> 0, err |-> FALSE]
                     ELSE Head(owed)
            IN /\ reader' = [tag |-> m.tag, len |-> d.len, next |-> 1]
               /\ wrong' = \/ wrong \/ owed = <<>>
                           \/ d.len # m.len \/ d.err # m.err
      [] op = "data" ->
            /\ reader' = [reader EXCEPT !.next = @ + 1]
            /\ wrong' = (wrong \/ data = <<>> \/ Head(data) # Word(reader))

\* A clock: the hardware moves, and software may read.
Clock(e) ==
    /\ FsmStep(fsm_in(e)) /\ Latches(e) /\ Descriptor(e) /\ Converter
    /\ \E op \in Reads :
        /\ Queues(op) /\ Software(op)
        /\ owed' = (IF op = "desc" /\ owed # <<>> THEN Tail(owed) ELSE owed)
                   \o (IF transfer_ended(e) THEN <<Message(xfr)>> ELSE <<>>)
    /\ muted' = /\ ~e.stop
                /\ muted \/ (transfer_ended(e) /\ xfr.plan.bad # 0)
    /\ lost_q' = IF transfer_ended(e) THEN lost \/ rx_valid ELSE lost_q
    /\ lost' = /\ ~transfer_ended(e)
               /\ lost \/ (rx_valid /\ e.done /\ fsm = "RxPWriteData")
    /\ backed_up' = \/ backed_up
                    \/ conv.full /\ ~WReady(data, DataDepth)
                    \/ transfer_ended_q /\ ~WReady(desc, DescDepth)
    /\ reported' = \/ reported \/ rx_overflow_err
                   \/ transfer_ended_q /\ ~WReady(desc, DescDepth)

-----------------------------------------------------------------------------
(* The controller. *)

\* Messages are sent whether there is room or not; after a queue has run full
\* no further one is sent (a bound).
MaySend == ~backed_up

Begins(p) ==
    xfr' = [plan |-> p, k |-> 0,
            tag |-> IF p.addr = "ours" THEN NextTag(xfr.tag) ELSE xfr.tag]

Tick == /\ Clock(NoEvent)
        /\ calm' = IF calm < LongGap THEN calm + 1 ELSE calm
        /\ UNCHANGED <<phase, xfr>>

START == /\ phase = "Quiet" /\ calm >= ShortGap
         /\ MaySend /\ \E p \in Plans : Begins(p)
         /\ Clock([NoEvent EXCEPT !.start = TRUE])
         /\ phase' = "Byte" /\ calm' = 0

\* The eight bits of a byte; the header is byte 0.
ByteEnd ==
    /\ phase = "Byte" /\ calm >= LongGap
    /\ xfr.k <= xfr.plan.n
    /\ Clock([NoEvent EXCEPT !.done = TRUE,
                             !.byte = <<xfr.tag, xfr.k>>,
                             !.hdr = [addr |-> xfr.plan.addr, rnw |-> FALSE]])
    /\ phase' = "Bit" /\ calm' = 0 /\ UNCHANGED xfr

\* The ACK or T bit.
BitEnd ==
    /\ phase = "Bit" /\ calm >= ShortGap
    /\ Clock([NoEvent EXCEPT !.done = TRUE,
                             !.perr = xfr.k # 0 /\ xfr.k = xfr.plan.bad])
    /\ xfr' = [xfr EXCEPT !.k = @ + 1]
    /\ phase' = "Byte" /\ calm' = 0

Over == phase = "Byte" /\ xfr.k = xfr.plan.n + 1 /\ calm >= ShortGap

RepeatedStart == /\ Over
                 /\ MaySend /\ \E p \in Plans : Begins(p)
                 /\ Clock([NoEvent EXCEPT !.start = TRUE])
                 /\ phase' = "Byte" /\ calm' = 0

STOP == /\ Over
        /\ Clock([NoEvent EXCEPT !.stop = TRUE])
        /\ phase' = "Quiet" /\ calm' = 0 /\ UNCHANGED xfr

Next == Tick \/ START \/ ByteEnd \/ BitEnd \/ RepeatedStart \/ STOP

Spec == Init /\ [][Next]_vars

-----------------------------------------------------------------------------
(* Properties. *)

\* All messages were read, and nothing of them stays behind.
NothingLeft ==
    phase = "Quiet" /\ calm >= ShortGap /\ owed = <<>> /\ desc = <<>> /\ ~Reading
        => data = <<>> /\ conv.bytes = <<>> /\ ~conv.full

\* As long as no queue runs full, software gets every message: a descriptor
\* with the number of its bytes and, if a T-bit was wrong, the error, and then
\* just these bytes; nothing stays behind to be taken for the next message
\* (descriptor_rx, width_converter_8toN).
MessagesIntact == ~backed_up => ~wrong /\ NothingLeft

\* A message of which bytes did not find room has the error in its descriptor
\* (rx_overflow_err_o, rx_error).
LossReported == transfer_ended_q /\ lost_q => rx_error

\* The tests' agent compares what it reads with what was sent, and asks only
\* that no descriptor shows an error (test_i3c_target.py, rx_agent): messages
\* are intact unless an overflow is reported.
IntactUnlessReported == ~reported => ~wrong /\ NothingLeft
=============================================================================
