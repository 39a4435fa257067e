----------------------------- MODULE TargetCcc -----------------------------
(***************************************************************************)
(* The command codes with the target FSM, the flow mux and a controller.   *)
(* The controller takes its moves from Plans, the k-th from Plans[k], each *)
(* after a STOP or, for CCCs and reset patterns, after a repeated START.   *)
(* It keeps to the protocol, but for the habits in Habits:                 *)
(*   "daaparity"  an address of ENTDAA with a wrong parity bit,            *)
(*   "stale"      another CCC while an escalation is due and the last CCC   *)
(*                was RSTACT or GETSTATUS.                                  *)
(* What it sends next is a sequence of units: a condition on the bus, a    *)
(* byte, a bit, an ACK, a byte or T bit of the target, a bit of an ID.     *)
(* Between two units the logic has Gap clocks; a byte takes far more.      *)
(***************************************************************************)
EXTENDS Ccc, TargetFsm, FiniteSets, SequencesExt

CONSTANTS Plans, Habits, Gap,
          Pool,      \* addresses that the controller gives away
          DaaRounds  \* rounds of ENTDAA, at most

VARIABLES
    mux,      \* xfer_mux_sel: "Fsm" or "Ccc"
    ccc_o,    \* the code that the FSM received
    todo,     \* units to come
    wait,     \* clocks until the next unit
    risen,    \* SCL has risen for the condition that comes next
    turn,     \* moves made
    frame,    \* what the controller knows of the frame
    belief    \* what the controller believes of the target

ctrlVars == <<todo, risen, turn, frame, belief>>
vars == <<cccVars, fsmVars, mux, ccc_o, wait, ctrlVars>>

\* heard: the target takes the command.  dev: the addressed devices.  n, byte
\* and part: data bytes sent, the last and the one before.  got and want: bytes
\* of a response.  acked and expected: the last ACK bit, and what it should be;
\* lapse: the code is silent there.
NoFrame == [open |-> FALSE, heard |-> FALSE, code |-> None, def |-> "00",
            dev |-> {}, n |-> 0, byte |-> NoData, part |-> None,
            got |-> <<>>, want |-> <<>>, over |-> FALSE, acked |-> FALSE, expected |-> FALSE,
            lapse |-> FALSE]

Init ==
    /\ CccInit /\ FsmInit /\ mux = "Fsm" /\ ccc_o = None
    /\ todo = <<>> /\ wait = Gap /\ risen = FALSE /\ turn = 0
    /\ frame = NoFrame
    /\ belief = [dyn |-> csr.dyn, mwl |-> csr.mwl, mrl |-> csr.mrl,
                 ibil |-> csr.ibil, ibi_en |-> csr.ibi_en, deaf |-> FALSE,
                 lost |-> FALSE,
                 armed |-> None, escalate |-> FALSE, due |-> None,
                 last |-> None]

-----------------------------------------------------------------------------
\* Wiring: the mux gives the flows to the FSM or to the CCC module.
HeaderOf(byte) ==
    [addr |-> IF byte = [a |-> "7E", b |-> FALSE] THEN "rsvd"
              ELSE IF byte.a \in {"7E", "te0"} THEN "te0"
              ELSE IF byte.a = (IF assigned("main") THEN csr.dyn["main"]
                                ELSE csr.sta["main"]) THEN "ours"
              ELSE IF byte.a = (IF assigned("virt") THEN csr.dyn["virt"]
                                ELSE csr.sta["virt"]) THEN "virtual"
              ELSE "other",
     rnw |-> byte.b]

cccIn(e) == [NoInput EXCEPT
    !.start = e.start, !.rstart = e.rstart, !.stop = e.stop,
    !.rx_done = mux = "Ccc" /\ e.rx_done, !.rx_data = e.rx_data,
    !.tx_done = mux = "Ccc" /\ e.tx_done, !.arb_lost = e.arb_lost,
    !.hdr_exit = e.hdr_exit, !.reset_detect = e.reset_detect,
    !.reset_done = e.reset_done, !.ccc_valid = ccc_valid, !.ccc = ccc_o]

fsmIn(e) == [Quiet EXCEPT
    !.start = e.start \/ e.rstart, !.stop = e.stop,
    !.rx_done = mux = "Fsm" /\ e.rx_done, !.rx_data = HeaderOf(e.rx_data),
    !.tx_done = mux = "Fsm" /\ e.tx_done, !.reset_detect = e.reset_detect,
    !.ccc_done = done_fsm, !.ccc_invalid = invalid_ccc, !.ccc_next = next_ccc,
    !.bus_idle = e.bus_idle, !.hdr_exit = e.hdr_exit,
    !.in_hdr = is_in_hdr_mode]

FlowMux ==
    mux' = IF mux = "Fsm" THEN IF ccc_valid THEN "Ccc" ELSE "Fsm"
           ELSE IF done_fsm \/ next_ccc THEN "Fsm" ELSE "Ccc"

rx_byte == IF mux = "Ccc" THEN ccc_rx_byte ELSE fsm_rx_byte
rx_bit == IF mux = "Ccc" THEN ccc_rx_bit ELSE fsm_rx_bit
tx_bit == IF mux = "Ccc" THEN ccc_tx_bit ELSE fsm_tx_bit
tx_byte == IF mux = "Ccc" THEN ccc_tx_byte ELSE fsm_tx_byte
acks == tx_bit /\ (mux = "Ccc" => ccc_acks)

NoEvent == [start |-> FALSE, rstart |-> FALSE, stop |-> FALSE,
            rx_done |-> FALSE, rx_data |-> NoData, tx_done |-> FALSE,
            arb_lost |-> FALSE, hdr_exit |-> FALSE, reset_detect |-> FALSE,
            reset_done |-> FALSE, bus_idle |-> FALSE]

Clock(e) ==
    /\ CccStep(cccIn(e)) /\ FsmStep(fsmIn(e)) /\ FlowMux
    /\ ccc_o' = IF fsm = "RxSByte" /\ fsmIn(e).rx_done THEN e.rx_data.a ELSE ccc_o

Tick == /\ Clock(NoEvent) /\ wait' = IF wait = 0 THEN 0 ELSE wait - 1
        /\ UNCHANGED ctrlVars

Event(e) == wait = 0 /\ Clock(e) /\ wait' = Gap /\ UNCHANGED turn

-----------------------------------------------------------------------------
\* The units of the controller's moves.
Unit(u, as, v) == [u |-> u, as |-> as, v |-> v]
Mark(u) == Unit(u, "", NoData)
Byte(as, a, b) == Unit("byte", as, [a |-> a, b |-> b])
Tbit(as, b) == Unit("bit", as, [a |-> "bit", b |-> b])
Ack(as) == Unit("ack", as, NoData)

Current(d) == IF belief.dyn[d] # None THEN belief.dyn[d] ELSE csr.sta[d]
AddressOf(to) == IF to \in Devices THEN Current(to) ELSE to
Owner(a) == {d \in Devices : Current(d) = a}

DataUnits(data) ==
    FlattenSeq([k \in 1 .. Len(data) |-> <<Byte("data", data[k], FALSE), Tbit("data", TRUE)>>])
SegUnits(s) ==
    <<Mark("Sr"), Byte("addr", AddressOf(s.to), s.rnw), Ack("addr")>>
    \o IF s.rnw THEN <<Mark("read")>> ELSE DataUnits(s.data)

\* A move: its kind, and for "ccc" the code, whether its T bit is right, the
\* defining byte, broadcast data and the addressed segments.
CccUnits(m) ==
    <<Byte("code", m.code, FALSE), Tbit("code", (m.code \in TbitOne) = m.good)>>
    \o (IF m.def = None THEN <<>>
        ELSE <<Byte("def", m.def, FALSE), Tbit("def", TRUE)>>)
    \o DataUnits(m.data)
    \o FlattenSeq([k \in 1 .. Len(m.segs) |-> SegUnits(m.segs[k])])
    \o (CASE m.code = "ENTDAA" -> <<Mark("daa")>>
          [] m.code = "ENTHDR" -> <<Mark("exit")>>
          [] OTHER -> <<>>)

UnitsOf(m) ==
    CASE m.kind = "ccc" -> <<Byte("header", "7E", FALSE), Ack("header")>> \o CccUnits(m)
      [] m.kind = "private" -> <<Byte("private", AddressOf(m.to), FALSE), Ack("private")>>
      [] OTHER -> <<Mark(m.kind)>>  \* "pattern", "idle", "exit"

\* RSTACT and GETSTATUS take an escalation back: the one that goes on, or, while
\* no other code has come, the one that was last.
Clearers == {"GETSTATUS", "RSTACT", "dRSTACT"}
Clearing == frame.heard /\ frame.code \in Clearers
Stale == belief.last \in Clearers /\ frame.code = None

\* A segment of SETNEWDA is for a device that has a dynamic address; new
\* addresses are free.
Legal(m) ==
    /\ m.code = "SETNEWDA" =>
          \A s \in ToSet(m.segs) : s.to \in Devices => belief.dyn[s.to] # None
    /\ m.code \in {"SETDASA", "SETNEWDA"} =>
          \A s \in ToSet(m.segs) : \A a \in ToSet(s.data) : Owner(a) = {}
    /\ belief.escalate /\ Stale /\ m.kind = "ccc" =>
          "stale" \in Habits \/ m.code \in Clearers

NextMoves == IF turn < Len(Plans) THEN Plans[turn + 1] ELSE {}
Move(m) ==
    /\ wait = 0 /\ todo = <<>> /\ Legal(m) /\ ~rst.escalated
    /\ turn' = turn + 1
    /\ frame.open => m.kind \in {"pattern", "ccc"}
    /\ m.kind = "exit" => belief.deaf \/ belief.lost
    /\ todo' = IF m.kind \in {"idle", "exit"} THEN UnitsOf(m)
               ELSE <<Mark(IF frame.open THEN "Sr" ELSE "S")>> \o UnitsOf(m)
    /\ UNCHANGED <<cccVars, fsmVars, mux, ccc_o, wait, risen, frame, belief>>

Finish ==
    /\ wait = 0 /\ todo = <<>> /\ frame.open /\ todo' = <<Mark("P")>>
    /\ UNCHANGED <<cccVars, fsmVars, mux, ccc_o, wait, risen, turn, frame, belief>>

-----------------------------------------------------------------------------
\* One unit on the bus.
NextIs(u) == todo # <<>> /\ Head(todo).u = u
Sent == todo' = Tail(todo)
NoReset == belief' = [belief EXCEPT !.due = None]

\* SCL rises before a repeated START (SDA high) or a STOP (SDA low): for a
\* receiver that waits for a bit this is one.
SclRises ==
    /\ NextIs("Sr") \/ NextIs("P")
    /\ rx_bit /\ ~risen /\ risen' = TRUE
    /\ Event([NoEvent EXCEPT !.rx_done = TRUE,
                             !.rx_data = [a |-> "bit", b |-> NextIs("Sr")]])
    /\ UNCHANGED <<todo, frame, belief>>

Condition(u, e) ==
    /\ NextIs(u) /\ (rx_bit => risen)
    /\ Event(e) /\ Sent /\ risen' = FALSE

StartCondition ==
    /\ Condition("S", [NoEvent EXCEPT !.start = TRUE])
    /\ frame' = [NoFrame EXCEPT !.open = TRUE]
    /\ belief' = [belief EXCEPT !.armed = None, !.due = None]

RepeatedStart ==
    /\ Condition("Sr", [NoEvent EXCEPT !.rstart = TRUE])
    /\ NoReset /\ UNCHANGED frame

StopCondition ==
    /\ Condition("P", [NoEvent EXCEPT !.stop = TRUE])
    /\ frame' = NoFrame /\ NoReset

HdrExit ==
    /\ Condition("exit", [NoEvent EXCEPT !.stop = TRUE, !.hdr_exit = TRUE])
    /\ frame' = NoFrame
    /\ belief' = [belief EXCEPT !.deaf = FALSE, !.lost = FALSE, !.due = None,
                               !.last = None]

BusIdle ==
    /\ Condition("idle", [NoEvent EXCEPT !.bus_idle = TRUE])
    /\ belief' = [belief EXCEPT !.deaf = FALSE, !.lost = FALSE, !.due = None]
    /\ UNCHANGED frame

\* The pattern ends with a (repeated) START and a STOP.
Due == IF belief.armed = None
       THEN IF belief.escalate THEN "escalated" ELSE "peripheral"
       ELSE CASE belief.armed = "01" -> "peripheral"
              [] belief.armed = "02" -> "escalated"
              [] OTHER -> "nothing"
ResetPattern ==
    /\ ~rst.peripheral
    /\ Condition("pattern", [NoEvent EXCEPT !.stop = TRUE, !.reset_detect = TRUE])
    /\ frame' = NoFrame /\ belief' = [belief EXCEPT !.due = Due]

\* The SoC has reset the peripheral; while RSTACT or GETSTATUS goes on, that
\* does not count for an escalation.
ResetDone ==
    /\ rst.peripheral /\ (todo # <<>> /\ Stale => "stale" \in Habits)
    /\ Event([NoEvent EXCEPT !.reset_done = TRUE])
    /\ belief' = [belief EXCEPT !.escalate = ~Clearing, !.due = None]
    /\ UNCHANGED <<todo, risen, frame>>
-----------------------------------------------------------------------------
\* The address that ENTDAA gives: a free one to us, any other to others.
FreeAddress == Pool[SelectInSeq(Pool, LAMBDA a : Owner(a) = {})]
ByteValue ==
    IF Head(todo).as # "daaddr" THEN {Head(todo).v}
    ELSE [a : {IF frame.dev = {} THEN "x" ELSE FreeAddress},
          b : {TRUE} \union (IF "daaparity" \in Habits THEN {FALSE} ELSE {})]

FrameAfterByte(v) ==
    CASE Head(todo).as = "code" -> [frame EXCEPT !.code = v.a]
      [] Head(todo).as = "def" -> [frame EXCEPT !.def = v.a]
      [] Head(todo).as = "addr" ->
            [frame EXCEPT !.dev = Owner(v.a), !.n = 0, !.got = <<>>,
                          !.want = <<>>, !.over = FALSE, !.byte = v]
      [] OTHER -> [frame EXCEPT !.byte = v]

ByteSent ==
    /\ NextIs("byte") /\ Sent
    /\ \E v \in ByteValue :
          /\ Event([NoEvent EXCEPT !.rx_done = rx_byte, !.rx_data = v])
          /\ frame' = FrameAfterByte(v)
    /\ NoReset /\ UNCHANGED risen

-----------------------------------------------------------------------------
\* What a T bit completes.  A code with a wrong T bit makes the target deaf.
BeliefAfterCode ==
    CASE ~frame.heard -> belief
      [] Head(todo).v.b # (frame.code \in TbitOne) -> [belief EXCEPT !.deaf = TRUE]
      [] frame.code = "RSTDAA" -> [belief EXCEPT !.dyn = [d \in Devices |-> None]]
      [] frame.code = "SETAASA" -> [belief EXCEPT !.dyn = [d \in Devices |-> Current(d)]]
      [] Clearing -> [belief EXCEPT !.escalate = FALSE]
      [] OTHER -> belief

\* Data count for a broadcast, and for a segment of ours.
Counts == frame.heard /\ (frame.code \in DirectCodes => frame.acked)
BeliefAfterData ==
    CASE ~Counts -> belief
      [] frame.code \in MwlCodes /\ frame.n = 1 ->
            [belief EXCEPT !.mwl = <<frame.part, frame.byte.a>>]
      [] frame.code \in MrlCodes /\ frame.n = 1 ->
            [belief EXCEPT !.mrl = <<frame.part, frame.byte.a>>]
      [] frame.code \in MrlCodes /\ frame.n = 2 ->
            [belief EXCEPT !.ibil = frame.byte.a]
      [] frame.code \in {"ENEC", "dENEC"} /\ frame.n = 0 /\ frame.byte.a = "ibi" ->
            [belief EXCEPT !.ibi_en = TRUE]
      [] frame.code \in {"DISEC", "dDISEC"} /\ frame.n = 0 /\ frame.byte.a = "ibi" ->
            [belief EXCEPT !.ibi_en = FALSE]
      [] frame.code \in {"SETDASA", "SETNEWDA"} /\ frame.n = 0 ->
            [belief EXCEPT !.dyn = [d \in Devices |->
                IF d \in frame.dev THEN frame.byte.a ELSE belief.dyn[d]]]
      [] OTHER -> belief

BeliefAfterTbit ==
    CASE Head(todo).as = "code" -> BeliefAfterCode
      [] Head(todo).as = "data" -> BeliefAfterData
      [] OTHER -> IF frame.heard /\ frame.code = "RSTACT"
                  THEN [belief EXCEPT !.armed = frame.def] ELSE belief

TbitSent ==
    /\ NextIs("bit") /\ Sent
    /\ Event([NoEvent EXCEPT !.rx_done = rx_bit, !.rx_data = Head(todo).v])
    /\ belief' = [BeliefAfterTbit EXCEPT !.due = None,
                    !.last = IF frame.heard THEN frame.code ELSE belief.last]
    /\ frame' = CASE Head(todo).as = "code" ->
                        [frame EXCEPT !.heard = frame.heard /\ ~belief'.deaf]
                  [] Head(todo).as = "data" ->
                        [frame EXCEPT !.n = frame.n + 1, !.part = frame.byte.a]
                  [] OTHER -> frame
    /\ UNCHANGED risen

-----------------------------------------------------------------------------
\* The ACKs to expect.
KnownDef == CASE frame.code = "dRSTACT" -> frame.def \in {"00", "01", "02", "81", "82"}
              [] frame.code = "GETCAPS" -> frame.def \in {"00", "93"}
              [] OTHER -> TRUE
SegExpected ==
    /\ frame.heard
    /\ frame.code \in Getters => frame.byte.b
    /\ frame.code \in Setters => ~frame.byte.b
    /\ IF frame.code = "SETDASA"
       THEN \E d \in Devices : csr.sta[d] = frame.byte.a /\ belief.dyn[d] = None
       ELSE frame.dev # {} /\ KnownDef /\ frame.code \in Setters \union Getters \union {"dRSTACT"}

Unassigned == {d \in Devices : belief.dyn[d] = None}
NextDevice == IF "main" \in Unassigned THEN "main" ELSE "virt"
Expected ==
    CASE Head(todo).as = "header" -> ~belief.deaf
      [] Head(todo).as = "private" -> ~belief.deaf /\ Owner(frame.byte.a) # {}
      [] Head(todo).as = "addr" -> SegExpected
      [] Head(todo).as = "daa" -> frame.heard /\ Unassigned # {}
      [] Head(todo).as = "daaddr" -> frame.dev # {} /\ frame.byte.b

\* Two lapses of the code.  After a GET or SETDASA the header of the next CCC is
\* refused, unless a STOP comes first: its direction counts as an error, or it is
\* no static address.  A round of ENTDAA that begins when both devices have an
\* address ends in the error state, and the target waits for an idle bus.
Lapse ==
    \/ belief.lost
    \/ Head(todo).as = "header" /\ frame.heard /\ frame.code \in Getters \union {"SETDASA"}

\* Response to a GET, as the controller knows it.
Length == CASE frame.code \in {"GETBCR", "GETDCR", "dRSTACT"} -> 1
            [] frame.code \in {"GETSTATUS", "GETMWL"} -> 2
            [] frame.code = "GETCAPS" -> IF frame.def = "93" THEN 1 ELSE 3
            [] frame.code = "GETMRL" -> 3
            [] frame.code = "GETPID" -> 6
            [] OTHER -> 0
Limits == IF frame.code = "GETMWL" THEN belief.mwl ELSE Append(belief.mrl, belief.ibil)
Device == CHOOSE d \in frame.dev : TRUE
ResponseByte(k) ==
    CASE frame.code \in {"GETMWL", "GETMRL"} -> Limits[k]
      [] frame.code = "GETCAPS" -> frame.def
      [] frame.code = "dRSTACT" -> "FF"
      [] frame.code = "GETSTATUS" /\ k = 1 -> ""
      [] OTHER -> Device
Response == [k \in 1 .. Length |-> <<frame.code, ResponseByte(k), Length + 1 - k>>]
ID(d) == [k \in 1 .. IdBits |-> <<"ID", d, IdBits - k>>]

FrameAfterAck(own) ==
    LET f == [frame EXCEPT !.acked = own, !.expected = Expected, !.lapse = Lapse]
    IN  CASE Head(todo).as = "header" ->
                [NoFrame EXCEPT !.open = TRUE, !.heard = own, !.acked = own,
                                !.expected = Expected, !.lapse = Lapse]
          [] Head(todo).as = "addr" /\ own ->
                [f EXCEPT !.want = IF frame.byte.b /\ frame.dev # {} THEN Response ELSE <<>>]
          [] Head(todo).as = "daa" /\ own ->
                [f EXCEPT !.dev = {NextDevice}, !.want = ID(NextDevice), !.got = <<>>]
          [] Head(todo).as = "daa" -> [f EXCEPT !.dev = {}, !.want = <<>>, !.got = <<>>]
          [] OTHER -> f

BeliefAfterAck(own) ==
    CASE ~own -> belief
      [] Head(todo).as = "daaddr" ->
            [belief EXCEPT !.dyn = [d \in Devices |->
                IF d \in frame.dev THEN frame.byte.a ELSE belief.dyn[d]]]
      [] Head(todo).as = "addr" /\ frame.code = "dRSTACT" /\ ~frame.byte.b ->
            [belief EXCEPT !.armed = frame.def]
      [] OTHER -> belief

\* After a NACK: the next address, or the end of the frame.
AfterNack ==
    IF Head(todo).as = "daaddr" THEN Tail(todo)
    ELSE IF \E k \in DOMAIN todo : Head(todo).as = "addr" /\ todo[k].u = "Sr"
    THEN SubSeq(todo, SelectInSeq(todo, LAMBDA x : x.u = "Sr"), Len(todo))
    ELSE <<Mark("P")>>

\* In ENTDAA other devices may acknowledge as well, but for an address of ours.
OthersAck ==
    IF Head(todo).as = "daa" \/ (Head(todo).as = "daaddr" /\ frame.dev = {})
    THEN BOOLEAN ELSE {FALSE}
AckBit ==
    /\ NextIs("ack")
    /\ Event([NoEvent EXCEPT !.tx_done = tx_bit])
    /\ \E others \in OthersAck :
          todo' = IF acks \/ others THEN Tail(todo) ELSE AfterNack
    /\ frame' = FrameAfterAck(acks)
    /\ belief' = [BeliefAfterAck(acks) EXCEPT !.due = None]
    /\ UNCHANGED risen

-----------------------------------------------------------------------------
\* The target sends a byte, and a T bit that says whether there are more.
ReadByte ==
    /\ NextIs("read") /\ Event([NoEvent EXCEPT !.tx_done = tx_byte])
    /\ todo' = <<Mark("more")>> \o Tail(todo)
    /\ frame' = [frame EXCEPT !.got = Append(frame.got,
                    IF tx_byte THEN tx_data ELSE <<"", "", 0>>)]
    /\ NoReset /\ UNCHANGED risen

GoesOn == tx_bit /\ ~tx_data_done
MoreBit ==
    /\ NextIs("more") /\ Event([NoEvent EXCEPT !.tx_done = tx_bit])
    /\ todo' = (IF GoesOn THEN <<Mark("read")>> ELSE <<>>) \o Tail(todo)
    /\ frame' = [frame EXCEPT !.over = ~GoesOn]
    /\ NoReset /\ UNCHANGED risen

\* The controller ends the read with a repeated START on the T bit.
CutShort ==
    /\ NextIs("more") /\ GoesOn /\ Event([NoEvent EXCEPT !.rstart = TRUE])
    /\ todo' = IF Len(todo) = 1 THEN <<Mark("P")>> ELSE Tail(Tail(todo))
    /\ NoReset /\ UNCHANGED <<risen, frame>>

-----------------------------------------------------------------------------
\* A round of ENTDAA, or the end of it.
DaaRound ==
    /\ wait = 0 /\ NextIs("daa")
    /\ \/ /\ frame.n < DaaRounds
          /\ todo' = <<Mark("Sr"), Byte("daa", "7E", TRUE), Ack("daa")>>
                     \o [k \in 1 .. IdBits |-> Mark("id")]
                     \o <<Byte("daaddr", None, TRUE), Ack("daaddr"), Mark("daa")>>
          /\ frame' = [frame EXCEPT !.n = frame.n + 1]
          /\ belief' = [belief EXCEPT !.lost =
                           @ \/ (frame.heard /\ frame.n = 0 /\ Unassigned = {})]
       \/ todo' = <<Mark("P")>> /\ UNCHANGED <<frame, belief>>
    /\ UNCHANGED <<cccVars, fsmVars, mux, ccc_o, wait, risen, turn>>

\* A bit of the ID; with another device in the round it may be overwritten.
IdBit ==
    /\ NextIs("id") /\ Sent
    /\ \E lost \in IF tx_bit THEN BOOLEAN ELSE {FALSE} :
          /\ Event([NoEvent EXCEPT !.tx_done = tx_bit /\ ~lost, !.arb_lost = lost])
          /\ frame' = IF lost THEN [frame EXCEPT !.dev = {}, !.got = <<>>, !.want = <<>>]
                      ELSE IF tx_bit THEN [frame EXCEPT !.got = Append(frame.got, id_bit)]
                      ELSE frame
    /\ NoReset /\ UNCHANGED risen

-----------------------------------------------------------------------------
Units == \/ SclRises \/ StartCondition \/ RepeatedStart \/ StopCondition
         \/ HdrExit \/ BusIdle \/ ResetPattern
         \/ ByteSent \/ TbitSent \/ AckBit \/ ReadByte \/ MoreBit \/ CutShort
         \/ IdBit
Next == \/ Tick \/ Units \/ ResetDone \/ DaaRound \/ Finish
        \/ \E m \in NextMoves : Move(m)

Spec == Init /\ [][Next]_vars

-----------------------------------------------------------------------------
TypeOK ==
    /\ CccTypeOK /\ FsmTypeOK /\ mux \in {"Fsm", "Ccc"}
    /\ wait \in 0 .. Gap /\ turn \in 0 .. Len(Plans) /\ risen \in BOOLEAN

\* The controller has finished a move, and the target has taken it in.
Settled == wait = 0 /\ todo = <<>>

\* The two addresses on the bus are those that the controller assigned or
\* reset last, over RSTDAA, SETAASA, SETDASA, SETNEWDA and ENTDAA, also when
\* other devices win rounds of ENTDAA or the frame ends at any round; the T bits
\* of RSTDAA and SETAASA and the parity of ENTDAA are right.
AddressesAsAssigned == Settled => csr.dyn = belief.dyn

\* The write, read and IBI limits and the event enable are those that were set
\* last; a command that was cut or that went to another device leaves them.  No
\* data byte looks like the header 7E.
LimitsAsSet ==
    Settled => /\ csr.mwl = belief.mwl /\ csr.mrl = belief.mrl
               /\ csr.ibil = belief.ibil /\ csr.ibi_en = belief.ibi_en


\* A response is the registers of the device that was asked, in order, and its
\* last T bit says so; in ENTDAA the ID of the main target comes first, whole.
GetWhole == /\ IsPrefix(frame.got, frame.want)
            /\ frame.over => frame.got = frame.want

\* A reset pattern does what RSTACT armed in the same frame, or else resets the
\* peripheral, and everything if a pattern has done so before with no RSTACT or
\* GETSTATUS since.
ResetAsArmed ==
    wait = 0 /\ belief.due # None =>
        /\ rst.peripheral = (belief.due = "peripheral")
        /\ rst.escalated = (belief.due = "escalated")
=============================================================================
