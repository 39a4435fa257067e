------------------------ MODULE TtiInterruptsProofs ------------------------
(***************************************************************************)
(* CrossingNoticed of TtiInterrupts, for all queue depths, thresholds and   *)
(* programs: a crossing is on its way through the write strobe and the edge *)
(* detector, or in the status.  ThresholdsKept, for all programs that set   *)
(* thresholds of eight bits: fields of one register do not disturb each     *)
(* other, and a write-back never carries an old value.                      *)
(***************************************************************************)
EXTENDS TtiInterrupts, FiniteSetTheorems, TLAPS

T == "RX_DESC_THLD_STAT"

\* Where a crossing is.  An edge needs that the cell saw no interrupt in the
\* clock before; it does not, as the write strobe is never up for two clocks.
OnItsWay == write_r /\ ready_thld_trig /\ T \notin irq_r /\ T \in Enabled
Noticed == crossed => OnItsWay \/ T \in trg \intersect Enabled \/ T \in Status

-----------------------------------------------------------------------------
(* The registers. *)

LEMMA ThldBit ==
    /\ T \in Cells /\ CellBit(T) = 11 .. 11
    /\ T \in DOMAIN INTERRUPT_STATUS.fields
    /\ INTERRUPT_STATUS.fields[T].bits = 11 .. 11
    /\ ~INTERRUPT_STATUS.fields[T].rclr
    /\ "RX_DESC_THLD_STAT_EN" \in DOMAIN INTERRUPT_ENABLE.fields
    /\ INTERRUPT_ENABLE.fields["RX_DESC_THLD_STAT_EN"].bits = 11 .. 11
    /\ ~INTERRUPT_ENABLE.fields["RX_DESC_THLD_STAT_EN"].rclr
<1>1. T \in Cells /\ T \in DOMAIN INTERRUPT_STATUS.fields
  BY DEF T, Cells, INTERRUPT_STATUS, Csr
<1>2. INTERRUPT_STATUS.fields[T] = woclr(Field(11, 11, 0, "rw", "rw"))
  BY DEF T, INTERRUPT_STATUS, Csr
<1>3. /\ INTERRUPT_STATUS.fields[T].bits = 11 .. 11
      /\ ~INTERRUPT_STATUS.fields[T].rclr
  BY <1>2 DEF woclr, Field
<1>4. /\ "RX_DESC_THLD_STAT_EN" \in DOMAIN INTERRUPT_ENABLE.fields
      /\ INTERRUPT_ENABLE.fields["RX_DESC_THLD_STAT_EN"] = Field(11, 11, 0, "rw", "r")
  BY DEF INTERRUPT_ENABLE, Csr
<1> QED
  BY <1>1, <1>3, <1>4 DEF CellBit, Field

\* A field without read side effects that nobody writes keeps its bits.
LEMMA FieldKept ==
    ASSUME NEW r, NEW n \in DOMAIN r.fields, NEW v, NEW a, NEW hw,
           ~r.fields[n].rclr, a.op # "write", n \notin DOMAIN hw,
           r.fields[n].bits \subseteq v
    PROVE  r.fields[n].bits \subseteq RegNext(r, v, a, hw)
<1>1. FieldNext(r, n, v, a, hw) = r.fields[n].bits
  BY DEF FieldNext
<1> QED
  BY <1>1 DEF RegNext

\* One that the hardware writes takes its value.
LEMMA FieldDriven ==
    ASSUME NEW r, NEW n \in DOMAIN r.fields, NEW v, NEW a, NEW hw,
           ~r.fields[n].rclr, a.op # "write", n \in DOMAIN hw
    PROVE  hw[n] \subseteq RegNext(r, v, a, hw)
<1>1. FieldNext(r, n, v, a, hw) = hw[n]
  BY DEF FieldNext
<1> QED
  BY <1>1 DEF RegNext

\* The part of a clock that the lemmas below speak of: an access of software to
\* a register, and no write.
Registers(reg, a) ==
    /\ a.op # "write"
    /\ csr' = [r \in DOMAIN Regs |->
                 RegNext(Regs[r], csr[r], IF r = reg THEN a ELSE NoAccess,
                         HwWrites(r, reg))]

LEMMA RegsAre ==
    /\ Regs["INTERRUPT_STATUS"] = INTERRUPT_STATUS
    /\ Regs["INTERRUPT_ENABLE"] = INTERRUPT_ENABLE
    /\ "INTERRUPT_STATUS" \in DOMAIN Regs /\ "INTERRUPT_ENABLE" \in DOMAIN Regs
BY DEF Regs

\* The enable stays.
LEMMA EnableKept ==
    ASSUME NEW reg, NEW a, Registers(reg, a), T \in Enabled
    PROVE  T \in Enabled'
<1> DEFINE x == IF "INTERRUPT_ENABLE" = reg THEN a ELSE NoAccess
<1>1. csr'["INTERRUPT_ENABLE"]
        = RegNext(INTERRUPT_ENABLE, csr["INTERRUPT_ENABLE"], x, NoHw)
  BY RegsAre, Zenon DEF Registers, HwWrites
<1>2. x.op # "write"
  BY DEF Registers, NoAccess
<1>3. 11 .. 11 \subseteq csr["INTERRUPT_ENABLE"]
  BY ThldBit DEF Enabled, In
<1>4. "RX_DESC_THLD_STAT_EN" \notin DOMAIN NoHw
  BY DEF NoHw
<1> HIDE DEF x
<1>5. 11 .. 11 \subseteq RegNext(INTERRUPT_ENABLE, csr["INTERRUPT_ENABLE"], x, NoHw)
  BY <1>2, <1>3, <1>4, ThldBit, FieldKept
<1> QED
  BY <1>1, <1>5, ThldBit DEF Enabled, In

\* A trigger of an enabled cell sets the status.
LEMMA StatusRises ==
    ASSUME NEW reg, NEW a, Registers(reg, a),
           T \in trg, T \in Enabled
    PROVE  T \in Status'
<1> DEFINE x == IF "INTERRUPT_STATUS" = reg THEN a ELSE NoAccess
           hw == StatusHw(reg)
<1>1. csr'["INTERRUPT_STATUS"]
        = RegNext(INTERRUPT_STATUS, csr["INTERRUPT_STATUS"], x, hw)
  BY RegsAre, Zenon DEF Registers, HwWrites
<1>2. x.op # "write"
  BY DEF Registers, NoAccess
<1>3. T \in DOMAIN hw /\ hw[T] = 11 .. 11
  BY ThldBit DEF StatusHw
<1> HIDE DEF x, hw
<1>4. 11 .. 11 \subseteq RegNext(INTERRUPT_STATUS, csr["INTERRUPT_STATUS"], x, hw)
  BY <1>2, <1>3, ThldBit, FieldDriven
<1> QED
  BY <1>1, <1>4, ThldBit DEF Status, In

\* The status falls only with a descriptor that is read.
LEMMA StatusKept ==
    ASSUME NEW reg, NEW a, Registers(reg, a),
           ~ack_o, T \in Status
    PROVE  T \in Status'
<1> DEFINE x == IF "INTERRUPT_STATUS" = reg THEN a ELSE NoAccess
           hw == StatusHw(reg)
<1>1. csr'["INTERRUPT_STATUS"]
        = RegNext(INTERRUPT_STATUS, csr["INTERRUPT_STATUS"], x, hw)
  BY RegsAre, Zenon DEF Registers, HwWrites
<1>2. x.op # "write"
  BY DEF Registers, NoAccess
<1>3. 11 .. 11 \subseteq csr["INTERRUPT_STATUS"]
  BY ThldBit DEF Status, In
<1>4. T \notin clr_i(reg)
  BY DEF clr_i, T, P!rd_ack, P!AnswerEmpty, P!ReadStrobe
<1>5. CASE T \in trg /\ T \in Enabled
  BY <1>5, StatusRises
<1>6. CASE ~(T \in trg /\ T \in Enabled)
  <2>1. T \notin DOMAIN hw
    BY <1>4, <1>6 DEF StatusHw
  <2> HIDE DEF x, hw
  <2>2. 11 .. 11 \subseteq RegNext(INTERRUPT_STATUS, csr["INTERRUPT_STATUS"], x, hw)
    BY <1>2, <1>3, <2>1, ThldBit, FieldKept
  <2> QED
    BY <1>1, <2>2, ThldBit DEF Status, In
<1> QED
  BY <1>5, <1>6

-----------------------------------------------------------------------------
(* The invariant. *)

LEMMA NoticedInit == Init => Noticed
BY DEF Init, Noticed

\* Every action is a clock with some access.
LEMMA NextIsClock == Next => \E reg, a : Clock(reg, a)
<1>1. ASSUME Idle PROVE \E reg, a : Clock(reg, a)
  BY <1>1 DEF Idle
<1>2. ASSUME SetRead PROVE \E reg, a : Clock(reg, a)
  BY <1>2 DEF SetRead
<1>3. ASSUME SetWrite PROVE \E reg, a : Clock(reg, a)
  BY <1>3 DEF SetWrite
<1>4. ASSUME CheckField PROVE \E reg, a : Clock(reg, a)
  BY <1>4 DEF CheckField
<1>5. ASSUME ReadPort PROVE \E reg, a : Clock(reg, a)
  BY <1>5 DEF ReadPort
<1>6. ASSUME ReadOther PROVE \E reg, a : Clock(reg, a)
  BY <1>6 DEF ReadOther
<1>7. ASSUME WaitIrq \/ StaysLow \/ Rest PROVE \E reg, a : Clock(reg, a)
  BY <1>7 DEF WaitIrq, StaysLow, Rest
<1> QED
  BY <1>1, <1>2, <1>3, <1>4, <1>5, <1>6, <1>7 DEF Next, Software

LEMMA ClockNotices ==
    ASSUME NEW reg, NEW a, Clock(reg, a), Noticed, crossed'
    PROVE  Noticed'
<1>1. PICK wdata \in {<<>>} \union (IF write_r THEN {} ELSE {<<"desc">>}),
           pulses \in SUBSET (program.own \ RxStats) :
        /\ Hardware(reg, a, wdata, pulses)
        /\ ~ack_o /\ a.op # "write"
        /\ \/ crossed
           \/ /\ write_r' /\ ready_thld_o'["RX_DESC_THLD"] # 0
              /\ Len(fifo') >= ready_thld_o'["RX_DESC_THLD"]
              /\ T \in Enabled \ Forced
  BY DEF Clock, T
<1>2. Registers(reg, a)
  BY <1>1 DEF Hardware, Registers
<1>3. /\ irq_r' = irq_i(pulses) \union Forced
      /\ trg' = (irq_i(pulses) \union Forced) \ irq_r
      /\ write_r' => wdata # <<>>
  BY <1>1 DEF Hardware
<1>4. CASE T \in Status
  BY <1>1, <1>2, <1>4, StatusKept DEF Noticed
<1>5. CASE T \in trg \intersect Enabled
  BY <1>2, <1>5, StatusRises DEF Noticed
<1>6. CASE OnItsWay
  <2>1. T \in irq_i(pulses)
    BY <1>6 DEF OnItsWay, irq_i, T
  <2>2. T \in Enabled'
    BY <1>2, <1>6, EnableKept DEF OnItsWay
  <2> QED
    BY <1>3, <1>6, <2>1, <2>2 DEF OnItsWay, Noticed
<1>7. CASE ~crossed
  <2>1. T \in Enabled' /\ write_r' /\ ready_thld_trig'
    BY <1>1, <1>2, <1>7, EnableKept DEF ready_thld_trig
  <2>2. ~write_r
    BY <1>1, <1>3, <2>1
  <2>3. T \notin irq_r'
    <3>1. T \notin pulses
      BY <1>1 DEF RxStats, T
    <3>2. T \notin irq_i(pulses)
      BY <2>2, <3>1 DEF irq_i
    <3> QED
      BY <1>1, <1>3, <1>7, <3>2
  <2> QED
    BY <2>1, <2>3 DEF OnItsWay, Noticed
<1> QED
  BY <1>4, <1>5, <1>6, <1>7 DEF Noticed

LEMMA NoticedStep == Noticed /\ [Next]_vars => Noticed'
<1>1. ASSUME Noticed, Next PROVE Noticed'
  <2>1. PICK reg, a : Clock(reg, a)
    BY <1>1, NextIsClock
  <2> QED
    BY <1>1, <2>1, ClockNotices DEF Noticed
<1>2. ASSUME Noticed, UNCHANGED vars PROVE Noticed'
  BY <1>2 DEF Noticed, OnItsWay, vars, port, cells, thresholds, software, ready_thld_trig, Enabled,
              Status, In
<1> QED
  BY <1>1, <1>2

-----------------------------------------------------------------------------
(* The theorems. *)

\* A crossing is on its way or in the status, at any time.
THEOREM CrossingInvariance == Spec => []Noticed
BY NoticedInit, NoticedStep, PTL DEF Spec

\* A descriptor that brings the level to the threshold of its queue is noticed.
THEOREM CrossingsNoticed == Spec => []CrossingNoticed
<1>1. Noticed => CrossingNoticed
  BY DEF Noticed, OnItsWay, CrossingNoticed, T
<1> QED
  BY <1>1, CrossingInvariance, PTL

-----------------------------------------------------------------------------
(***************************************************************************)
(* The thresholds.                                                          *)
(***************************************************************************)

Q == "QUEUE_THLD_CTRL"
QFields == {"TX_DESC_THLD", "RX_DESC_THLD", "IBI_THLD"}
F(n) == QUEUE_THLD_CTRL.fields[n]

\* Programs set thresholds that there are, to values of eight bits.
ThldsFit ==
    \A p \in Programs : \A i \in 1 .. Len(p.ops) :
        p.ops[i].do = "set" /\ p.ops[i].reg = Q =>
            p.ops[i].field \in QFields /\ p.ops[i].data \subseteq 0 .. 7

\* The value that the queue of t is to use.
Goal(t) == Limited(t, Number(requested[t]))

\* Field n of a word is as requested: before the write-back or after it.
Recent(n, w) ==
    IF n \in Thlds
    THEN Number(FieldOf(F(n), w)) \in {Number(requested[n]), Goal(n)}
    ELSE FieldOf(F(n), w) = requested[n]

\* The register is recent.  The queues get the value to use one clock after a
\* write, the write-back goes on with it, and ends with it in the register.
Levels ==
    /\ \A n \in QFields : Recent(n, csr[Q])
    /\ swmod_q \in BOOLEAN /\ thld_we \in BOOLEAN
    /\ swmod_q => ~thld_we
    /\ ~swmod_q => \A t \in Thlds : ready_thld_o[t] = Goal(t)
    /\ ~swmod_q /\ ~thld_we => \A t \in Thlds : Thld(t) = Goal(t)

\* So is the word that a read-modify-write holds, which was read before a
\* write-back or after it.  Two writes leave a clock for the read of the second
\* between them, and so no write-back meets the value of a write in the making.
Held ==
    /\ swmod_q => got = {}
    /\ got # {} => /\ Current.do = "set"
                   /\ Current.reg = Q =>
                        \E w : got = {w} /\ \A n \in QFields : Recent(n, w)

ThldInv ==
    /\ program \in Programs /\ DOMAIN requested = QFields
    /\ Levels /\ Held

-----------------------------------------------------------------------------
(* Numbers and fields. *)

\* A number that fits a field is the number of its bits.
LEMMA NumberOfBits ==
    /\ \A n \in 0 .. 255 : Number(Bits(n)) = n
    /\ \A w : Number(w) \in 0 .. 255
<1>1. ASSUME NEW n \in 0 .. 255 PROVE Number(Bits(n)) = n
  BY DEF Number, Bits
<1>2. ASSUME NEW w PROVE Number(w) \in 0 .. 255
  BY DEF Number
<1> QED
  BY <1>1, <1>2

\* A limited value fits its field, and limiting it once more changes nothing.
LEMMA LimitStays ==
    ASSUME NEW t \in Thlds, NEW n \in 0 .. 255
    PROVE  /\ Limited(t, n) \in 0 .. 255
           /\ Limited(t, Limited(t, n)) = Limited(t, n)
BY DepthAssumption DEF Limited, Entries

\* The layout of the register: three fields of eight bits that do not overlap.
LEMMA ThldFields ==
    /\ Regs[Q] = QUEUE_THLD_CTRL /\ Q \in DOMAIN Regs
    /\ DOMAIN QUEUE_THLD_CTRL.fields = QFields
    /\ Thlds \subseteq QFields
    /\ \A n \in QFields :
          /\ F(n).low \in Nat
          /\ F(n).bits = F(n).low .. (F(n).low + 7)
          /\ F(n).sw = "rw" /\ ~F(n).rclr /\ ~F(n).woclr
          /\ n \notin wset
    /\ \A n, m \in QFields : n # m => F(n).bits \intersect F(m).bits = {}
<1>1. /\ DOMAIN QUEUE_THLD_CTRL.fields = QFields
      /\ F("TX_DESC_THLD") = Field(0, 7, 1, "rw", "rw")
      /\ F("RX_DESC_THLD") = Field(8, 15, 1, "rw", "rw")
      /\ F("IBI_THLD") = Field(24, 31, 1, "rw", "rw")
  BY DEF QUEUE_THLD_CTRL, Csr, QFields, F
<1>2. \A n \in QFields :
          /\ F(n).low \in Nat
          /\ F(n).bits = F(n).low .. (F(n).low + 7)
          /\ F(n).sw = "rw" /\ ~F(n).rclr /\ ~F(n).woclr
          /\ n \notin wset
  <2>1. /\ F("TX_DESC_THLD").low = 0 /\ F("RX_DESC_THLD").low = 8
        /\ F("IBI_THLD").low = 24
        /\ F("TX_DESC_THLD").bits = 0 .. 7 /\ F("RX_DESC_THLD").bits = 8 .. 15
        /\ F("IBI_THLD").bits = 24 .. 31
    BY <1>1 DEF Field
  <2>2. ASSUME NEW n \in QFields
        PROVE  F(n).sw = "rw" /\ ~F(n).rclr /\ ~F(n).woclr /\ n \notin wset
    BY <1>1 DEF QFields, Field, wset
  <2>3. ASSUME NEW n \in QFields
        PROVE  F(n).low \in Nat /\ F(n).bits = F(n).low .. (F(n).low + 7)
    <3>1. CASE n = "TX_DESC_THLD"
      <4>1. F(n).low = 0 /\ F(n).bits = 0 .. 7
        BY <2>1, <3>1, Zenon
      <4>2. 7 = 0 + 7 /\ 0 \in Nat
        OBVIOUS
      <4> QED
        BY <4>1, <4>2, Zenon
    <3>2. CASE n = "RX_DESC_THLD"
      <4>1. F(n).low = 8 /\ F(n).bits = 8 .. 15
        BY <2>1, <3>2, Zenon
      <4>2. 15 = 8 + 7 /\ 8 \in Nat
        OBVIOUS
      <4> QED
        BY <4>1, <4>2, Zenon
    <3>3. CASE n = "IBI_THLD"
      <4>1. F(n).low = 24 /\ F(n).bits = 24 .. 31
        BY <2>1, <3>3, Zenon
      <4>2. 31 = 24 + 7 /\ 24 \in Nat
        OBVIOUS
      <4> QED
        BY <4>1, <4>2, Zenon
    <3> QED
      BY <3>1, <3>2, <3>3 DEF QFields
  <2> QED
    BY <2>2, <2>3
<1>3. \A n, m \in QFields : n # m => F(n).bits \intersect F(m).bits = {}
  <2>1. /\ F("TX_DESC_THLD").bits = 0 .. 7 /\ F("RX_DESC_THLD").bits = 8 .. 15
        /\ F("IBI_THLD").bits = 24 .. 31
    BY <1>1 DEF Field
  <2> QED
    BY <2>1 DEF QFields
<1> QED
  BY <1>1, <1>2, <1>3 DEF Regs, Q, Thlds, QFields

\* A value of eight bits fills its field and nothing else, and comes back.
LEMMA InField ==
    ASSUME NEW n \in QFields, NEW data, data \subseteq 0 .. 7
    PROVE  /\ Place(F(n), data) \subseteq F(n).bits
           /\ FieldOf(F(n), Place(F(n), data)) = data
<1>1. F(n).low \in Nat /\ F(n).bits = F(n).low .. (F(n).low + 7)
  BY ThldFields
<1>2. Place(F(n), data) \subseteq F(n).bits
  BY <1>1 DEF Place
<1>3. ASSUME NEW c \in data PROVE c \in FieldOf(F(n), Place(F(n), data))
  <2>1. c + F(n).low \in Place(F(n), data)
    BY DEF Place
  <2>2. c = (c + F(n).low) - F(n).low
    BY <1>1
  <2> QED
    BY <1>2, <2>1, <2>2 DEF FieldOf
<1>4. ASSUME NEW x \in FieldOf(F(n), Place(F(n), data)) PROVE x \in data
  <2>1. PICK b \in Place(F(n), data) : x = b - F(n).low
    BY DEF FieldOf
  <2>2. PICK c \in data : b = c + F(n).low
    BY <2>1 DEF Place
  <2> QED
    BY <1>1, <2>1, <2>2
<1> QED
  BY <1>2, <1>3, <1>4

\* The bits of a limited value fit.
LEMMA BitsFit == ASSUME NEW n \in 0 .. 255 PROVE Bits(n) \subseteq 0 .. 7
<1>1. ASSUME NEW b \in 8 .. 30 PROVE n \div 2^b = 0
  <2>1. ASSUME NEW c \in Nat
        PROVE  IsFiniteSet(SUBSET (1 .. c)) /\ Cardinality(SUBSET (1 .. c)) = 2^c
    <3>1. IsFiniteSet(1 .. c) /\ Cardinality(1 .. c) = c
      BY FS_Interval
    <3> QED
      BY <3>1, FS_SUBSET
  <2>2. SUBSET (1 .. 8) \subseteq SUBSET (1 .. b)
    OBVIOUS
  <2>3. /\ IsFiniteSet(SUBSET (1 .. b)) /\ Cardinality(SUBSET (1 .. b)) = 2^b
        /\ Cardinality(SUBSET (1 .. 8)) = 2^8 /\ 2^8 = 256
    <3>1. 8 \in Nat /\ b \in Nat /\ 2^8 = 256
      OBVIOUS
    <3> QED
      BY <2>1, <3>1, Zenon
  <2>4. /\ Cardinality(SUBSET (1 .. b)) \in Nat
        /\ Cardinality(SUBSET (1 .. 8)) <= Cardinality(SUBSET (1 .. b))
    BY <2>2, <2>3, FS_Subset, FS_CardinalityType, Zenon
  <2>5. 2^b \in Nat /\ 2^b > n
    <3>1. 2^b \in Nat /\ 256 <= 2^b
      BY <2>3, <2>4, Zenon
    <3> DEFINE p == 2^b
    <3> HIDE DEF p
    <3>2. p \in Nat /\ 256 <= p => p > n
      OBVIOUS
    <3> QED
      BY <3>1, <3>2, Zenon DEF p
  <2>6. \A p \in Nat : p > n => n \div p = 0
    OBVIOUS
  <2> QED
    BY <2>5, <2>6
<1>2. ASSUME NEW b \in Bits(n) PROVE b \in 0 .. 7
  <2>1. b \in 0 .. 30 /\ (n \div 2^b) % 2 = 1
    BY DEF Bits
  <2>2. 0 % 2 # 1
    OBVIOUS
  <2>3. b \notin 8 .. 30
    BY <1>1, <2>1, <2>2, Zenon
  <2> QED
    BY <2>1, <2>3
<1> QED
  BY <1>2

-----------------------------------------------------------------------------
(* The clocks. *)

\* What the hardware writes stays in the fields.
LEMMA ThldHw ==
    ASSUME thld_we => \A t \in Thlds : ready_thld_o[t] \in 0 .. 255
    PROVE  /\ DOMAIN thld_hw = IF thld_we THEN Thlds ELSE {}
           /\ \A t \in DOMAIN thld_hw :
                 /\ thld_hw[t] = Place(F(t), Bits(ready_thld_o[t]))
                 /\ thld_hw[t] \subseteq F(t).bits
<1>1. CASE thld_we
  <2>1. ASSUME NEW t \in Thlds
        PROVE  Place(F(t), Bits(ready_thld_o[t])) \subseteq F(t).bits
    <3>1. Bits(ready_thld_o[t]) \subseteq 0 .. 7
      BY <1>1, BitsFit
    <3> QED
      BY <3>1, InField, ThldFields
  <2> QED
    BY <1>1, <2>1 DEF thld_hw, F
<1>2. CASE ~thld_we
  BY <1>2 DEF thld_hw, NoHw
<1> QED
  BY <1>1, <1>2

\* The part of the next word that lies in a field is the next value of the field.
LEMMA OwnPart ==
    ASSUME NEW n \in QFields, NEW v, NEW a, NEW hw,
           \A m \in QFields \intersect DOMAIN hw : hw[m] \subseteq F(m).bits
    PROVE  RegNext(QUEUE_THLD_CTRL, v, a, hw) \intersect F(n).bits
             = FieldNext(QUEUE_THLD_CTRL, n, v, a, hw)
<1>1. \A m \in QFields : FieldNext(QUEUE_THLD_CTRL, m, v, a, hw) \subseteq F(m).bits
  BY ThldFields DEF FieldNext, F
<1>2. \A b : b \in RegNext(QUEUE_THLD_CTRL, v, a, hw)
              <=> \E m \in QFields : b \in FieldNext(QUEUE_THLD_CTRL, m, v, a, hw)
  BY ThldFields DEF RegNext
<1> QED
  BY <1>1, <1>2, ThldFields

\* One clock: the software accesses register reg.
ThldClock(reg, a) ==
    /\ swmod_q' = (reg = Q /\ a.op = "write")
    /\ thld_we' = swmod_q
    /\ ready_thld_o' = [t \in Thlds |-> Limited(t, Thld(t))]
    /\ csr'[Q] = RegNext(QUEUE_THLD_CTRL, csr[Q], IF reg = Q THEN a ELSE NoAccess,
                         thld_hw)

LEMMA ClockIsThldClock ==
    ASSUME NEW reg, NEW a, Clock(reg, a)
    PROVE  ThldClock(reg, a)
<1>1. PICK wdata, pulses : Hardware(reg, a, wdata, pulses)
  BY DEF Clock
<1>2. csr'[Q] = RegNext(Regs[Q], csr[Q], IF Q = reg THEN a ELSE NoAccess,
                        HwWrites(Q, reg))
  BY <1>1, ThldFields, Zenon DEF Hardware
<1>3. HwWrites(Q, reg) = thld_hw
  BY DEF HwWrites, Q
<1> QED
  BY <1>1, <1>2, <1>3, ThldFields DEF Hardware, ThldClock, Q

\* The value to use fits its field, and is not limited further.
LEMMA GoalFits ==
    ASSUME NEW t \in Thlds
    PROVE  /\ Goal(t) \in 0 .. 255
           /\ Limited(t, Number(requested[t])) = Goal(t)
           /\ Limited(t, Goal(t)) = Goal(t)
<1>1. Number(requested[t]) \in 0 .. 255
  BY NumberOfBits
<1> QED
  BY <1>1, LimitStays DEF Goal

\* In the clock of the write-back the queues have the value to use.
LEMMA ReadyFits ==
    ASSUME Levels, thld_we, NEW t \in Thlds
    PROVE  ready_thld_o[t] = Goal(t) /\ ready_thld_o[t] \in 0 .. 255
BY GoalFits DEF Levels

\* A clock in which the software does not write the register.
LEMMA QuietLevels ==
    ASSUME Levels, NEW reg, NEW a, ThldClock(reg, a), ~(reg = Q /\ a.op = "write"),
           UNCHANGED requested
    PROVE  Levels'
<1> DEFINE x == IF reg = Q THEN a ELSE NoAccess
           v == RegNext(QUEUE_THLD_CTRL, csr[Q], x, thld_hw)
<1>1. x.op # "write" /\ csr'[Q] = v
  BY DEF ThldClock, NoAccess
<1>2. /\ DOMAIN thld_hw = IF thld_we THEN Thlds ELSE {}
      /\ \A t \in DOMAIN thld_hw :
            /\ thld_hw[t] = Place(F(t), Bits(ready_thld_o[t]))
            /\ thld_hw[t] \subseteq F(t).bits
  <2>1. thld_we => \A t \in Thlds : ready_thld_o[t] \in 0 .. 255
    BY ReadyFits
  <2> QED
    BY <2>1, ThldHw
<1> HIDE DEF x
<1>3. ASSUME NEW n \in QFields
      PROVE  v \intersect F(n).bits = IF n \in DOMAIN thld_hw THEN thld_hw[n]
                                      ELSE csr[Q] \intersect F(n).bits
  <2>1. v \intersect F(n).bits = FieldNext(QUEUE_THLD_CTRL, n, csr[Q], x, thld_hw)
    BY <1>2, OwnPart
  <2>2. FieldNext(QUEUE_THLD_CTRL, n, csr[Q], x, thld_hw)
          = IF n \in DOMAIN thld_hw THEN thld_hw[n] ELSE csr[Q] \intersect F(n).bits
    BY <1>1, ThldFields DEF FieldNext, F
  <2> QED
    BY <2>1, <2>2
<1> HIDE DEF v
<1>4. ASSUME NEW n \in QFields
      PROVE  FieldOf(F(n), v) = IF n \in DOMAIN thld_hw THEN Bits(ready_thld_o[n])
                                ELSE FieldOf(F(n), csr[Q])
  <2>1. CASE n \in DOMAIN thld_hw
    <3>1. n \in Thlds /\ thld_we
      BY <1>2, <2>1
    <3>2. Bits(ready_thld_o[n]) \subseteq 0 .. 7
      BY <3>1, ReadyFits, BitsFit
    <3>3. v \intersect F(n).bits = Place(F(n), Bits(ready_thld_o[n])) \intersect F(n).bits
      BY <1>2, <1>3, <2>1
    <3>4. FieldOf(F(n), v) = FieldOf(F(n), Place(F(n), Bits(ready_thld_o[n])))
      BY <3>3 DEF FieldOf
    <3> QED
      BY <2>1, <3>2, <3>4, InField
  <2>2. CASE n \notin DOMAIN thld_hw
    BY <1>3, <2>2 DEF FieldOf
  <2> QED
    BY <2>1, <2>2
<1>5. ASSUME NEW t \in Thlds, thld_we
      PROVE  Number(FieldOf(F(t), v)) = Goal(t)
  <2>1. FieldOf(F(t), v) = Bits(ready_thld_o[t])
    BY <1>2, <1>4, <1>5, ThldFields
  <2> QED
    BY <1>5, <2>1, ReadyFits, NumberOfBits
<1>6. \A n \in QFields : Recent(n, v)
  <2>1. ASSUME NEW n \in QFields, n \in Thlds, thld_we PROVE Recent(n, v)
    BY <1>5, <2>1 DEF Recent
  <2>2. ASSUME NEW n \in QFields, ~(n \in Thlds /\ thld_we) PROVE Recent(n, v)
    <3>1. FieldOf(F(n), v) = FieldOf(F(n), csr[Q])
      BY <1>2, <1>4, <2>2
    <3> QED
      BY <3>1 DEF Levels, Recent
  <2> QED
    BY <2>1, <2>2
<1>7. \A n : Goal(n)' = Goal(n)
  BY DEF Goal, Limited, Entries
<1>8. (\A n \in QFields : Recent(n, csr[Q]))'
  BY <1>1, <1>6, <1>7 DEF Recent
<1>9. swmod_q' = FALSE /\ thld_we' = swmod_q
  BY DEF ThldClock
<1>10. ASSUME NEW t \in Thlds PROVE ready_thld_o'[t] = Goal(t)
  <2>1. Thld(t) = Number(FieldOf(F(t), csr[Q]))
    BY DEF Thld, F, Q
  <2>2. Thld(t) \in {Number(requested[t]), Goal(t)}
    BY <2>1, ThldFields DEF Levels, Recent
  <2>3. Limited(t, Thld(t)) = Goal(t)
    BY <2>2, GoalFits
  <2> QED
    BY <2>3 DEF ThldClock
<1>11. ASSUME ~thld_we', NEW t \in Thlds PROVE Thld(t)' = Goal(t)
  <2>1. Thld(t)' = Number(FieldOf(F(t), v))
    BY <1>1 DEF Thld, F, Q
  <2>2. CASE thld_we
    BY <1>5, <2>1, <2>2
  <2>3. CASE ~thld_we
    <3>1. FieldOf(F(t), v) = FieldOf(F(t), csr[Q])
      BY <1>2, <1>4, <2>3, ThldFields
    <3>2. Thld(t) = Goal(t)
      BY <1>9, <1>11, <2>3 DEF Levels
    <3> QED
      BY <2>1, <3>1, <3>2 DEF Thld, F, Q
  <2> QED
    BY <2>2, <2>3 DEF Levels
<1> QED
  BY <1>7, <1>8, <1>9, <1>10, <1>11 DEF Levels

\* The write of a read-modify-write: the field that it names takes the new value,
\* the others keep one that is recent.
LEMMA WriteLevels ==
    ASSUME Levels, NEW n \in QFields, NEW data, data \subseteq 0 .. 7, NEW w,
           \A m \in QFields : Recent(m, w),
           ThldClock(Q, Write(WithField(F(n), w, data))),
           n \in DOMAIN requested, ~swmod_q,
           requested' = [requested EXCEPT ![n] = data]
    PROVE  Levels' /\ swmod_q'
<1> DEFINE word == WithField(F(n), w, data)
           v == RegNext(QUEUE_THLD_CTRL, csr[Q], Write(word), thld_hw)
<1>1. csr'[Q] = v /\ swmod_q' /\ ~thld_we'
  BY Zenon DEF ThldClock, Write
<1>2. thld_we => \A t \in Thlds : ready_thld_o[t] \in 0 .. 255
  BY ReadyFits
<1>3. ASSUME NEW m \in QFields
      PROVE  v \intersect F(m).bits = word \intersect F(m).bits
  <2>1. v \intersect F(m).bits
          = FieldNext(QUEUE_THLD_CTRL, m, csr[Q], Write(word), thld_hw)
    BY <1>2, ThldHw, OwnPart
  <2> QED
    BY <2>1, ThldFields DEF FieldNext, F, Write
<1>4. ASSUME NEW m \in QFields, m # n
      PROVE  FieldOf(F(m), v) = FieldOf(F(m), w)
  <2>1. word \intersect F(m).bits = w \intersect F(m).bits
    BY <1>4, InField, ThldFields DEF WithField
  <2> QED
    BY <1>3, <2>1 DEF FieldOf
<1>5. FieldOf(F(n), v) = data
  <2>1. word \intersect F(n).bits = Place(F(n), data) \intersect F(n).bits
    BY InField DEF WithField
  <2>2. FieldOf(F(n), v) = FieldOf(F(n), Place(F(n), data))
    BY <1>3, <2>1 DEF FieldOf
  <2> QED
    BY <2>2, InField
<1> HIDE DEF v, word
<1>6. ASSUME NEW m \in QFields PROVE Recent(m, csr[Q])'
  <2>1. CASE m = n
    <3>1. FieldOf(F(m), csr'[Q]) = requested'[m]
      BY <1>1, <1>5, <2>1
    <3> QED
      BY <3>1 DEF Recent
  <2>2. CASE m # n
    <3>1. requested'[m] = requested[m] /\ Goal(m)' = Goal(m)
      BY <2>2 DEF Goal, Limited, Entries
    <3>2. FieldOf(F(m), csr'[Q]) = FieldOf(F(m), w)
      BY <1>1, <1>4, <2>2
    <3>3. Recent(m, w)
      OBVIOUS
    <3> QED
      BY <3>1, <3>2, <3>3 DEF Recent
  <2> QED
    BY <2>1, <2>2
<1>7. (\A m \in QFields : Recent(m, csr[Q]))'
  BY <1>6
<1>8. swmod_q' \in BOOLEAN /\ thld_we' \in BOOLEAN
  BY DEF ThldClock, Levels
<1> QED
  BY <1>1, <1>7, <1>8, Zenon DEF Levels

-----------------------------------------------------------------------------
(* The invariant. *)

\* After reset every threshold is one.
LEMMA ResetFields ==
    ASSUME NEW v \in ResetWords(QUEUE_THLD_CTRL), NEW n \in QFields
    PROVE  FieldOf(F(n), v) = {0}
<1> DEFINE f(m) == {b + F(m).low : b \in Bits(F(m).reset)}
<1>1. \A m \in QFields : F(m).reset = 1
  <2>1. /\ F("TX_DESC_THLD") = Field(0, 7, 1, "rw", "rw")
        /\ F("RX_DESC_THLD") = Field(8, 15, 1, "rw", "rw")
        /\ F("IBI_THLD") = Field(24, 31, 1, "rw", "rw")
    BY DEF QUEUE_THLD_CTRL, Csr, F
  <2> QED
    BY <2>1 DEF QFields, Field
<1>2. Bits(1) = {0}
  <2>1. /\ 1 \notin Bits(1) /\ 2 \notin Bits(1) /\ 3 \notin Bits(1) /\ 4 \notin Bits(1)
        /\ 5 \notin Bits(1) /\ 6 \notin Bits(1) /\ 7 \notin Bits(1)
    BY DEF Bits
  <2>2. 0 \in Bits(1)
    BY DEF Bits
  <2>3. 0 .. 7 = {0, 1, 2, 3, 4, 5, 6, 7}
    OBVIOUS
  <2> QED
    BY <2>1, <2>2, <2>3, BitsFit
<1>3. \A m \in QFields : f(m) = {F(m).low}
  <2>1. ASSUME NEW m \in QFields PROVE f(m) = {F(m).low}
    <3>1. f(m) = {b + F(m).low : b \in {0}}
      BY <1>1, <1>2
    <3>2. F(m).low \in Nat
      BY ThldFields
    <3> QED
      BY <3>1, <3>2
  <2> QED
    BY <2>1
<1>4. v = UNION {f(m) : m \in QFields}
  <2> DEFINE S == {m \in DOMAIN QUEUE_THLD_CTRL.fields :
                     QUEUE_THLD_CTRL.fields[m].reset # Unset}
             rest == DOMAIN QUEUE_THLD_CTRL.fields \ S
  <2>1. v \in {(UNION {f(m) : m \in S}) \union u :
                 u \in SUBSET UNION {QUEUE_THLD_CTRL.fields[m].bits : m \in rest}}
    BY Zenon DEF ResetWords, F
  <2>2. S = QFields
    BY <1>1, ThldFields DEF Unset, F
  <2>3. rest = {}
    BY <2>2, ThldFields
  <2> HIDE DEF S, rest, f
  <2>4. UNION {QUEUE_THLD_CTRL.fields[m].bits : m \in rest} = {}
    BY <2>3
  <2> QED
    BY <2>1, <2>2, <2>4
<1> HIDE DEF f
<1>5. v \intersect F(n).bits = {F(n).low}
  <2>1. \A m \in QFields : F(m).low \in F(m).bits
    BY ThldFields
  <2> QED
    BY <1>3, <1>4, <2>1, ThldFields
<1>6. FieldOf(F(n), v) = {F(n).low - F(n).low}
  BY <1>5 DEF FieldOf
<1>7. F(n).low - F(n).low = 0
  BY ThldFields
<1> QED
  BY <1>6, <1>7

LEMMA ThldInit == ASSUME Init PROVE ThldInv
<1>1. csr[Q] \in ResetWords(QUEUE_THLD_CTRL) /\ requested = [t \in QFields |-> {0}]
  <2>1. csr[Q] = CHOOSE w \in ResetWords(QUEUE_THLD_CTRL) : TRUE
    BY ThldFields, Zenon DEF Init
  <2>2. \E w : w \in ResetWords(QUEUE_THLD_CTRL)
    BY DEF ResetWords
  <2> QED
    BY <2>1, <2>2, ThldFields DEF Init
<1>2. \A n \in QFields : FieldOf(F(n), csr[Q]) = {0}
  BY <1>1, ResetFields
<1>3. Number({0}) = 1
  BY DEF Number
<1>4. \A t \in Thlds : Goal(t) = 1
  BY <1>1, <1>3, DepthAssumption, ThldFields DEF Goal, Limited, Entries
<1> QED
  BY <1>1, <1>2, <1>3, <1>4, ThldFields
     DEF Init, ThldInv, Levels, Held, Recent, Thld, F, Q

\* Every action but the write of a field is a clock without one; the accesses of
\* two of them are part of a read-modify-write.
LEMMA OtherKeeps ==
    ASSUME ThldInv, NEW reg, NEW a, Clock(reg, a), a.op # "write",
           UNCHANGED <<program, got, requested>>, got = {} \/ pc' = pc
    PROVE  ThldInv'
<1>1. Levels'
  BY ClockIsThldClock, QuietLevels DEF ThldInv
<1>2. ~swmod_q'
  BY ClockIsThldClock DEF ThldClock
<1>3. \A n, w : Recent(n, w) => Recent(n, w)'
  BY DEF Recent, Goal, Limited, Entries
<1>4. Held'
  BY <1>2, <1>3 DEF ThldInv, Held, Current
<1> QED
  BY <1>1, <1>4 DEF ThldInv

LEMMA ReadKeeps == ASSUME ThldInv, SetRead PROVE ThldInv'
<1>1. /\ Current.do = "set" /\ Clock(Current.reg, Read)
      /\ got' = {ReadData(Regs[Current.reg], csr[Current.reg])}
      /\ UNCHANGED <<program, pc, requested>>
  BY DEF SetRead
<1>2. Levels' /\ ~swmod_q'
  <2>1. PICK reg, a : Clock(reg, a) /\ reg = Current.reg /\ a = Read
    BY <1>1
  <2>2. a.op # "write"
    BY <2>1 DEF Read
  <2> QED
    <3>1. ThldClock(reg, a)
      BY <2>1, ClockIsThldClock
    <3>2. ~swmod_q'
      BY <2>2, <3>1 DEF ThldClock
    <3>3. UNCHANGED requested /\ Levels
      BY <1>1 DEF ThldInv
    <3> QED
      BY <2>2, <3>1, <3>2, <3>3, QuietLevels
<1>3. ASSUME Current.reg = Q
      PROVE  \E w : got' = {w} /\ \A n \in QFields : Recent(n, w)
  <2> DEFINE w == ReadData(QUEUE_THLD_CTRL, csr[Q])
  <2>1. got' = {w}
    BY <1>1, <1>3, ThldFields
  <2>2. ASSUME NEW n \in QFields PROVE Recent(n, w)
    <3>1. n \in {m \in DOMAIN QUEUE_THLD_CTRL.fields : QUEUE_THLD_CTRL.fields[m].sw # "w"}
      BY ThldFields DEF F
    <3>2. w \intersect F(n).bits = csr[Q] \intersect F(n).bits
      BY <3>1 DEF ReadData, F
    <3>3. FieldOf(F(n), w) = FieldOf(F(n), csr[Q])
      BY <3>2 DEF FieldOf
    <3> QED
      BY <3>3 DEF Recent, ThldInv, Levels
  <2> QED
    BY <2>1, <2>2
<1>4. (\A n, w : Recent(n, w) => Recent(n, w)') /\ Current' = Current
  BY <1>1 DEF Recent, Goal, Limited, Entries, Current
<1>5. Held'
  BY <1>1, <1>2, <1>3, <1>4 DEF Held
<1> QED
  BY <1>1, <1>2, <1>5 DEF ThldInv

LEMMA WriteKeeps == ASSUME ThldsFit, ThldInv, SetWrite PROVE ThldInv'
<1>1. /\ Current.do = "set" /\ got # {} /\ got' = {} /\ program' = program
      /\ ~swmod_q
  BY DEF SetWrite, ThldInv, Held
<1>2. CASE Current.reg = Q
  <2>1. PICK n, data : n = Current.field /\ data = Current.data
    OBVIOUS
  <2>2. n \in QFields /\ data \subseteq 0 .. 7
    <3>1. Current = program.ops[pc] /\ pc \in 1 .. Len(program.ops)
      BY <1>1 DEF Current, NoOperation, Operation, None
    <3> QED
      BY <1>1, <1>2, <2>1, <3>1 DEF ThldsFit, ThldInv
  <2>3. PICK w : got = {w} /\ \A m \in QFields : Recent(m, w)
    BY <1>1, <1>2 DEF ThldInv, Held
  <2>4. Clock(Q, Write(WithField(F(n), w, data)))
    <3>1. UNION got = w
      BY <2>3
    <3> QED
      BY <1>2, <2>1, <3>1, ThldFields, Zenon DEF SetWrite, F
  <2>5. requested' = [requested EXCEPT ![n] = data]
    BY <1>2, <2>1 DEF SetWrite, Q
  <2>6. PICK a : a = Write(WithField(F(n), w, data))
    OBVIOUS
  <2>7. ThldClock(Q, Write(WithField(F(n), w, data)))
    BY <2>4, <2>6, ClockIsThldClock
  <2>8. Levels'
    BY <1>1, <2>2, <2>3, <2>5, <2>7, WriteLevels DEF ThldInv
  <2> QED
    BY <1>1, <2>5, <2>8 DEF ThldInv, Held
<1>3. CASE Current.reg # Q
  <2>1. requested' = requested
    BY <1>3 DEF SetWrite, Q
  <2>2. PICK reg, a : Clock(reg, a) /\ reg # Q
    BY <1>3 DEF SetWrite
  <2>3. Levels'
    BY <2>1, <2>2, ClockIsThldClock, QuietLevels DEF ThldInv
  <2> QED
    BY <1>1, <2>1, <2>3 DEF ThldInv, Held
<1> QED
  BY <1>2, <1>3

LEMMA ThldStep == ASSUME ThldsFit, ThldInv, [Next]_vars PROVE ThldInv'
<1>1. CASE Idle
  BY <1>1, OtherKeeps DEF Idle, NoAccess, software
<1>2. CASE SetRead
  BY <1>2, ReadKeeps
<1>3. CASE SetWrite
  BY <1>3, WriteKeeps
<1>4. CASE CheckField
  BY <1>4, OtherKeeps DEF CheckField, Read, ThldInv, Held
<1>5. CASE ReadPort
  BY <1>5, OtherKeeps DEF ReadPort, Read, NoAccess, ThldInv, Held
<1>6. CASE ReadOther
  BY <1>6, OtherKeeps DEF ReadOther, Read, ThldInv, Held
<1>7. CASE WaitIrq
  BY <1>7, OtherKeeps DEF WaitIrq, NoAccess, ThldInv, Held
<1>8. CASE StaysLow
  BY <1>8, OtherKeeps DEF StaysLow, NoAccess, ThldInv, Held
<1>9. CASE Rest
  BY <1>9, OtherKeeps DEF Rest, NoAccess, ThldInv, Held
<1>10. CASE UNCHANGED vars
  <2>1. UNCHANGED <<csr, swmod_q, thld_we, ready_thld_o, program, pc, got, requested>>
    BY <1>10 DEF vars, thresholds, software
  <2>2. \A n, w : Recent(n, w) => Recent(n, w)'
    BY <2>1 DEF Recent, Goal, Limited, Entries
  <2>3. \A t : Goal(t)' = Goal(t) /\ Thld(t)' = Thld(t)
    BY <2>1 DEF Goal, Limited, Entries, Thld
  <2> QED
    BY <2>1, <2>2, <2>3 DEF ThldInv, Levels, Held, Current
<1> QED
  BY <1>1, <1>2, <1>3, <1>4, <1>5, <1>6, <1>7, <1>8, <1>9, <1>10 DEF Next, Software

-----------------------------------------------------------------------------
(* The theorems. *)

\* Of any program that sets thresholds to values of their fields: the register and
\* the word of a read-modify-write are recent at any time.
THEOREM ThldInvariance == ASSUME ThldsFit PROVE Spec => []ThldInv
<1>1. Init => ThldInv
  BY ThldInit
<1>2. ThldInv /\ [Next]_vars => ThldInv'
  BY ThldStep
<1> QED
  BY <1>1, <1>2, PTL DEF Spec

\* Once the write-back of the last write is done, all the thresholds are as the
\* software asked for last, up to the depths of the queues.
THEOREM ThresholdsHold == ASSUME ThldsFit PROVE Spec => []ThresholdsKept
<1>1. ThldInv => ThresholdsKept
  <2>1. ASSUME Levels, ~swmod_q, ~thld_we, NEW t \in Thlds
        PROVE  Thld(t) = Goal(t) /\ ready_thld_o[t] = Thld(t)
    BY <2>1 DEF Levels
  <2>2. ASSUME Levels PROVE FieldOf(F("IBI_THLD"), csr[Q]) = requested["IBI_THLD"]
    BY <2>2 DEF Levels, Recent, Thlds, QFields
  <2> QED
    BY <2>1, <2>2 DEF ThldInv, ThresholdsKept, Goal, F, Q
<1> QED
  BY <1>1, ThldInvariance, PTL
=============================================================================
