-------------------------- MODULE BypassBootProofs --------------------------
(***************************************************************************)
(* The streaming boot over AXI, with an MCU that waits for EMPTY: the       *)
(* words of every image arrive in order, no access hangs and the indices    *)
(* tell the level, for every depth, every set of images and every pause.    *)
(***************************************************************************)
EXTENDS BypassBoot, SequenceTheorems, TLAPS

(***************************************************************************)
(* The parts of the invariant.                                             *)
(***************************************************************************)
Succ(x) == (x + 1) % Numbers
Word == 0 .. Numbers - 1
AtMostOne == {<<>>} \union {<<w>> : w \in Word}

HwTypes ==
    /\ tx_wdata \in AtMostOne /\ tx_queue \in AtMostOne /\ ind_ack \in AtMostOne
    /\ ind_queue \in Seq(Word) /\ Len(ind_queue) <= Depth
    /\ tx_ack \in BOOLEAN /\ rreq \in BOOLEAN /\ exec_ready \in BOOLEAN
    /\ ind_rready \in BOOLEAN /\ allow_write \in BOOLEAN /\ allow_read \in BOOLEAN
    /\ empty_r \in BOOLEAN /\ full_r \in BOOLEAN /\ EMPTY \in BOOLEAN /\ FULL \in BOOLEAN
    /\ payload_available \in BOOLEAN /\ PAYLOAD_DONE \in BOOLEAN
    /\ external_pending \in BOOLEAN
    /\ activate \in [swmod : BOOLEAN, value : BOOLEAN]
    /\ reset \in [swmod : BOOLEAN, value : BOOLEAN, clear : BOOLEAN]
    /\ exec \in {"Idle", "FifoWrite", "Done"} /\ dcnt \in 0 .. Depth
    /\ exec = "FifoWrite" => dcnt # 0
    /\ WRITE_INDEX \in 0 .. Depth - 1 /\ READ_INDEX \in 0 .. Depth - 1
    /\ rot_next \in Word
SwTypes ==
    /\ mcu \in {"begin", "reset", "size", "poll", "push", "burst", "done", "activate"}
    /\ rot \in {"awaits", "reads", "pull", "burst"}
    /\ mcu_left \in Nat /\ rot_left \in Nat
    /\ mcu_chunk \in 0 .. Depth /\ rot_chunk \in 0 .. Depth
    /\ mcu_next \in Word
Types == HwTypes /\ SwTypes

\* The words that the executor has not taken yet, and those in the FIFO.
Coming == Len(tx_wdata) + Len(tx_queue)
Level == Len(ind_queue)

\* One access at a time is under way: a word on its way into the queue, or
\* taken up by it, a read that waits for its word, or its answer.
OneAccess ==
    /\ external_pending <=> \/ tx_wdata # <<>> \/ tx_ack
                            \/ ind_rready \/ ind_ack # <<>>
    /\ tx_ack <=> tx_queue # <<>>
    /\ tx_wdata # <<>> => ~tx_ack /\ ~ind_rready /\ ind_ack = <<>>
    /\ tx_ack => ~ind_rready /\ ind_ack = <<>>
    /\ ind_rready => ind_ack = <<>> /\ ind_queue # <<>>

\* s holds the numbers from first up to next.
Run(s, first, next) ==
    /\ s = <<>> => first = next
    /\ s # <<>> => s[1] = first /\ next = Succ(s[Len(s)])
    /\ \A i \in 1 .. Len(s) : i < Len(s) => s[i + 1] = Succ(s[i])

\* The words in the FIFO are those between the one that the RoT has last and
\* the one that the MCU has sent last.
NextOut == IF ind_ack # <<>> THEN Succ(rot_next) ELSE rot_next
NextIn == IF tx_wdata # <<>> THEN tx_wdata[1]
          ELSE IF tx_queue # <<>> THEN tx_queue[1] ELSE mcu_next
Stream ==
    /\ ind_ack # <<>> => ind_ack[1] = rot_next
    /\ Run(ind_queue, NextOut, NextIn)
    /\ tx_wdata # <<>> => mcu_next = Succ(tx_wdata[1])
    /\ tx_queue # <<>> => mcu_next = Succ(tx_queue[1])

\* The words that the RoT still has to read are those on their way.
Counts ==
    rot_left + (IF ind_rready THEN 1 ELSE 0) = mcu_left + Coming + Level

Held == Level + Len(ind_ack)
Indices_ok == WRITE_INDEX - READ_INDEX \in {Held, Held - Depth}

\* The chunk in the FIFO is open: the executor waits for the rest of it.
Open == exec = "FifoWrite" /\ dcnt + Level = Depth

Status ==
    /\ FULL = full_r /\ EMPTY = empty_r
    /\ EMPTY => allow_write /\ Level <= 1 /\ (Level = 1 => Open)
    /\ FULL => Level = Depth \/ ind_ack # <<>>

Ended == {"activate", "begin"}
Executor_ok ==
    /\ exec = "FifoWrite" => exec_ready \/ rreq
    /\ exec = "FifoWrite" =>
          \/ Open /\ (mcu \in Ended /\ Level > 0 => PAYLOAD_DONE)
          \/ dcnt = Depth
    /\ exec # "FifoWrite" /\ mcu \notin Ended =>
          Level = Depth /\ Coming = 0 /\ ~external_pending
    /\ exec = "Done" => \/ Level > 0 /\ rot = "reads" /\ mcu \notin Ended
                        \/ (Level > 0 \/ ind_ack # <<>>) /\ mcu \in Ended
    /\ exec = "Idle" => rot # "awaits"
    /\ Coming > 0 => Open /\ exec_ready

\* An open chunk is filled only, a chunk that is complete is read only.
Filling == Open /\ (Level > 0 \/ Coming > 0 \/ mcu \in {"push", "burst"})
Turns ==
    /\ mcu \in {"push", "burst"} => Open
    /\ Filling =>
          /\ ~payload_available /\ allow_write /\ ~allow_read /\ rot = "reads"
          /\ ~ind_rready /\ ind_ack = <<>>
    /\ rot = "reads" /\ Level > 0 /\ ~Open /\ ~ind_rready =>
          Level = Depth \/ mcu_left = 0
    /\ rot = "reads" /\ ind_rready => Level = 1
    /\ rot \in {"pull", "burst"} =>
          /\ rot_chunk >= 1 /\ rot_chunk + (IF ind_rready THEN 1 ELSE 0) = Level
          /\ allow_read /\ ~Open
    /\ payload_available => Level > 0 \/ rot_left = 0 \/ ind_ack # <<>>

Mcu ==
    /\ mcu \in {"poll", "push", "burst"} <=> mcu_left > 0
    /\ mcu \in {"push", "burst"} =>
          /\ mcu_chunk \in 1 .. mcu_left
          /\ mcu_chunk + Level + Coming <= Depth
          /\ mcu_chunk = mcu_left \/ mcu_chunk + Level + Coming = Depth
    /\ mcu = "push" => Level + Coming = 0
    /\ mcu = "poll" => (Filling => Level + Coming = Depth)
    /\ mcu \in Ended => Coming = 0
    /\ PAYLOAD_DONE => mcu \in Ended
    /\ mcu \in {"reset", "size"} => rot = "awaits" /\ ~PAYLOAD_DONE
    /\ mcu = "size" => ~payload_available
    /\ rot = "awaits" => /\ mcu \in {"begin", "reset", "size"} /\ rot_left = 0
                         /\ ~external_pending

Activation ==
    /\ activate.swmod => ~activate.value
    /\ activate.swmod \/ activate.value <=> mcu = "begin" /\ rot # "awaits"

Resetting ==
    /\ reset.swmod => mcu = "size" /\ ~reset.value
    /\ reset.value => /\ mcu \in {"size", "poll", "push"} /\ ~external_pending
                      /\ Level = 0
                      /\ mcu = "push" => reset.clear

BootInv == /\ Types /\ OneAccess /\ Stream /\ Counts /\ Indices_ok /\ Status
           /\ Executor_ok /\ Turns /\ Mcu /\ Activation /\ Resetting

-----------------------------------------------------------------------------
(***************************************************************************)
(* Facts about the operators.                                              *)
(***************************************************************************)
LEMMA Sizes ==
    /\ Depth \in Nat /\ Depth >= 2 /\ Depth < 65536
    /\ TxDepth \in Nat /\ TxDepth >= 2
    /\ \A n \in Images : n \in Nat /\ n > 0
BY BypassAssumption

LEMMA SuccWord == \A x \in Word : Succ(x) \in Word
BY Sizes DEF Succ, Word, Numbers

LEMMA DownByOne == \A d \in Nat : d # 0 /\ d < 65536 => Down(d) = d - 1
BY SMT DEF Down

Up(x) == (x + 1) % Depth
LEMMA NextIndex ==
    \A x \in Nat : x < Depth => Up(x) = IF x + 1 = Depth THEN 0 ELSE x + 1
<1>1. \A d, n \in Nat : n > 0 /\ d < n => d % n = d
  OBVIOUS
<1>2. \A n \in Nat : n > 0 => n % n = 0
  OBVIOUS
<1> QED BY <1>1, <1>2, Sizes DEF Up

LEMMA RunAppend ==
    ASSUME NEW s \in Seq(Word), NEW first, NEW w \in Word, Run(s, first, w)
    PROVE  Run(Append(s, w), first, Succ(w))
BY DEF Run

LEMMA RunTail ==
    ASSUME NEW s \in Seq(Word), NEW first, NEW next, Run(s, first, next), s # <<>>
    PROVE  s[1] = first /\ Run(Tail(s), Succ(first), next)
<1> DEFINE t == Tail(s)
<1>1. /\ s[1] = first /\ next = Succ(s[Len(s)])
      /\ \A i \in Nat : 0 < i /\ i < Len(s) => s[i + 1] = Succ(s[i])
  BY DEF Run
<1>2. /\ t \in Seq(Word) /\ Len(t) = Len(s) - 1 /\ Len(s) \in Nat /\ Len(s) > 0
      /\ \A i \in Nat : 0 < i /\ i <= Len(t) => t[i] = s[i + 1]
  OBVIOUS
<1> HIDE DEF t
<1>3. (t = <<>> => Len(s) = 1) /\ (t # <<>> => Len(t) > 0)
  <2>1. t # <<>> => Len(t) \in Nat \ {0}
    BY <1>2, EmptySeq, Zenon
  <2>2. t = <<>> => Len(s) = 1
    BY <1>2, EmptySeq
  <2> QED BY <2>1, <2>2
<1>4. ASSUME t = <<>> PROVE Succ(first) = next
  BY <1>1, <1>3, <1>4
<1>5. ASSUME t # <<>> PROVE t[1] = Succ(first) /\ next = Succ(t[Len(t)])
  <2>1. t[1] = s[2] /\ t[Len(t)] = s[Len(s)]
    BY <1>2, <1>3, <1>5
  <2>2. s[1 + 1] = Succ(s[1])
    BY <1>1, <1>2, <1>3, <1>5
  <2> QED BY <1>1, <2>1, <2>2
<1>6. ASSUME NEW i \in Nat, 0 < i, i < Len(t) PROVE t[i + 1] = Succ(t[i])
  <2>1. t[i] = s[i + 1] /\ t[i + 1] = s[(i + 1) + 1]
    BY <1>2, <1>6
  <2>2. s[(i + 1) + 1] = Succ(s[i + 1])
    BY <1>1, <1>2, <1>6
  <2> QED BY <2>1, <2>2
<1>7. Run(t, Succ(first), next)
  BY <1>4, <1>5, <1>6 DEF Run
<1> QED BY <1>1, <1>7 DEF t

-----------------------------------------------------------------------------
(***************************************************************************)
(* What a clock does, in terms of the level.                               *)
(***************************************************************************)
\* The flags, whatever the words do.
Flags ==
    /\ FULL' = (Level = Depth) /\ full_r' = (Level = Depth)
    /\ EMPTY' = (Level = 0) /\ empty_r' = (Level = 0)
    /\ allow_write' = (Level = 0 \/ (allow_write /\ Level # Depth /\ ~payload_available))
    /\ allow_read' = (Level # 0 /\ (allow_read \/ Level = Depth \/ payload_available))
    /\ payload_available' =
          ((exec = "FifoWrite" /\ tx_ack /\ dcnt = 1) \/ PAYLOAD_DONE
           \/ activate.value \/ (payload_available /\ Level # 0))

\* The executor, when no word arrives for it.
Steady ==
    /\ exec' = IF exec = "Idle" THEN "FifoWrite"
               ELSE IF exec = "Done" THEN "Idle"
               ELSE IF PAYLOAD_DONE /\ Level # 0 THEN "Done" ELSE exec
    /\ dcnt' = IF exec = "Idle" THEN Depth ELSE dcnt
    /\ rreq' = (exec = "Idle")
    /\ exec_ready' = (rreq \/ exec_ready)

SameIndices == UNCHANGED <<WRITE_INDEX, READ_INDEX>>

\* No word moves.
Still ==
    /\ UNCHANGED <<txVars, ind_queue, ind_rready, ind_ack, external_pending, rot_next>>
    /\ IF reset.value THEN WRITE_INDEX' = 0 /\ READ_INDEX' = 0 ELSE SameIndices

Levels == /\ Level \in Nat /\ Level <= Depth
          /\ ind_full <=> Level = Depth
          /\ ind_empty <=> Level = 0
          /\ {ind_full, ind_empty} \subseteq BOOLEAN
          /\ rack <=> tx_ack
          /\ Coming = IF tx_wdata # <<>> \/ tx_ack THEN 1 ELSE 0
          /\ tx_wdata # <<>> => tx_queue = <<>>

LEMMA AtMost == \A q \in AtMostOne : \/ q = <<>> /\ Len(q) = 0
                                     \/ q # <<>> /\ Len(q) = 1 /\ q[1] \in Word /\ q = <<q[1]>>
BY DEF AtMostOne

LEMMA Shape == BootInv => Levels
<1> SUFFICES ASSUME BootInv PROVE Levels
  OBVIOUS
<1>1. /\ ind_queue \in Seq(Word) /\ Len(ind_queue) <= Depth
      /\ tx_wdata \in AtMostOne /\ tx_queue \in AtMostOne
      /\ tx_ack <=> tx_queue # <<>>
      /\ tx_wdata # <<>> => ~tx_ack
  BY DEF BootInv, Types, HwTypes, SwTypes, OneAccess
<1>2. Level \in Nat /\ Level <= Depth /\ (ind_full <=> Level = Depth)
  BY <1>1 DEF Level, ind_full
<1>3. ind_empty <=> Level = 0
  BY <1>1, EmptySeq DEF Level, ind_empty
<1>4. /\ Len(tx_wdata) = IF tx_wdata = <<>> THEN 0 ELSE 1
      /\ Len(tx_queue) = IF tx_queue = <<>> THEN 0 ELSE 1
  BY <1>1, AtMost
<1>5. Coming = IF tx_wdata # <<>> \/ tx_ack THEN 1 ELSE 0
  BY <1>1, <1>4 DEF Coming
<1>6. {ind_full, ind_empty} \subseteq BOOLEAN
  BY DEF ind_full, ind_empty
<1> QED BY <1>1, <1>2, <1>3, <1>5, <1>6 DEF Levels, rack, RValid

LEMMA FlagMoves == ASSUME BootInv, NEW a, Hardware(a) PROVE Flags
<1>1. Levels
  BY Shape
<1>2. FULL \in BOOLEAN /\ EMPTY \in BOOLEAN /\ FULL = full_r /\ EMPTY = empty_r
  BY DEF BootInv, Types, HwTypes, SwTypes, Status
<1>3. StatusBits /\ Permissions /\ PayloadPin
  BY DEF Hardware
<1>4. /\ FULL' = (Level = Depth) /\ full_r' = (Level = Depth)
      /\ EMPTY' = (Level = 0) /\ empty_r' = (Level = 0)
  BY <1>1, <1>2, <1>3 DEF Levels, StatusBits
<1>5. /\ allow_write' = (Level = 0 \/ (allow_write /\ Level # Depth /\ ~payload_available))
      /\ allow_read' = (Level # 0 /\ (allow_read \/ Level = Depth \/ payload_available))
  BY <1>1, <1>3 DEF Levels, Permissions
<1>6. payload_available' =
          ((exec = "FifoWrite" /\ tx_ack /\ dcnt = 1) \/ PAYLOAD_DONE
           \/ activate.value \/ (payload_available /\ Level # 0))
  BY <1>1, <1>3 DEF Levels, PayloadPin, bypass_xfer_done, ChunkEnds
<1> QED BY <1>4, <1>5, <1>6 DEF Flags

LEMMA SteadyMoves == ASSUME BootInv, NEW a, Hardware(a), ~tx_ack PROVE Steady
<1>1. Levels
  BY Shape
<1>2. exec \in {"Idle", "FifoWrite", "Done"} /\ rreq \in BOOLEAN /\ exec_ready \in BOOLEAN
  BY DEF BootInv, Types, HwTypes, SwTypes
<1>3. Executor /\ ExecReady /\ ~rack
  BY <1>1 DEF Levels, Hardware
<1>4. ChunkEnds <=> PAYLOAD_DONE /\ Level # 0
  BY <1>1, <1>3 DEF Levels, ChunkEnds
<1>5. exec' = IF exec = "Idle" THEN "FifoWrite"
              ELSE IF exec = "Done" THEN "Idle"
              ELSE IF PAYLOAD_DONE /\ Level # 0 THEN "Done" ELSE exec
  BY <1>2, <1>3, <1>4 DEF Executor
<1>6. dcnt' = IF exec = "Idle" THEN Depth ELSE dcnt
  BY <1>2, <1>3 DEF Executor
<1>8. rreq' = (exec = "Idle")
  BY <1>2, <1>3 DEF Executor
<1>7. exec_ready' = (rreq \/ exec_ready)
  BY <1>2, <1>3 DEF ExecReady
<1> QED BY <1>5, <1>6, <1>7, <1>8 DEF Steady

LEMMA FifoKeeps ==
    ASSUME NEW q \in Seq(Word), NEW d, NEW r, ~r \/ q = <<>>
    PROVE  FifoStep(q, d, FALSE, <<>>, r) = q
BY ConcatEmptySeq DEF FifoStep, RValid

LEMMA FifoTakes ==
    ASSUME NEW q \in Seq(Word), NEW d, NEW r, NEW w \in Word, Len(q) < d,
           ~r \/ q = <<>>
    PROVE  FifoStep(q, d, FALSE, <<w>>, r) = Append(q, w)
<1>1. FifoStep(q, d, FALSE, <<w>>, r) = q \o <<w>>
  BY DEF FifoStep, RValid, WReady
<1> QED BY <1>1, AppendIsConcat

LEMMA FifoGives ==
    ASSUME NEW q \in Seq(Word), NEW d, q # <<>>
    PROVE  FifoStep(q, d, FALSE, <<>>, TRUE) = Tail(q)
<1>1. Tail(q) \in Seq(Word)
  OBVIOUS
<1> QED BY <1>1, ConcatEmptySeq DEF FifoStep, RValid

\* The number of the next word for the RoT.
RotNext == rot_next' = IF ind_ack # <<>> THEN Succ(rot_next) ELSE rot_next

\* No access is under way: a takes effect.
Freely(a) ==
    /\ tx_wdata' = IF TxReq(a) THEN <<a.word>> ELSE <<>>
    /\ UNCHANGED <<tx_ack, tx_queue, ind_queue, ind_ack, rot_next>>
    /\ ind_rready' = (~reset.value /\ RdReq(a))
    /\ IF reset.value THEN WRITE_INDEX' = 0 /\ READ_INDEX' = 0 ELSE SameIndices
    /\ external_pending' = (a.op \in External /\ ~TxDropped(a) /\ ~RdEmpty(a))

LEMMA FreeMoves ==
    ASSUME BootInv, NEW a, Hardware(a), RotNext, ~external_pending PROVE Freely(a)
<1>1. Levels
  BY Shape
<1>2. /\ tx_wdata = <<>> /\ ~tx_ack /\ tx_queue = <<>> /\ ~ind_rready /\ ind_ack = <<>>
      /\ ind_queue \in Seq(Word) /\ <<>> \in Seq(Word) /\ tx_ack \in BOOLEAN
      /\ reset.value => Level = 0
  BY EmptySeq DEF BootInv, Types, HwTypes, SwTypes, OneAccess, Resetting
<1>3. /\ TxQueue(a) /\ IndirectFifo(a) /\ Indices /\ CpuInterface(a) /\ ~rack /\ ~ind_wvalid
      /\ reset.value => ind_queue = <<>>
  BY <1>1, <1>2 DEF Levels, Hardware, ind_wvalid, ind_empty
<1>4. tx_wdata' = (IF TxReq(a) THEN <<a.word>> ELSE <<>>) /\ tx_ack' = tx_ack
  BY <1>2, <1>3 DEF TxQueue
<1>5. tx_queue' = tx_queue
  BY <1>2, <1>3, FifoKeeps DEF TxQueue
<1>6. ind_queue' = FifoStep(ind_queue, Depth, reset.value, <<>>, ind_rready)
  BY <1>3 DEF IndirectFifo
<1>7. ind_queue' = ind_queue
  <2>1. CASE reset.value
    BY <1>3, <1>6, <2>1 DEF FifoStep
  <2>2. CASE reset.value = FALSE
    <3>1. ind_queue' = FifoStep(ind_queue, Depth, FALSE, <<>>, ind_rready)
      BY <1>6, <2>2
    <3> QED BY <1>2, <3>1, FifoKeeps
  <2> QED BY <2>1, <2>2 DEF BootInv, Types, HwTypes, SwTypes
<1>8. ind_rready' = (~reset.value /\ RdReq(a)) /\ ind_ack' = ind_ack
  BY <1>2, <1>3 DEF IndirectFifo
<1>9. IF reset.value THEN WRITE_INDEX' = 0 /\ READ_INDEX' = 0 ELSE SameIndices
  BY <1>2, <1>3 DEF Indices, SameIndices
<1>10. external_pending' = (a.op \in External /\ ~TxDropped(a) /\ ~RdEmpty(a))
  BY <1>2, <1>3 DEF CpuInterface, acked
<1>11. rot_next' = rot_next
  BY <1>2 DEF RotNext
<1> QED BY <1>4, <1>5, <1>7, <1>8, <1>9, <1>10, <1>11 DEF Freely

\* A word waits at the TX queue, is in it, has been asked for, is answered.
WordWaits ==
    /\ tx_wdata' = <<>> /\ tx_ack' = TRUE /\ tx_queue' = tx_wdata
    /\ UNCHANGED <<ind_queue, ind_rready, ind_ack, rot_next, external_pending>>
    /\ SameIndices /\ Steady
WordArrives ==
    /\ tx_wdata' = tx_wdata /\ tx_ack' = FALSE /\ tx_queue' = <<>>
    /\ ind_queue' = Append(ind_queue, tx_queue[1])
    /\ UNCHANGED <<ind_rready, ind_ack, rot_next>> /\ external_pending' = FALSE
    /\ WRITE_INDEX' = Up(WRITE_INDEX) /\ UNCHANGED READ_INDEX
    /\ exec' = (IF dcnt = 1 THEN "Done" ELSE "FifoWrite") /\ dcnt' = dcnt - 1
    /\ rreq' = (dcnt # 1) /\ exec_ready' = rreq
WordAsked ==
    /\ ind_queue' = Tail(ind_queue) /\ ind_rready' = FALSE
    /\ ind_ack' = <<ind_queue[1]>>
    /\ UNCHANGED <<txVars, rot_next, external_pending>>
    /\ SameIndices /\ Steady
WordAnswered ==
    /\ UNCHANGED <<txVars, ind_queue, ind_rready>>
    /\ ind_ack' = <<>> /\ rot_next' = Succ(rot_next) /\ external_pending' = FALSE
    /\ UNCHANGED WRITE_INDEX /\ READ_INDEX' = Up(READ_INDEX)
    /\ Steady

LEMMA PendingFacts ==
    ASSUME BootInv, Hardware(None), external_pending
    PROVE  /\ reset.value = FALSE /\ Levels
           /\ TxQueue(None) /\ IndirectFifo(None) /\ Indices /\ CpuInterface(None)
           /\ ExecReady /\ Executor
           /\ ~TxReq(None) /\ ~RdReq(None) /\ ~TxDropped(None) /\ ~RdEmpty(None)
           /\ None.op \notin External
           /\ ind_queue \in Seq(Word) /\ <<>> \in Seq(Word)
           /\ tx_queue \in Seq(Word) /\ tx_wdata \in Seq(Word)
           /\ {tx_ack, ind_rready} \subseteq BOOLEAN
<1>1. Levels
  BY Shape
<1>2. reset.value = FALSE /\ ind_queue \in Seq(Word) /\ <<>> \in Seq(Word)
  BY EmptySeq DEF BootInv, Types, HwTypes, SwTypes, Resetting
<1>3. \A q \in AtMostOne : q \in Seq(Word)
  <2>1. \A w \in Word : <<w>> \in Seq(Word)
    OBVIOUS
  <2> QED BY <1>2, <2>1 DEF AtMostOne
<1>4. tx_queue \in Seq(Word) /\ tx_wdata \in Seq(Word) /\ {tx_ack, ind_rready} \subseteq BOOLEAN
  BY <1>3 DEF BootInv, Types, HwTypes, SwTypes
<1>5. ~TxReq(None) /\ ~RdReq(None) /\ ~TxDropped(None) /\ ~RdEmpty(None)
      /\ None.op \notin External
  BY DEF None, TxReq, RdReq, TxDropped, RdEmpty, External
<1> QED BY <1>1, <1>2, <1>4, <1>5 DEF Hardware

LEMMA WaitMoves ==
    ASSUME BootInv, Hardware(None), RotNext, tx_wdata # <<>> PROVE WordWaits
<1>1. /\ external_pending = TRUE /\ tx_ack = FALSE /\ tx_queue = <<>>
      /\ ind_rready = FALSE /\ ind_ack = <<>>
  BY DEF BootInv, Types, HwTypes, SwTypes, OneAccess
<1>2. PICK w \in Word : tx_wdata = <<w>>
  BY AtMost DEF BootInv, Types, HwTypes, SwTypes
<1>3. /\ reset.value = FALSE /\ Levels
      /\ TxQueue(None) /\ IndirectFifo(None) /\ Indices /\ CpuInterface(None)
      /\ ~TxReq(None) /\ ~RdReq(None) /\ ~TxDropped(None) /\ ~RdEmpty(None)
      /\ None.op \notin External /\ ind_queue \in Seq(Word) /\ <<>> \in Seq(Word)
  BY <1>1, PendingFacts
<1>4. ~rack /\ ~ind_wvalid
  BY <1>1, <1>3 DEF Levels, ind_wvalid
<1>5. WReady(tx_queue, TxDepth)
  BY <1>1, Sizes DEF WReady
<1>6. tx_wdata' = <<>> /\ tx_ack' = TRUE
  BY <1>1, <1>3, <1>5, <1>2 DEF TxQueue
<1>7. tx_queue' = tx_wdata
  <2>1. tx_queue' = FifoStep(tx_queue, TxDepth, FALSE, <<w>>, exec_ready)
    BY <1>2, <1>3 DEF TxQueue
  <2>2. tx_queue' = Append(tx_queue, w)
    BY <1>1, <1>3, <1>5, <2>1, FifoTakes DEF WReady
  <2> QED BY <1>1, <1>2, <2>2
<1>8. ind_queue' = ind_queue
  <2>1. ind_queue' = FifoStep(ind_queue, Depth, FALSE, <<>>, ind_rready)
    BY <1>3, <1>4 DEF IndirectFifo
  <2> QED BY <1>1, <1>3, <2>1, FifoKeeps
<1>9. ind_rready' = ind_rready /\ ind_ack' = ind_ack
  BY <1>1, <1>3 DEF IndirectFifo
<1>10. SameIndices /\ external_pending' = external_pending /\ rot_next' = rot_next
  BY <1>1, <1>3, <1>4 DEF Indices, SameIndices, CpuInterface, acked, RotNext
<1>11. Steady
  BY <1>1, SteadyMoves
<1> QED BY <1>6, <1>7, <1>8, <1>9, <1>10, <1>11 DEF WordWaits

LEMMA AskMoves ==
    ASSUME BootInv, Hardware(None), RotNext, ind_rready PROVE WordAsked
<1>1. /\ external_pending = TRUE /\ tx_ack = FALSE /\ tx_queue = <<>> /\ tx_wdata = <<>>
      /\ ind_rready = TRUE /\ ind_ack = <<>> /\ ind_queue # <<>>
  BY DEF BootInv, Types, HwTypes, SwTypes, OneAccess
<1>3. /\ reset.value = FALSE /\ Levels
      /\ TxQueue(None) /\ IndirectFifo(None) /\ Indices /\ CpuInterface(None)
      /\ ~TxReq(None) /\ ~RdReq(None) /\ ~TxDropped(None) /\ ~RdEmpty(None)
      /\ None.op \notin External /\ ind_queue \in Seq(Word) /\ <<>> \in Seq(Word)
  BY <1>1, PendingFacts
<1>4. ~rack /\ ~ind_wvalid /\ RValid(ind_queue)
  BY <1>1, <1>3 DEF Levels, ind_wvalid, RValid
<1>5. tx_wdata' = tx_wdata /\ tx_ack' = tx_ack
  BY <1>1, <1>3 DEF TxQueue
<1>6. tx_queue' = tx_queue
  BY <1>1, <1>3, FifoKeeps DEF TxQueue
<1>7. ind_queue' = Tail(ind_queue)
  <2>1. ind_queue' = FifoStep(ind_queue, Depth, FALSE, <<>>, TRUE)
    BY <1>1, <1>3, <1>4 DEF IndirectFifo
  <2> QED BY <1>1, <1>3, <2>1, FifoGives
<1>8. ind_rready' = FALSE /\ ind_ack' = <<ind_queue[1]>>
  <2>1. ind_rready' = FALSE /\ ind_ack' = <<Head(ind_queue)>>
    BY <1>1, <1>3, <1>4 DEF IndirectFifo
  <2>2. Head(ind_queue) = ind_queue[1]
    BY <1>1, <1>3
  <2> QED BY <2>1, <2>2
<1>9. SameIndices /\ external_pending' = external_pending /\ rot_next' = rot_next
  BY <1>1, <1>3, <1>4 DEF Indices, SameIndices, CpuInterface, acked, RotNext
<1>10. Steady
  BY <1>1, SteadyMoves
<1> QED BY <1>5, <1>6, <1>7, <1>8, <1>9, <1>10 DEF WordAsked, txVars

LEMMA AnswerMoves ==
    ASSUME BootInv, Hardware(None), RotNext, ind_ack # <<>> PROVE WordAnswered
<1>1. /\ external_pending = TRUE /\ tx_ack = FALSE /\ tx_queue = <<>> /\ tx_wdata = <<>>
      /\ ind_rready = FALSE
  BY DEF BootInv, Types, HwTypes, SwTypes, OneAccess
<1>3. /\ reset.value = FALSE /\ Levels
      /\ TxQueue(None) /\ IndirectFifo(None) /\ Indices /\ CpuInterface(None)
      /\ ~TxReq(None) /\ ~RdReq(None) /\ ~TxDropped(None) /\ ~RdEmpty(None)
      /\ None.op \notin External /\ ind_queue \in Seq(Word) /\ <<>> \in Seq(Word)
  BY <1>1, PendingFacts
<1>4. ~rack /\ ~ind_wvalid
  BY <1>1, <1>3 DEF Levels, ind_wvalid
<1>5. tx_wdata' = tx_wdata /\ tx_ack' = tx_ack
  BY <1>1, <1>3 DEF TxQueue
<1>6. tx_queue' = tx_queue
  BY <1>1, <1>3, FifoKeeps DEF TxQueue
<1>7. ind_queue' = ind_queue
  <2>1. ind_queue' = FifoStep(ind_queue, Depth, FALSE, <<>>, ind_rready)
    BY <1>3, <1>4 DEF IndirectFifo
  <2> QED BY <1>1, <1>3, <2>1, FifoKeeps
<1>8. ind_rready' = ind_rready /\ ind_ack' = <<>>
  BY <1>1, <1>3 DEF IndirectFifo
<1>9. /\ WRITE_INDEX' = WRITE_INDEX /\ READ_INDEX' = Up(READ_INDEX)
      /\ external_pending' = FALSE /\ rot_next' = Succ(rot_next)
  BY <1>1, <1>3, <1>4 DEF Indices, CpuInterface, acked, RotNext, Up
<1>10. Steady
  BY <1>1, SteadyMoves
<1> QED BY <1>5, <1>6, <1>7, <1>8, <1>9, <1>10 DEF WordAnswered, txVars

LEMMA ArriveMoves ==
    ASSUME BootInv, Hardware(None), RotNext, tx_ack PROVE WordArrives /\ Level < Depth
<1>1. /\ external_pending = TRUE /\ tx_ack = TRUE /\ tx_queue # <<>> /\ tx_wdata = <<>>
      /\ ind_rready = FALSE /\ ind_ack = <<>>
  BY DEF BootInv, Types, HwTypes, SwTypes, OneAccess
<1>2. PICK w \in Word : tx_queue = <<w>>
  BY <1>1, AtMost DEF BootInv, Types, HwTypes, SwTypes
<1>3. /\ reset.value = FALSE /\ Levels
      /\ TxQueue(None) /\ IndirectFifo(None) /\ Indices /\ CpuInterface(None)
      /\ ExecReady /\ Executor
      /\ ~TxReq(None) /\ ~RdReq(None) /\ ~TxDropped(None) /\ ~RdEmpty(None)
      /\ None.op \notin External /\ ind_queue \in Seq(Word) /\ <<>> \in Seq(Word)
      /\ tx_queue \in Seq(Word)
  BY <1>1, PendingFacts
<1>4. Coming = 1 /\ rack /\ rack = TRUE
  BY <1>1, <1>3 DEF Levels, rack
<1>5. /\ exec = "FifoWrite" /\ exec_ready = TRUE /\ dcnt + Level = Depth /\ dcnt # 0
      /\ dcnt \in 0 .. Depth /\ rreq \in BOOLEAN /\ PAYLOAD_DONE = FALSE
  BY <1>4 DEF BootInv, Types, HwTypes, SwTypes, Executor_ok, Open, Mcu, Ended
<1>6. dcnt \in Nat /\ dcnt < 65536 /\ Level < Depth
  BY <1>3, <1>5, Sizes DEF Levels
<1>7. Down(dcnt) = dcnt - 1
  BY <1>5, <1>6, DownByOne
<1>8. tx_wdata' = tx_wdata /\ tx_ack' = FALSE
  BY <1>1, <1>3 DEF TxQueue
<1>9. tx_queue' = <<>>
  <2>1. tx_queue' = FifoStep(tx_queue, TxDepth, FALSE, <<>>, TRUE)
    BY <1>1, <1>3, <1>5 DEF TxQueue
  <2>2. tx_queue' = Tail(tx_queue)
    BY <1>1, <1>3, <2>1, FifoGives
  <2>3. Tail(<<w>>) = <<>>
    OBVIOUS
  <2> QED BY <1>2, <2>2, <2>3
<1>10. ind_queue' = Append(ind_queue, tx_queue[1])
  <2>1. ind_queue' = FifoStep(ind_queue, Depth, FALSE, <<w>>, ind_rready)
    <3>1. ind_queue' = FifoStep(ind_queue, Depth, FALSE, <<Head(tx_queue)>>, ind_rready)
      BY <1>3, <1>4, <1>5 DEF IndirectFifo, ind_wvalid
    <3>2. Head(<<w>>) = w
      OBVIOUS
    <3> QED BY <1>2, <3>1, <3>2
  <2>2. ind_queue' = Append(ind_queue, w)
    <3>1. Len(ind_queue) < Depth /\ (~ind_rready \/ ind_queue = <<>>)
      BY <1>1, <1>6 DEF Level
    <3>2. FifoStep(ind_queue, Depth, FALSE, <<w>>, ind_rready) = Append(ind_queue, w)
      BY <1>3, <3>1, FifoTakes, ZenonT(40)
    <3> QED BY <2>1, <3>2
  <2> QED BY <1>2, <2>2
<1>11. ind_rready' = ind_rready /\ ind_ack' = ind_ack
  BY <1>1, <1>3 DEF IndirectFifo
<1>12. /\ WRITE_INDEX' = Up(WRITE_INDEX) /\ READ_INDEX' = READ_INDEX
       /\ external_pending' = FALSE /\ rot_next' = rot_next
  BY <1>1, <1>3, <1>4, <1>5 DEF Indices, ind_wvalid, CpuInterface, acked, RotNext, Up
<1>13. ChunkEnds <=> dcnt = 1
  BY <1>4, <1>5 DEF ChunkEnds
<1>14. exec' = (IF dcnt = 1 THEN "Done" ELSE "FifoWrite") /\ dcnt' = dcnt - 1
       /\ rreq' = (dcnt # 1) /\ exec_ready' = rreq
  BY <1>3, <1>4, <1>5, <1>7, <1>13 DEF Executor, ExecReady
<1> QED BY <1>6, <1>8, <1>9, <1>10, <1>11, <1>12, <1>14 DEF WordArrives

-----------------------------------------------------------------------------
(***************************************************************************)
(* Every step keeps the invariant.                                         *)
(***************************************************************************)
Controls(op) ==
    /\ PAYLOAD_DONE' =
          IF op = "PAYLOAD_DONE" THEN TRUE
          ELSE IF op = "REC_INTF_CFG" THEN FALSE
          ELSE PAYLOAD_DONE /\ Level # Depth /\ ~(activate.value /\ Level # 0)
    /\ activate' \in [swmod : BOOLEAN, value : BOOLEAN]
    /\ activate'.swmod = (op = "ACTIVATE")
    /\ activate'.value = (activate.swmod \/ (activate.value /\ op # "RECOVERY_CTRL"))
    /\ reset' \in [swmod : BOOLEAN, value : BOOLEAN, clear : BOOLEAN]
    /\ reset'.swmod = (op = "RESET")
    /\ reset'.value = (reset.swmod \/ (reset.value /\ ~reset.clear))
    /\ reset'.clear = reset.value

LEMMA ControlMoves ==
    ASSUME BootInv, NEW a, Hardware(a) PROVE Controls(a.op)
<1>1. Levels /\ ControlBits(a)
  BY Shape DEF Hardware
<1>2. PAYLOAD_DONE' =
          IF a.op = "PAYLOAD_DONE" THEN TRUE
          ELSE IF a.op = "REC_INTF_CFG" THEN FALSE
          ELSE PAYLOAD_DONE /\ Level # Depth /\ ~(activate.value /\ Level # 0)
  BY <1>1 DEF Levels, ControlBits
<1>3. /\ activate.swmod \in BOOLEAN /\ activate.value \in BOOLEAN
      /\ reset.swmod \in BOOLEAN /\ reset.value \in BOOLEAN /\ reset.clear \in BOOLEAN
  BY DEF BootInv, Types, HwTypes, SwTypes
<1>4. /\ activate' \in [swmod : BOOLEAN, value : BOOLEAN]
      /\ activate'.swmod = (a.op = "ACTIVATE")
      /\ activate'.value = (activate.swmod \/ (activate.value /\ a.op # "RECOVERY_CTRL"))
  BY <1>1, <1>3 DEF ControlBits
<1>5. /\ reset' \in [swmod : BOOLEAN, value : BOOLEAN, clear : BOOLEAN]
      /\ reset'.swmod = (a.op = "RESET")
      /\ reset'.value = (reset.swmod \/ (reset.value /\ ~reset.clear))
      /\ reset'.clear = reset.value
  BY <1>1, <1>3 DEF ControlBits
<1> QED BY <1>2, <1>4, <1>5 DEF Controls

Kept == UNCHANGED <<mcu, mcu_left, mcu_chunk, mcu_next, rot, rot_left, rot_chunk>>

LEMMA TickFacts ==
    ASSUME BootInv, Tick
    PROVE  Hardware(None) /\ RotNext /\ Levels /\ Flags /\ Controls("none") /\ Kept
<1>1. Hardware(None) /\ RotNext /\ Kept /\ None.op = "none"
  BY DEF Tick, Clock, RotNext, Succ, rotKept, mcuKept, Kept, None
<1> QED BY <1>1, Shape, FlagMoves, ControlMoves

LEMMA WaitStep == ASSUME BootInv, Tick, tx_wdata # <<>> PROVE BootInv'
<1>1. Levels /\ Flags /\ Controls("none") /\ Kept
  BY TickFacts
<1>2. WordWaits
  BY TickFacts, WaitMoves
<1>3. Level' = Level /\ Coming = 1 /\ Coming' = 1
  <2>1. Level' = Level
    BY <1>2 DEF WordWaits, Level
  <2>2. Len(tx_wdata) = 1 /\ tx_queue = <<>> /\ tx_queue' = tx_wdata /\ tx_wdata' = <<>>
    BY <1>1, <1>2, AtMost DEF BootInv, Types, HwTypes, SwTypes, Levels, WordWaits
  <2> QED BY <2>1, <2>2 DEF Coming
<1>4. Open /\ exec = "FifoWrite" /\ exec_ready /\ PAYLOAD_DONE = FALSE /\ mcu \notin Ended
  BY <1>3 DEF BootInv, Types, HwTypes, SwTypes, Executor_ok, Open, Mcu
<1>16. /\ rot = "reads" /\ ~payload_available /\ allow_write /\ ~allow_read
       /\ ~activate.value /\ Level # Depth /\ ~tx_ack
  BY <1>1, <1>3, <1>4
     DEF BootInv, Types, HwTypes, SwTypes, OneAccess, Turns, Filling, Activation, Open, Levels, Ended
<1>17. ~payload_available' /\ allow_write' /\ ~allow_read'
  BY <1>1, <1>4, <1>16 DEF Flags
<1>5. Open' /\ exec' = exec /\ dcnt' = dcnt /\ rreq' = FALSE /\ exec_ready' = TRUE
  BY <1>1, <1>2, <1>3, <1>4
     DEF BootInv, Types, HwTypes, SwTypes, WordWaits, Steady, Open
<1>6. Types'
  BY <1>1, <1>2, <1>5, ZenonT(40)
     DEF BootInv, Types, HwTypes, SwTypes, AtMostOne, WordWaits, Flags, Controls, Kept, SameIndices
<1>7. OneAccess'
  BY <1>2 DEF BootInv, OneAccess, WordWaits
<1>8. Stream'
  BY <1>1, <1>2 DEF BootInv, OneAccess, Stream, WordWaits, Kept, NextIn, NextOut
<1>9. Counts'
  BY <1>1, <1>2, <1>3 DEF BootInv, Counts, WordWaits, Kept
<1>10. Indices_ok'
  BY <1>2, <1>3 DEF BootInv, Indices_ok, Held, WordWaits, SameIndices
<1>11. Status'
  BY <1>1, <1>2, <1>3, <1>5 DEF Status, Flags, Levels, WordWaits
<1>12. Executor_ok'
  BY <1>1, <1>2, <1>3, <1>4, <1>5 DEF BootInv, Executor_ok, Kept, Ended, Controls
<1>13. Turns'
  BY <1>1, <1>2, <1>3, <1>4, <1>5, <1>16, <1>17
     DEF BootInv, OneAccess, Turns, Filling, Kept, WordWaits
<1>14. Mcu'
  BY <1>1, <1>2, <1>3, <1>4, <1>5, <1>16, <1>17
     DEF BootInv, Mcu, Filling, Kept, Controls, Ended, WordWaits
<1>15. Activation' /\ Resetting'
  BY <1>1, <1>2, <1>3, <1>4
     DEF BootInv, Activation, Resetting, Kept, Controls, OneAccess, Mcu, WordWaits
<1> QED BY <1>6, <1>7, <1>8, <1>9, <1>10, <1>11, <1>12, <1>13, <1>14, <1>15 DEF BootInv

LEMMA ArriveStep == ASSUME BootInv, Tick, tx_ack PROVE BootInv'
<1>1. Levels /\ Flags /\ Controls("none") /\ Kept
  BY TickFacts
<1>2. WordArrives /\ Level < Depth
  BY TickFacts, ArriveMoves
<1>3. /\ tx_queue # <<>> /\ tx_wdata = <<>> /\ ~ind_rready /\ ind_ack = <<>>
      /\ external_pending /\ Coming = 1 /\ tx_queue[1] \in Word
      /\ ind_queue \in Seq(Word) /\ tx_wdata' = <<>> /\ tx_queue' = <<>>
  BY <1>1, <1>2, AtMost
     DEF BootInv, Types, HwTypes, SwTypes, OneAccess, Levels, WordArrives
<1>4. Level' = Level + 1 /\ Coming' = 0 /\ ind_queue' \in Seq(Word)
  <2>1. ind_queue' = Append(ind_queue, tx_queue[1])
    BY <1>2 DEF WordArrives
  <2>2. Len(ind_queue') = Len(ind_queue) + 1 /\ ind_queue' \in Seq(Word)
    BY <1>3, <2>1
  <2> QED BY <1>3, <2>2 DEF Level, Coming
<1>5. /\ Open /\ exec = "FifoWrite" /\ dcnt \in 1 .. Depth /\ dcnt + Level = Depth
      /\ PAYLOAD_DONE = FALSE /\ mcu \notin Ended
  BY <1>1, <1>3, Sizes
     DEF BootInv, Types, HwTypes, SwTypes, Executor_ok, Open, Mcu, Levels
<1>6. /\ rot = "reads" /\ ~payload_available /\ allow_write /\ ~allow_read
      /\ ~activate.value
  BY <1>1, <1>3, <1>5
     DEF BootInv, Types, HwTypes, SwTypes, Turns, Filling, Activation, Levels, Ended
<1>7. (payload_available' <=> dcnt = 1) /\ allow_write' /\ ~allow_read'
  <2>1. payload_available' <=> dcnt = 1
    BY <1>1, <1>5, <1>6 DEF Flags
  <2>2. (Level = Depth) = FALSE
    BY <1>1, <1>2, Sizes DEF Levels
  <2>3. allow_write' /\ ~allow_read'
    BY <1>1, <1>6, <2>2 DEF Flags
  <2> QED BY <2>1, <2>3
<1>8. Open' <=> dcnt # 1
  BY <1>1, <1>2, <1>4, <1>5, Sizes DEF WordArrives, Open, Levels
<1>19. WRITE_INDEX' = (IF WRITE_INDEX + 1 = Depth THEN 0 ELSE WRITE_INDEX + 1)
       /\ WRITE_INDEX \in 0 .. Depth - 1 /\ READ_INDEX \in 0 .. Depth - 1
  BY <1>2, NextIndex, Sizes DEF BootInv, Types, HwTypes, SwTypes, WordArrives
<1>20. Held' = Held + 1 /\ Held \in Nat /\ Held < Depth
  BY <1>1, <1>2, <1>3, <1>4 DEF Held, WordArrives, Levels
<1>9. Types'
  <2>1. /\ tx_wdata' \in AtMostOne /\ tx_queue' \in AtMostOne /\ ind_ack' \in AtMostOne
        /\ Len(ind_queue') <= Depth /\ WRITE_INDEX' \in 0 .. Depth - 1
    BY <1>1, <1>2, <1>3, <1>4, <1>19, Sizes DEF AtMostOne, WordArrives, Levels, Level
  <2>3. /\ exec' \in {"Idle", "FifoWrite", "Done"} /\ dcnt' \in 0 .. Depth
        /\ exec' = "FifoWrite" => dcnt' # 0
    BY <1>2, <1>5, Sizes DEF WordArrives
  <2> QED BY <1>1, <1>2, <1>4, <2>1, <2>3
     DEF BootInv, Types, HwTypes, SwTypes, WordArrives, Controls, Kept, Flags
<1>10. OneAccess'
  BY <1>2, <1>3 DEF BootInv, OneAccess, WordArrives
<1>11. Stream'
  <2>1. /\ Run(ind_queue, NextOut, tx_queue[1]) /\ mcu_next = Succ(tx_queue[1])
        /\ NextOut = rot_next /\ NextOut' = rot_next /\ NextIn' = mcu_next
    BY <1>1, <1>2, <1>3 DEF BootInv, Stream, NextIn, NextOut, WordArrives, Kept
  <2>2. Run(ind_queue', NextOut, mcu_next)
    BY <1>2, <1>3, <2>1, RunAppend DEF WordArrives
  <2> QED BY <1>2, <1>3, <2>1, <2>2 DEF Stream, WordArrives
<1>12. Counts'
  BY <1>1, <1>2, <1>3, <1>4
     DEF BootInv, Types, HwTypes, SwTypes, Counts, WordArrives, Kept, Levels
<1>13. Indices_ok'
  BY <1>2, <1>19, <1>20, Sizes DEF BootInv, Indices_ok, WordArrives
<1>14. Status'
  BY <1>1, <1>2, <1>4, <1>5, <1>7, <1>8, Sizes DEF Status, Flags, Levels
<1>15. Executor_ok'
  <2>1. /\ exec' = (IF dcnt = 1 THEN "Done" ELSE "FifoWrite") /\ rreq' = (dcnt # 1)
        /\ mcu' \notin Ended /\ rot' = "reads" /\ Level' > 0 /\ Coming' = 0
        /\ external_pending' = FALSE
    BY <1>1, <1>2, <1>4, <1>5, <1>6 DEF Kept, Levels, WordArrives
  <2>2. dcnt = 1 => Level' = Depth
    BY <1>1, <1>4, <1>5, Sizes DEF Levels
  <2>3. CASE dcnt = 1
    BY <2>1, <2>2, <2>3 DEF Executor_ok, Ended
  <2>4. CASE dcnt # 1
    <3>1. exec' = "FifoWrite" /\ rreq' = TRUE /\ Open'
      BY <1>8, <2>1, <2>4
    <3> QED BY <2>1, <3>1 DEF Executor_ok, Ended
  <2> QED BY <2>3, <2>4
<1>16. Turns'
  BY <1>1, <1>2, <1>3, <1>4, <1>5, <1>6, <1>7, <1>8
     DEF BootInv, Types, HwTypes, SwTypes, Turns, Filling, Mcu, Kept, WordArrives, Levels, Flags
<1>17. Mcu'
  BY <1>1, <1>2, <1>3, <1>4, <1>5, <1>6, <1>7, <1>8
     DEF BootInv, Types, HwTypes, SwTypes, Mcu, Filling, Kept, Controls, Ended, WordArrives, Levels
<1>18. Activation' /\ Resetting'
  BY <1>1, <1>2, <1>3, <1>4, <1>5, <1>6
     DEF BootInv, Activation, Resetting, Kept, Controls, Mcu, WordArrives
<1> QED BY <1>9, <1>10, <1>11, <1>12, <1>13, <1>14, <1>15, <1>16, <1>17, <1>18
   DEF BootInv

LEMMA AskStep == ASSUME BootInv, Tick, ind_rready PROVE BootInv'
<1>1. Levels /\ Flags /\ Controls("none") /\ Kept
  BY TickFacts
<1>2. WordAsked
  BY TickFacts, AskMoves
<1>3. /\ ~tx_ack /\ tx_wdata = <<>> /\ tx_queue = <<>> /\ ind_ack = <<>>
      /\ external_pending /\ Coming = 0 /\ Coming' = 0
      /\ ind_queue \in Seq(Word) /\ ind_queue # <<>> /\ Level > 0
  BY <1>1, <1>2
     DEF BootInv, Types, HwTypes, SwTypes, OneAccess, Levels, WordAsked, ind_empty, Coming, txVars
<1>4. Level' = Level - 1 /\ ind_queue' \in Seq(Word) /\ ind_queue[1] \in Word
  <2>1. Len(Tail(ind_queue)) = Len(ind_queue) - 1 /\ Tail(ind_queue) \in Seq(Word)
        /\ ind_queue[1] \in Word
    BY <1>3
  <2> QED BY <1>2, <2>1 DEF Level, WordAsked
<1>5. Held' = Held
  BY <1>1, <1>2, <1>3, <1>4 DEF Held, WordAsked, Levels
<1>6. /\ ~Open /\ mcu \notin {"push", "burst"} /\ rot # "awaits"
      /\ exec = "FifoWrite" => dcnt = Depth
      /\ mcu \in Ended \/ exec = "FifoWrite"
      /\ PAYLOAD_DONE => mcu \in Ended
  BY <1>3 DEF BootInv, Turns, Filling, Executor_ok, Mcu
<1>7. ~Open' \/ Level' = 0
  BY <1>1, <1>2, <1>4, <1>6, Sizes
     DEF BootInv, Types, HwTypes, SwTypes, WordAsked, Steady, Open, Levels
<1>8. Types'
  <2>1. ind_ack' \in AtMostOne /\ Len(ind_queue') <= Depth
    <3>1. ind_ack' \in AtMostOne
      BY <1>2, <1>4 DEF AtMostOne, WordAsked
    <3>2. Level' <= Depth
      BY <1>1, <1>4, Sizes DEF Levels
    <3> QED BY <3>1, <3>2 DEF Level
  <2>2. /\ exec' \in {"Idle", "FifoWrite", "Done"} /\ dcnt' \in 0 .. Depth
        /\ exec' = "FifoWrite" => dcnt' # 0
    BY <1>2, Sizes DEF BootInv, Types, HwTypes, SwTypes, WordAsked, Steady
  <2> QED BY <1>1, <1>2, <1>4, <2>1, <2>2
          DEF BootInv, Types, HwTypes, SwTypes, WordAsked, Flags, Controls, Kept, Steady, SameIndices, txVars
<1>9. OneAccess'
  BY <1>2, <1>3 DEF BootInv, OneAccess, WordAsked, txVars
<1>10. Stream'
  <2>1. /\ Run(ind_queue, rot_next, mcu_next)
        /\ NextOut' = Succ(rot_next) /\ NextIn' = mcu_next
    BY <1>1, <1>2, <1>3 DEF BootInv, Stream, NextIn, NextOut, WordAsked, Kept, txVars
  <2>2. ind_queue[1] = rot_next /\ Run(ind_queue', Succ(rot_next), mcu_next)
    BY <1>2, <1>3, <2>1, RunTail DEF WordAsked
  <2> QED BY <1>2, <1>3, <2>1, <2>2 DEF Stream, WordAsked, txVars
<1>11. Counts'
  BY <1>1, <1>2, <1>3, <1>4
     DEF BootInv, Types, HwTypes, SwTypes, Counts, WordAsked, Kept, Levels
<1>12. Indices_ok'
  BY <1>2, <1>5 DEF BootInv, Indices_ok, WordAsked, SameIndices
<1>13. Status'
  BY <1>1, <1>2, <1>3 DEF Status, Flags, Levels, WordAsked
<1>14. Executor_ok'
  BY <1>1, <1>2, <1>3, <1>4, <1>6
     DEF BootInv, Types, HwTypes, SwTypes, Executor_ok, Kept, Ended, Levels, WordAsked, Steady
<1>15. Turns'
  BY <1>1, <1>2, <1>3, <1>4, <1>6, <1>7
     DEF BootInv, Types, HwTypes, SwTypes, Turns, Filling, Kept, WordAsked, Levels, Flags
<1>16. Mcu'
  BY <1>1, <1>2, <1>3, <1>4, <1>6, <1>7
     DEF BootInv, Types, HwTypes, SwTypes, Mcu, Filling, Kept, Controls, Ended, WordAsked, Levels
<1>17. Activation' /\ Resetting'
  BY <1>1, <1>2, <1>3, <1>4, <1>6
     DEF BootInv, Activation, Resetting, Kept, Controls, Mcu, WordAsked, Levels
<1> QED BY <1>8, <1>9, <1>10, <1>11, <1>12, <1>13, <1>14, <1>15, <1>16, <1>17
   DEF BootInv

LEMMA AnswerStep == ASSUME BootInv, Tick, ind_ack # <<>> PROVE BootInv'
<1>1. Levels /\ Flags /\ Controls("none") /\ Kept
  BY TickFacts
<1>2. WordAnswered
  BY TickFacts, AnswerMoves
<1>3. /\ ~tx_ack /\ tx_wdata = <<>> /\ tx_queue = <<>> /\ ~ind_rready
      /\ external_pending /\ Coming = 0 /\ Coming' = 0 /\ Level' = Level
      /\ Len(ind_ack) = 1 /\ Len(ind_ack') = 0
  BY <1>1, <1>2, AtMost
     DEF BootInv, Types, HwTypes, SwTypes, OneAccess, Levels, WordAnswered, Coming, Level, txVars
<1>4. Held' = Held - 1 /\ Held \in Nat /\ Held > 0
  BY <1>1, <1>3 DEF Held, Levels
<1>5. /\ Open => Level = 0
      /\ mcu \notin {"push", "burst"} /\ rot # "awaits"
      /\ exec = "FifoWrite" => dcnt = Depth
      /\ mcu \in Ended \/ exec = "FifoWrite"
      /\ PAYLOAD_DONE => mcu \in Ended
  BY <1>1, <1>3
     DEF BootInv, Types, HwTypes, SwTypes, Turns, Filling, Executor_ok, Mcu, Levels, Open
<1>6. ~Open' \/ Level' = 0
  BY <1>1, <1>2, <1>3, <1>5, Sizes
     DEF BootInv, Types, HwTypes, SwTypes, WordAnswered, Steady, Open, Levels
<1>7. payload_available' => Level > 0 \/ rot_left = 0
  BY <1>1, <1>3, <1>5
     DEF BootInv, Types, HwTypes, SwTypes, Flags, Levels, Counts, Mcu, Activation, Ended
<1>18. READ_INDEX' = (IF READ_INDEX + 1 = Depth THEN 0 ELSE READ_INDEX + 1)
       /\ WRITE_INDEX \in 0 .. Depth - 1 /\ READ_INDEX \in 0 .. Depth - 1
  BY <1>2, NextIndex, Sizes DEF BootInv, Types, HwTypes, SwTypes, WordAnswered
<1>8. Types'
  <2>1. ind_ack' \in AtMostOne /\ READ_INDEX' \in 0 .. Depth - 1 /\ rot_next' \in Word
    BY <1>2, <1>18, Sizes, SuccWord
       DEF BootInv, Types, HwTypes, SwTypes, AtMostOne, WordAnswered
  <2>2. /\ exec' \in {"Idle", "FifoWrite", "Done"} /\ dcnt' \in 0 .. Depth
        /\ exec' = "FifoWrite" => dcnt' # 0
    BY <1>2, Sizes DEF BootInv, Types, HwTypes, SwTypes, WordAnswered, Steady
  <2> QED BY <1>1, <1>2, <2>1, <2>2
          DEF BootInv, Types, HwTypes, SwTypes, WordAnswered, Flags, Controls, Kept, Steady, txVars
<1>9. OneAccess'
  BY <1>2, <1>3 DEF BootInv, OneAccess, WordAnswered, txVars
<1>10. Stream'
  BY <1>1, <1>2, <1>3 DEF BootInv, Stream, NextIn, NextOut, WordAnswered, Kept, txVars
<1>11. Counts'
  BY <1>1, <1>2, <1>3 DEF BootInv, Counts, WordAnswered, Kept
<1>12. Indices_ok'
  BY <1>2, <1>4, <1>18, Sizes DEF BootInv, Indices_ok, WordAnswered
<1>13. Status'
  BY <1>1, <1>2, <1>3 DEF Status, Flags, Levels, WordAnswered
<1>14. Executor_ok'
  <2>1. /\ exec' = "FifoWrite" => (exec_ready' \/ rreq') /\ dcnt' = Depth
        /\ exec' = "Done" => PAYLOAD_DONE /\ Level > 0
        /\ exec' = "Idle" => mcu \in Ended
        /\ exec' \in {"Idle", "FifoWrite", "Done"}
    <3>1. /\ exec \in {"Idle", "FifoWrite", "Done"} /\ Level \in Nat
          /\ rreq \in BOOLEAN /\ exec_ready \in BOOLEAN
          /\ exec = "FifoWrite" => exec_ready \/ rreq
      BY <1>1 DEF BootInv, Types, HwTypes, SwTypes, Executor_ok, Levels
    <3>2. CASE exec = "FifoWrite"
      BY <1>2, <1>5, <3>1, <3>2 DEF WordAnswered, Steady
    <3>3. CASE exec # "FifoWrite"
      BY <1>2, <1>5, <3>1, <3>3 DEF WordAnswered, Steady
    <3> QED BY <3>2, <3>3
  <2>2. mcu' = mcu /\ rot' = rot /\ Coming' = 0 /\ Level' = Level /\ rot # "awaits"
    BY <1>1, <1>3, <1>5 DEF Kept
  <2> QED BY <1>5, <2>1, <2>2 DEF Executor_ok, Ended
<1>15. Turns'
  BY <1>1, <1>2, <1>3, <1>5, <1>6, <1>7
     DEF BootInv, Types, HwTypes, SwTypes, Turns, Filling, Kept, WordAnswered, Levels, Flags
<1>16. Mcu'
  BY <1>1, <1>2, <1>3, <1>5, <1>6
     DEF BootInv, Types, HwTypes, SwTypes, Mcu, Filling, Kept, Controls, Ended, WordAnswered, Levels
<1>17. Activation' /\ Resetting'
  BY <1>1, <1>2, <1>3, <1>5
     DEF BootInv, Activation, Resetting, Kept, Controls, Mcu, WordAnswered, Levels
<1> QED BY <1>8, <1>9, <1>10, <1>11, <1>12, <1>13, <1>14, <1>15, <1>16, <1>17
   DEF BootInv

\* The executor, as long as no word arrives for it.
Executes ==
    /\ exec' \in {"Idle", "FifoWrite", "Done"} /\ dcnt' \in 0 .. Depth
    /\ exec' = "FifoWrite" => dcnt' # 0 /\ (exec_ready' \/ rreq')
    /\ exec' = "FifoWrite" => dcnt' = Depth \/ (Open /\ Open' /\ ~(PAYLOAD_DONE /\ Level > 0))
    /\ exec' = "Done" => PAYLOAD_DONE /\ Level > 0
    /\ exec' = "Idle" => exec = "Done"
    /\ Open' /\ Level > 0 => Open /\ ~PAYLOAD_DONE
    /\ Open /\ ~PAYLOAD_DONE => Open'
    /\ exec = "Idle" \/ (exec = "FifoWrite" /\ ~PAYLOAD_DONE) => exec' = "FifoWrite"
    /\ rreq' \in BOOLEAN /\ exec_ready' \in BOOLEAN
    /\ exec = "FifoWrite" => exec_ready'

LEMMA ExecMoves == ASSUME BootInv, Steady, Level' = Level PROVE Executes
<1>1. /\ exec \in {"Idle", "FifoWrite", "Done"} /\ dcnt \in 0 .. Depth
      /\ exec = "FifoWrite" => dcnt # 0 /\ (exec_ready \/ rreq)
      /\ exec = "FifoWrite" => Open \/ dcnt = Depth
      /\ PAYLOAD_DONE \in BOOLEAN /\ rreq \in BOOLEAN /\ exec_ready \in BOOLEAN
      /\ Level \in Nat
  BY Shape DEF BootInv, Types, HwTypes, Executor_ok, Levels
<1>2. CASE exec = "Idle"
  <2>1. exec' = "FifoWrite" /\ dcnt' = Depth /\ rreq' = TRUE /\ exec_ready' \in BOOLEAN
    BY <1>1, <1>2 DEF Steady
  <2>2. ~Open /\ (Open' => Level = 0)
    BY <1>1, <1>2, <2>1, Sizes DEF Open
  <2> QED BY <1>1, <1>2, <2>1, <2>2, Sizes DEF Executes
<1>3. CASE exec = "Done"
  BY <1>1, <1>3, Sizes DEF Steady, Executes, Open
<1>4. CASE exec = "FifoWrite" /\ PAYLOAD_DONE /\ Level # 0
  BY <1>1, <1>4, Sizes DEF Steady, Executes, Open
<1>5. CASE exec = "FifoWrite" /\ ~(PAYLOAD_DONE /\ Level # 0)
  BY <1>1, <1>5, Sizes DEF Steady, Executes, Open
<1> QED BY <1>1, <1>2, <1>3, <1>4, <1>5

\* A clock in which an access may begin.
Begins(op) ==
    /\ Levels /\ Flags /\ Controls(op) /\ Executes
    /\ Level' = Level /\ Coming = 0 /\ ~ind_rready /\ ind_ack = <<>> /\ ind_ack' = <<>>
    /\ tx_ack = FALSE /\ tx_ack' = FALSE /\ tx_queue = <<>> /\ tx_queue' = <<>>
    /\ tx_wdata = <<>> /\ UNCHANGED <<ind_queue, rot_next>>
    /\ Indices_ok' /\ Status'
    /\ WRITE_INDEX' \in 0 .. Depth - 1 /\ READ_INDEX' \in 0 .. Depth - 1

LEMMA FreeFacts ==
    ASSUME BootInv, NEW a, Clock(a), ~external_pending
    PROVE  Freely(a) /\ Begins(a.op)
<1>1. Hardware(a) /\ RotNext
  BY DEF Clock, RotNext, Succ
<1>2. Levels /\ Flags /\ Controls(a.op) /\ Freely(a)
  BY <1>1, Shape, FlagMoves, ControlMoves, FreeMoves
<1>3. /\ tx_wdata = <<>> /\ tx_ack = FALSE /\ tx_queue = <<>> /\ ~ind_rready /\ ind_ack = <<>>
      /\ Coming = 0
  BY <1>2 DEF BootInv, Types, HwTypes, OneAccess, Levels
<1>4. Level' = Level /\ Held' = Held /\ Held = Level
  BY <1>2, <1>3 DEF Freely, Level, Held, Levels
<1>5. Executes
  BY <1>1, <1>3, <1>4, SteadyMoves, ExecMoves
<1>6. Indices_ok' /\ WRITE_INDEX' \in 0 .. Depth - 1 /\ READ_INDEX' \in 0 .. Depth - 1
  <2>1. CASE reset.value
    BY <1>2, <1>3, <1>4, <2>1, Sizes DEF BootInv, Freely, Indices_ok, Resetting
  <2>2. CASE ~reset.value
    BY <1>2, <1>4, <2>2 DEF BootInv, Types, HwTypes, Freely, Indices_ok, SameIndices
  <2> QED BY <2>1, <2>2
<1>7. Status'
  BY <1>2, <1>4 DEF Status, Flags, Levels
<1> QED BY <1>2, <1>3, <1>4, <1>5, <1>6, <1>7 DEF Freely, Begins

\* No access begins.
LEMMA QuietFacts ==
    ASSUME BootInv, NEW a, Clock(a), ~external_pending, a.op \notin External
    PROVE  /\ Begins(a.op) /\ OneAccess' /\ HwTypes' /\ Coming' = 0
           /\ tx_wdata' = <<>> /\ ind_rready' = FALSE /\ external_pending' = FALSE
           /\ mcu_next' = mcu_next => Stream'
<1>1. Freely(a) /\ Begins(a.op)
  BY FreeFacts
<1>2. tx_wdata' = <<>> /\ ind_rready' = FALSE /\ external_pending' = FALSE
  BY <1>1 DEF Freely, TxReq, RdReq, External
<1>3. Coming' = 0
  BY <1>1, <1>2, EmptySeq DEF Begins, Coming
<1>4. OneAccess'
  BY <1>1, <1>2 DEF Begins, OneAccess
<1>5. HwTypes'
  BY <1>1, <1>2
     DEF BootInv, Types, HwTypes, Begins, Flags, Controls, Executes, AtMostOne
<1>6. ASSUME mcu_next' = mcu_next PROVE Stream'
  BY <1>1, <1>2, <1>6 DEF BootInv, Stream, Begins, NextIn, NextOut
<1> QED BY <1>1, <1>2, <1>3, <1>4, <1>5, <1>6

\* What follows when no access is under way.
Between ==
    /\ rot_left = mcu_left + Level /\ mcu_left \in Nat /\ rot_left \in Nat /\ Level \in Nat
    /\ rot = "awaits" => Level = 0 /\ mcu_left = 0 /\ mcu \in {"begin", "reset", "size"}
    /\ exec = "Done" => Level > 0
    /\ exec = "Idle" => rot # "awaits"
    /\ Open => Level < Depth
    /\ exec = "FifoWrite" \/ mcu \in Ended \/ Level = Depth
    /\ exec = "FifoWrite" /\ ~Open => Level > 0
    /\ mcu \notin {"poll", "push", "burst"} => mcu_left = 0
    /\ PAYLOAD_DONE => mcu \in Ended
    /\ activate.value => mcu = "begin" /\ rot # "awaits"
    /\ Open /\ Level > 0 /\ mcu \in Ended => PAYLOAD_DONE
    /\ Open /\ (Level > 0 \/ mcu \in {"push", "burst"}) =>
          ~payload_available /\ allow_write /\ ~allow_read /\ rot = "reads"
    /\ rot = "reads" /\ Level > 0 /\ ~Open => Level = Depth \/ mcu_left = 0
    /\ rot \in {"pull", "burst"} => rot_chunk >= 1 /\ rot_chunk = Level /\ allow_read /\ ~Open
    /\ payload_available => Level > 0 \/ rot_left = 0
    /\ mcu = "poll" /\ Open /\ Level > 0 => Level = Depth
    /\ mcu \in {"push", "burst"} => Open

LEMMA BetweenAccesses == ASSUME BootInv, ~external_pending PROVE Between
<1>1. /\ tx_wdata = <<>> /\ ~tx_ack /\ ~ind_rready /\ ind_ack = <<>>
      /\ Levels
  BY Shape DEF BootInv, OneAccess
<1>2. Coming = 0 /\ Level \in Nat /\ Level <= Depth
  BY <1>1 DEF Levels
<1>3. rot_left = mcu_left + Level /\ mcu_left \in Nat /\ rot_left \in Nat
  BY <1>1, <1>2 DEF BootInv, Types, SwTypes, Counts
<1>4. rot = "awaits" => Level = 0 /\ mcu_left = 0 /\ mcu \in {"begin", "reset", "size"}
  BY <1>2, <1>3 DEF BootInv, Mcu
<1>5. Open => Level < Depth
  BY <1>2, Sizes DEF BootInv, Types, HwTypes, Open
<1>6. /\ exec = "Done" => Level > 0
      /\ exec = "Idle" => rot # "awaits"
      /\ exec = "FifoWrite" \/ mcu \in Ended \/ Level = Depth
      /\ Open /\ Level > 0 /\ mcu \in Ended => PAYLOAD_DONE
  BY <1>1, <1>2, <1>5, Sizes DEF BootInv, Types, HwTypes, Executor_ok, Open
<1>7. exec = "FifoWrite" /\ ~Open => Level > 0
  BY <1>2, Sizes DEF BootInv, Executor_ok, Open
<1>8. /\ mcu \notin {"poll", "push", "burst"} => mcu_left = 0
      /\ PAYLOAD_DONE => mcu \in Ended
      /\ mcu = "poll" /\ Open /\ Level > 0 => Level = Depth
  BY <1>2, <1>3 DEF BootInv, Mcu, Filling
<1>9. activate.value => mcu = "begin" /\ rot # "awaits"
  BY DEF BootInv, Activation
<1>10. /\ Open /\ (Level > 0 \/ mcu \in {"push", "burst"}) =>
             ~payload_available /\ allow_write /\ ~allow_read /\ rot = "reads"
       /\ rot = "reads" /\ Level > 0 /\ ~Open => Level = Depth \/ mcu_left = 0
       /\ payload_available => Level > 0 \/ rot_left = 0
       /\ mcu \in {"push", "burst"} => Open
  BY <1>1 DEF BootInv, Turns, Filling
<1>11. rot \in {"pull", "burst"} => rot_chunk >= 1 /\ rot_chunk = Level /\ allow_read /\ ~Open
  BY <1>1 DEF BootInv, Types, SwTypes, Turns
<1> QED BY <1>2, <1>3, <1>4, <1>5, <1>6, <1>7, <1>8, <1>9, <1>10, <1>11 DEF Between

\* The turns are kept by a clock without an access that leaves what is still
\* to send and to read as it is.
LEMMA QuietTurns ==
    ASSUME NEW op, BootInv, Between, Begins(op), Coming' = 0, ind_rready' = FALSE,
           mcu_left' = mcu_left, rot_left' = rot_left, rot_chunk' = rot_chunk,
           rot' = rot \/ rot' = "awaits",
           mcu' \in {"push", "burst"} =>
               rot' = rot /\ Open /\ mcu \in {"poll", "push", "burst"},
           Level > 0 => rot' = rot
    PROVE  Turns'
<1>1. mcu' \in {"push", "burst"} => Open'
  BY DEF Between, Begins, Executes, Ended
<1>2. ASSUME Filling'
      PROVE  /\ ~payload_available' /\ allow_write' /\ ~allow_read' /\ rot' = "reads"
             /\ ~ind_rready' /\ ind_ack' = <<>>
  <2>1. Open' /\ (Level > 0 \/ mcu' \in {"push", "burst"})
    BY <1>2 DEF Filling, Begins
  <2>2. CASE Level > 0
    <3>1. Open /\ ~PAYLOAD_DONE /\ mcu \notin Ended /\ Level # Depth
      BY <2>1, <2>2, Sizes DEF Begins, Executes, Between
    <3>2. ~activate.value /\ ~payload_available /\ allow_write /\ ~allow_read /\ rot = "reads"
      BY <2>2, <3>1 DEF Between, Ended
    <3> QED BY <2>2, <3>1, <3>2 DEF Begins, Flags
  <2>3. CASE Level = 0
    <3>1. rot' = rot /\ Open /\ mcu \in {"poll", "push", "burst"}
      BY <2>1, <2>3
    <3>2. ~PAYLOAD_DONE /\ ~activate.value /\ rot = "reads"
      BY <2>3, <3>1 DEF BootInv, Types, SwTypes, Between, Ended
    <3> QED BY <2>3, <3>1, <3>2 DEF Begins, Flags
  <2> QED BY <2>1, <2>2, <2>3 DEF Between
<1>3. ASSUME rot' = "reads", Level' > 0, ~Open' PROVE Level' = Depth \/ mcu_left' = 0
  <2>1. rot = "reads" /\ Level > 0 /\ Level' = Level
    BY <1>3 DEF Begins
  <2>2. CASE Open
    BY <1>3, <2>1, <2>2 DEF Begins, Between, Executes, Ended
  <2>3. CASE ~Open
    BY <2>1, <2>3 DEF Between
  <2> QED BY <2>2, <2>3
<1>4. ASSUME rot' \in {"pull", "burst"}
      PROVE  /\ rot_chunk' >= 1 /\ rot_chunk' + (IF ind_rready' THEN 1 ELSE 0) = Level'
             /\ allow_read' /\ ~Open'
  <2>1. rot \in {"pull", "burst"}
    BY <1>4
  <2>2. rot_chunk >= 1 /\ rot_chunk = Level /\ allow_read /\ ~Open /\ Level \in Nat
    BY <2>1 DEF Between
  <2>4. Level > 0 /\ Level # 0
    BY <2>2
  <2>3. ~Open' /\ allow_read'
    BY <2>2, <2>4 DEF Begins, Flags, Executes
  <2> QED BY <2>2, <2>3 DEF Begins
<1>5. payload_available' => Level' > 0 \/ rot_left' = 0
  BY DEF BootInv, Types, HwTypes, Begins, Flags, Between, Ended
<1> QED BY <1>1, <1>2, <1>3, <1>4, <1>5 DEF Turns

LEMMA IdleStep == ASSUME BootInv, Tick, ~external_pending PROVE BootInv'
<1>1. /\ Begins("none") /\ OneAccess' /\ HwTypes' /\ Coming' = 0 /\ Stream'
      /\ tx_wdata' = <<>> /\ ind_rready' = FALSE /\ external_pending' = FALSE /\ Kept
  <2>1. Clock(None) /\ None.op = "none" /\ None.op \notin External /\ Kept
    BY DEF Tick, None, External, Kept, rotKept, mcuKept
  <2> QED BY <2>1, QuietFacts DEF Kept
<1>2. Between
  BY BetweenAccesses
<1>3. SwTypes' /\ Counts'
  BY <1>1 DEF BootInv, Types, SwTypes, Kept, Counts, Begins
<1>4. Executor_ok'
  BY <1>1, <1>2 DEF Kept, Begins, Executes, Between, Executor_ok, Ended, Levels
<1>5. Turns'
  <2>1. mcu \in {"push", "burst"} => Open
    BY <1>2 DEF Between
  <2> QED BY <1>1, <1>2, <2>1, QuietTurns DEF Kept
<1>6. Mcu'
  BY <1>1, <1>2
     DEF BootInv, Mcu, Kept, Begins, Executes, Between, Filling, Ended, Flags, Controls
<1>7. Activation' /\ Resetting'
  BY <1>1, <1>2
     DEF BootInv, Types, HwTypes, Activation, Resetting, Kept, Begins, Controls, Mcu, Between
<1> QED BY <1>1, <1>3, <1>4, <1>5, <1>6, <1>7 DEF BootInv, Types, Begins

\* A clock in which a processor makes an access that is not to a data port.
Quiet(op) ==
    /\ Begins(op) /\ OneAccess' /\ HwTypes' /\ Coming' = 0
    /\ tx_wdata' = <<>> /\ ind_rready' = FALSE /\ external_pending' = FALSE
    /\ Between

LEMMA QuietAccess ==
    ASSUME BootInv, NEW user, NEW op, NEW word, Clock(Access(user, op, word)),
           op \notin External, Ready(user)
    PROVE  Quiet(op) /\ (mcu_next' = mcu_next => Stream')
<1>1. Access(user, op, word).op = op /\ ~external_pending
  BY DEF Access, Ready
<1> QED BY <1>1, QuietFacts, BetweenAccesses DEF Quiet

LEMMA BeginStep == ASSUME BootInv, BeginImage PROVE BootInv'
<1>1. /\ Quiet("REC_INTF_CFG") /\ Stream' /\ mcu = "begin" /\ rot = "awaits" /\ mcu' = "reset"
      /\ UNCHANGED <<mcu_left, mcu_chunk, mcu_next, rot, rot_left, rot_chunk>>
  BY QuietAccess DEF BeginImage, External, rotKept
<1>2. Level = 0 /\ mcu_left = 0 /\ rot_left = 0 /\ exec = "FifoWrite"
      /\ ~activate.value /\ ~activate.swmod
  BY <1>1 DEF BootInv, Types, HwTypes, Quiet, Between, Activation
<1>3. SwTypes' /\ Counts'
  BY <1>1 DEF BootInv, Types, SwTypes, Counts, Quiet, Begins
<1>4. Executor_ok'
  BY <1>1, <1>2 DEF Quiet, Begins, Executes, Between, Executor_ok, Ended, Levels
<1>5. Turns'
  <2>1. Begins("REC_INTF_CFG") /\ Between /\ Coming' = 0 /\ ind_rready' = FALSE
    BY <1>1 DEF Quiet
  <2> QED BY <1>1, <2>1, QuietTurns
<1>6. Mcu'
  BY <1>1, <1>2
     DEF BootInv, Mcu, Quiet, Begins, Executes, Filling, Ended, Flags, Controls
<1>7. Activation' /\ Resetting'
  BY <1>1, <1>2 DEF BootInv, Activation, Resetting, Quiet, Begins, Controls
<1> QED BY <1>1, <1>3, <1>4, <1>5, <1>6, <1>7 DEF BootInv, Types, Quiet, Begins

LEMMA ResetStep == ASSUME BootInv, ResetFifo PROVE BootInv'
<1>1. /\ Quiet("RESET") /\ Stream' /\ mcu = "reset" /\ mcu' = "size"
      /\ UNCHANGED <<mcu_left, mcu_chunk, mcu_next, rot, rot_left, rot_chunk>>
  BY QuietAccess DEF ResetFifo, External, rotKept
<1>2. /\ rot = "awaits" /\ PAYLOAD_DONE = FALSE /\ Level = 0 /\ mcu_left = 0 /\ rot_left = 0
      /\ exec = "FifoWrite" /\ ~activate.value /\ ~activate.swmod
      /\ ~reset.swmod /\ ~reset.value
  BY <1>1 DEF BootInv, Types, HwTypes, Quiet, Between, Activation, Mcu, Resetting
<1>3. SwTypes' /\ Counts'
  BY <1>1 DEF BootInv, Types, SwTypes, Counts, Quiet, Begins
<1>4. Executor_ok'
  BY <1>1, <1>2 DEF Quiet, Begins, Executes, Between, Executor_ok, Ended, Levels
<1>5. Turns'
  <2>1. Begins("RESET") /\ Between /\ Coming' = 0 /\ ind_rready' = FALSE
    BY <1>1 DEF Quiet
  <2> QED BY <1>1, <2>1, QuietTurns
<1>8. ~payload_available'
  BY <1>1, <1>2 DEF Quiet, Begins, Flags
<1>6. Mcu'
  BY <1>1, <1>2, <1>8
     DEF BootInv, Mcu, Quiet, Begins, Executes, Filling, Ended, Controls
<1>7. Activation' /\ Resetting'
  BY <1>1, <1>2 DEF Activation, Resetting, Quiet, Begins, Controls
<1> QED BY <1>1, <1>3, <1>4, <1>5, <1>6, <1>7 DEF BootInv, Types, Quiet, Begins

LEMMA SizeStep == ASSUME BootInv, WriteSize PROVE BootInv'
<1>1. /\ Quiet("STATUS") /\ Stream' /\ mcu = "size" /\ mcu' = "poll" /\ rot' = "reads"
      /\ UNCHANGED <<mcu_chunk, mcu_next, rot_chunk>>
      /\ mcu_left' = rot_left' /\ mcu_left' \in Nat /\ mcu_left' > 0
  BY QuietAccess, Sizes DEF WriteSize, External
<1>2. /\ rot = "awaits" /\ PAYLOAD_DONE = FALSE /\ Level = 0 /\ Level' = 0
      /\ mcu_left = 0 /\ rot_left = 0 /\ Coming' = 0
      /\ exec = "FifoWrite" /\ ~activate.value /\ ~activate.swmod
  BY <1>1 DEF BootInv, Types, HwTypes, Quiet, Begins, Between, Activation, Mcu
<1>3. SwTypes' /\ Counts'
  BY <1>1, <1>2 DEF BootInv, Types, SwTypes, Counts, Quiet, Begins
<1>4. Executor_ok'
  BY <1>1, <1>2 DEF Quiet, Begins, Executes, Between, Executor_ok, Ended, Levels
<1>8. ~payload_available'
  BY <1>1, <1>2 DEF Quiet, Begins, Flags
<1>5. Turns'
  <2>1. ~Filling' /\ mcu' = "poll" /\ rot' = "reads" /\ Level' = 0
    BY <1>1, <1>2 DEF Filling
  <2>2. /\ mcu' \notin {"push", "burst"} /\ rot' \notin {"pull", "burst"}
        /\ ~(Level' > 0) /\ ~ind_rready'
    BY <1>1, <2>1 DEF Quiet
  <2> QED BY <1>8, <2>1, <2>2 DEF Turns
<1>6. Mcu'
  BY <1>1, <1>2, <1>8
     DEF BootInv, Mcu, Quiet, Begins, Executes, Filling, Ended, Controls
<1>7. Activation' /\ Resetting'
  BY <1>1, <1>2
     DEF BootInv, Types, HwTypes, Activation, Resetting, Quiet, Begins, Controls
<1> QED BY <1>1, <1>3, <1>4, <1>5, <1>6, <1>7 DEF BootInv, Types, Quiet, Begins

LEMMA PollStep == ASSUME WaitsFor = "EMPTY", BootInv, PollStatus PROVE BootInv'
<1>1. /\ Quiet("STATUS") /\ Stream' /\ mcu = "poll"
      /\ mcu' = (IF EMPTY THEN "push" ELSE "poll")
      /\ mcu_chunk' = (IF EMPTY THEN Min2(Depth, mcu_left) ELSE 0)
      /\ UNCHANGED <<mcu_left, mcu_next, rot, rot_left, rot_chunk>>
  BY QuietAccess DEF PollStatus, External, rotKept, MayPush
<1>2. mcu_left > 0 /\ rot # "awaits" /\ PAYLOAD_DONE = FALSE /\ ~activate.value
      /\ Level' = Level /\ Level \in Nat /\ Level <= Depth /\ EMPTY \in BOOLEAN
  BY <1>1 DEF BootInv, Types, HwTypes, Mcu, Ended, Quiet, Between, Begins, Levels
<1>3. EMPTY => Level = 0 /\ Open
  <2>1. EMPTY => Level <= 1 /\ (Level = 1 => Open)
    BY DEF BootInv, Status
  <2>2. Open /\ Level > 0 => Level = Depth
    BY <1>1 DEF Quiet, Between
  <2>3. exec = "FifoWrite" \/ Level = Depth
    BY <1>1 DEF Quiet, Between, Ended
  <2>4. exec = "FifoWrite" /\ ~Open => Level > 0
    BY <1>1 DEF Quiet, Between
  <2> QED BY <1>2, <2>1, <2>2, <2>3, <2>4, Sizes
<1>4. SwTypes' /\ Counts'
  BY <1>1, Sizes DEF BootInv, Types, SwTypes, Counts, Quiet, Begins, Min2
<1>5. Executor_ok'
  BY <1>1, <1>2 DEF Quiet, Begins, Executes, Between, Executor_ok, Ended, Levels
<1>6. Turns'
  <2>1. Begins("STATUS") /\ Between /\ Coming' = 0 /\ ind_rready' = FALSE
    BY <1>1 DEF Quiet
  <2> QED BY <1>1, <1>3, <2>1, QuietTurns
<1>7. Mcu'
  <2>1. CASE EMPTY
    <3>1. mcu' = "push" /\ mcu_chunk' = Min2(Depth, mcu_left) /\ Level' = 0 /\ Coming' = 0
          /\ mcu_left' = mcu_left /\ mcu_left \in Nat /\ rot' = rot /\ ~PAYLOAD_DONE'
      BY <1>1, <1>2, <1>3, <2>1 DEF Quiet, Begins, Controls, Between
    <3> QED BY <1>2, <3>1, Sizes DEF Mcu, Min2, Ended
  <2>2. CASE ~EMPTY
    <3>1. mcu' = "poll" /\ mcu_left' = mcu_left /\ rot' = rot /\ ~PAYLOAD_DONE' /\ Coming' = 0
      BY <1>1, <1>2, <2>2 DEF Quiet, Begins, Controls
    <3>2. Filling' => Level' = Depth
      BY <1>1, <1>2, <3>1 DEF Quiet, Begins, Executes, Between, Filling
    <3> QED BY <1>2, <3>1, <3>2, Sizes DEF Mcu, Ended
  <2> QED BY <1>2, <2>1, <2>2
<1>8. Activation' /\ Resetting'
  <2>1. reset.value => Level = 0 /\ reset'.clear
    BY <1>1 DEF BootInv, Types, HwTypes, Resetting, Quiet, Begins, Controls
  <2> QED BY <1>1, <1>2, <2>1
     DEF BootInv, Types, HwTypes, Activation, Resetting, Quiet, Begins, Controls
<1> QED BY <1>1, <1>4, <1>5, <1>6, <1>7, <1>8 DEF BootInv, Types, Quiet, Begins

LEMMA DoneStep == ASSUME BootInv, PayloadDone PROVE BootInv'
<1>1. /\ Quiet("PAYLOAD_DONE") /\ Stream' /\ mcu = "done" /\ mcu' = "activate"
      /\ UNCHANGED <<mcu_left, mcu_chunk, mcu_next, rot, rot_left, rot_chunk>>
  BY QuietAccess DEF PayloadDone, External, rotKept
<1>2. mcu_left = 0 /\ rot # "awaits" /\ PAYLOAD_DONE = FALSE /\ PAYLOAD_DONE' = TRUE
      /\ Level' = Level /\ Level \in Nat /\ ~activate.value /\ ~activate.swmod
  BY <1>1
     DEF BootInv, Types, HwTypes, Mcu, Ended, Quiet, Between, Begins, Controls, Activation
<1>3. SwTypes' /\ Counts'
  BY <1>1 DEF BootInv, Types, SwTypes, Counts, Quiet, Begins
<1>4. Executor_ok'
  BY <1>1, <1>2 DEF Quiet, Begins, Executes, Between, Executor_ok, Ended, Levels
<1>5. Turns'
  <2>1. Begins("PAYLOAD_DONE") /\ Between /\ Coming' = 0 /\ ind_rready' = FALSE
    BY <1>1 DEF Quiet
  <2> QED BY <1>1, <2>1, QuietTurns
<1>6. Mcu'
  BY <1>1, <1>2 DEF BootInv, Mcu, Quiet, Ended
<1>7. Activation' /\ Resetting'
  BY <1>1, <1>2
     DEF BootInv, Types, HwTypes, Activation, Resetting, Quiet, Begins, Controls
<1> QED BY <1>1, <1>3, <1>4, <1>5, <1>6, <1>7 DEF BootInv, Types, Quiet, Begins

LEMMA ActivateStep == ASSUME BootInv, Activate PROVE BootInv'
<1>1. /\ Quiet("ACTIVATE") /\ Stream' /\ mcu = "activate" /\ mcu' = "begin"
      /\ UNCHANGED <<mcu_left, mcu_chunk, mcu_next, rot, rot_left, rot_chunk>>
  BY QuietAccess DEF Activate, External, rotKept
<1>2. mcu_left = 0 /\ rot # "awaits" /\ ~activate.value /\ ~activate.swmod
      /\ Level' = Level /\ Level \in Nat
  BY <1>1 DEF BootInv, Types, HwTypes, Mcu, Ended, Quiet, Between, Begins, Activation
<1>3. SwTypes' /\ Counts'
  BY <1>1 DEF BootInv, Types, SwTypes, Counts, Quiet, Begins
<1>8. Open' /\ Level > 0 => PAYLOAD_DONE'
  <2>1. Open' /\ Level > 0 => Open /\ ~PAYLOAD_DONE
    BY <1>1 DEF Quiet, Begins, Executes
  <2>2. Open /\ Level > 0 => PAYLOAD_DONE
    BY <1>1 DEF Quiet, Between, Ended
  <2> QED BY <2>1, <2>2
<1>4. Executor_ok'
  BY <1>1, <1>2, <1>8 DEF Quiet, Begins, Executes, Between, Executor_ok, Ended, Levels
<1>5. Turns'
  <2>1. Begins("ACTIVATE") /\ Between /\ Coming' = 0 /\ ind_rready' = FALSE
    BY <1>1 DEF Quiet
  <2> QED BY <1>1, <2>1, QuietTurns
<1>6. Mcu'
  BY <1>1, <1>2 DEF BootInv, Mcu, Quiet, Ended
<1>7. Activation' /\ Resetting'
  BY <1>1, <1>2
     DEF BootInv, Types, HwTypes, Activation, Resetting, Quiet, Begins, Controls
<1> QED BY <1>1, <1>3, <1>4, <1>5, <1>6, <1>7 DEF BootInv, Types, Quiet, Begins

LEMMA SeeStep == ASSUME BootInv, SeePayload PROVE BootInv'
<1>1. /\ Quiet("STATUS") /\ Stream' /\ rot = "reads" /\ rot_left > 0
      /\ payload_available \/ FULL
      /\ rot' = "pull" /\ rot_chunk' = Min2(Depth, rot_left)
      /\ UNCHANGED <<mcu, mcu_left, mcu_chunk, mcu_next, rot_left>>
  BY QuietAccess DEF SeePayload, External, mcuKept
<1>2. Level' = Level /\ Level \in Nat /\ Level <= Depth /\ Coming' = 0 /\ ind_rready' = FALSE
  BY <1>1 DEF Quiet, Begins, Levels
\* The RoT finds a chunk that is complete.
<1>3. Level > 0 /\ ~Open /\ (payload_available \/ Level = Depth)
  <2>1. FULL => Level = Depth
    BY <1>1 DEF BootInv, Status, Quiet, Begins
  <2>2. Open => Level < Depth
    BY <1>1 DEF Quiet, Between
  <2>3. payload_available => Level > 0 \/ rot_left = 0
    BY <1>1 DEF Quiet, Between
  <2>4. payload_available /\ Level > 0 => ~Open
    BY <1>1 DEF Quiet, Between
  <2> QED BY <1>1, <1>2, <2>1, <2>2, <2>3, <2>4, Sizes
<1>4. rot_chunk' = Level /\ rot_chunk' >= 1
  <2>1. Level = Depth \/ mcu_left = 0
    BY <1>1, <1>3 DEF Quiet, Between
  <2>2. rot_left = mcu_left + Level /\ mcu_left \in Nat /\ rot_left \in Nat
    BY <1>1 DEF Quiet, Between
  <2> QED BY <1>1, <1>2, <1>3, <2>1, <2>2, Sizes DEF Min2
<1>5. ~Open' /\ allow_read'
  <2>1. Level # 0 /\ Level > 0 /\ ~Open /\ (payload_available \/ Level = Depth)
    BY <1>2, <1>3
  <2>2. ~Open'
    BY <1>1, <2>1 DEF Quiet, Begins, Executes
  <2>3. allow_read'
    BY <1>1, <2>1 DEF Quiet, Begins, Flags
  <2> QED BY <2>2, <2>3
<1>6. SwTypes' /\ Counts'
  BY <1>1, <1>2, <1>4 DEF BootInv, Types, SwTypes, Counts, Quiet, Begins
<1>7. Executor_ok'
  BY <1>1, <1>2 DEF Quiet, Begins, Executes, Between, Executor_ok, Ended, Levels
<1>8. Turns'
  <2>1. mcu' \notin {"push", "burst"} /\ ~Filling'
    BY <1>1, <1>3, <1>5 DEF Quiet, Between, Filling
  <2> QED BY <1>1, <1>2, <1>3, <1>4, <1>5, <2>1 DEF Turns
<1>9. Mcu'
  BY <1>1, <1>2, <1>3, <1>5
     DEF BootInv, Mcu, Filling, Quiet, Begins, Controls, Between, Ended
<1>10. Activation' /\ Resetting'
  BY <1>1, <1>2, <1>3
     DEF BootInv, Types, HwTypes, Activation, Resetting, Quiet, Begins, Controls, Mcu, Between
<1> QED BY <1>1, <1>6, <1>7, <1>8, <1>9, <1>10 DEF BootInv, Types, Quiet, Begins

LEMMA ClearStep == ASSUME BootInv, ClearActivate PROVE BootInv'
<1>1. /\ Quiet("RECOVERY_CTRL") /\ Stream' /\ rot = "reads" /\ rot_left = 0
      /\ activate.value /\ rot' = "awaits"
      /\ UNCHANGED <<mcu, mcu_left, mcu_chunk, mcu_next, rot_left, rot_chunk>>
  BY QuietAccess DEF ClearActivate, External, mcuKept
<1>2. /\ mcu = "begin" /\ ~activate.swmod /\ Level = 0 /\ Level' = 0 /\ mcu_left = 0
      /\ exec = "FifoWrite" \/ exec = "Idle"
  BY <1>1 DEF BootInv, Types, HwTypes, Activation, Quiet, Between, Begins
<1>3. SwTypes' /\ Counts'
  BY <1>1 DEF BootInv, Types, SwTypes, Counts, Quiet, Begins
<1>4. Executor_ok'
  BY <1>1, <1>2 DEF Quiet, Begins, Executes, Executor_ok, Ended, Levels
<1>5. Turns'
  <2>1. Begins("RECOVERY_CTRL") /\ Between /\ Coming' = 0 /\ ind_rready' = FALSE
    BY <1>1 DEF Quiet
  <2>2. /\ mcu' \notin {"push", "burst"} /\ (rot' = rot \/ rot' = "awaits")
        /\ (Level > 0 => rot' = rot)
        /\ mcu_left' = mcu_left /\ rot_left' = rot_left /\ rot_chunk' = rot_chunk
    BY <1>1, <1>2
  <2> QED BY <2>1, <2>2, QuietTurns
<1>6. Mcu'
  BY <1>1, <1>2 DEF BootInv, Mcu, Quiet, Ended
<1>7. Activation' /\ Resetting'
  BY <1>1, <1>2
     DEF BootInv, Types, HwTypes, Activation, Resetting, Quiet, Begins, Controls
<1> QED BY <1>1, <1>3, <1>4, <1>5, <1>6, <1>7 DEF BootInv, Types, Quiet, Begins

\* A word that is written finds the queue open; the executor waits for it.
LEMMA PushStep == ASSUME BootInv, PushWord PROVE BootInv'
<1> DEFINE a == Access("mcu", "TX_DATA_PORT", mcu_next)
<1>1. /\ ~external_pending /\ mcu \in {"push", "burst"} /\ Clock(a)
      /\ a.op = "TX_DATA_PORT" /\ a.word = mcu_next
      /\ mcu_left' = mcu_left - 1 /\ mcu_chunk' = mcu_chunk - 1 /\ mcu_next' = Succ(mcu_next)
      /\ mcu' = (IF mcu_left = 1 THEN "done" ELSE IF mcu_chunk = 1 THEN "poll" ELSE "burst")
      /\ UNCHANGED <<rot, rot_left, rot_chunk>>
  BY DEF PushWord, Ready, Access, Succ, rotKept
<1>2. Freely(a) /\ Begins(a.op) /\ Between
  BY <1>1, FreeFacts, BetweenAccesses
<1> HIDE DEF a
<1>3. /\ Open /\ exec = "FifoWrite" /\ Level < Depth /\ Level # Depth /\ Level \in Nat /\ ~PAYLOAD_DONE
      /\ ~payload_available /\ allow_write /\ ~allow_read /\ rot = "reads"
      /\ ~activate.value
  BY <1>1, <1>2, Sizes DEF Between, Open, Ended
<1>4. /\ tx_wdata' = <<mcu_next>> /\ external_pending' = TRUE /\ ind_rready' = FALSE
      /\ mcu_next \in Word
  <2>1. TxReq(a) /\ ~TxDropped(a) /\ ~RdReq(a) /\ ~RdEmpty(a) /\ a.op \in External
    BY <1>1, <1>2, <1>3 DEF TxReq, TxDropped, RdReq, RdEmpty, Begins, Levels, External
  <2> QED BY <1>1, <1>2, <2>1 DEF BootInv, Types, SwTypes, Freely
<1>5. Level' = Level /\ Coming' = 1 /\ ind_ack' = <<>> /\ tx_queue' = <<>> /\ tx_ack' = FALSE
  <2>1. Len(<<mcu_next>>) = 1
    OBVIOUS
  <2> QED BY <1>2, <1>4, <2>1, EmptySeq DEF Begins, Coming
<1>6. /\ Open' /\ exec' = "FifoWrite" /\ exec_ready' /\ PAYLOAD_DONE' = FALSE
      /\ ~payload_available' /\ allow_write' /\ ~allow_read' /\ reset'.value = FALSE
  <2>1. Open' /\ exec' = "FifoWrite" /\ exec_ready'
    BY <1>2, <1>3 DEF Begins, Executes
  <2>2. ~payload_available' /\ allow_write' /\ ~allow_read'
    BY <1>2, <1>3 DEF Begins, Flags
  <2>3. PAYLOAD_DONE' = FALSE
    BY <1>1, <1>2, <1>3 DEF Begins, Controls
  <2>4. reset'.value = FALSE
    BY <1>1, <1>2 DEF BootInv, Types, HwTypes, Resetting, Begins, Controls
  <2> QED BY <2>1, <2>2, <2>3, <2>4
<1>7. /\ mcu_left \in Nat /\ mcu_left > 0 /\ mcu_chunk \in 1 .. mcu_left
      /\ mcu_chunk + Level <= Depth
      /\ mcu_chunk = mcu_left \/ mcu_chunk + Level = Depth
  BY <1>1, <1>2, <1>3 DEF BootInv, Types, SwTypes, Mcu, Begins
<1>8. HwTypes'
  BY <1>2, <1>4, <1>5, <1>6
     DEF BootInv, Types, HwTypes, Begins, Flags, Controls, Executes, AtMostOne
<1>9. SwTypes'
  BY <1>1, <1>4, <1>7, SuccWord, Sizes DEF BootInv, Types, SwTypes
<1>10. OneAccess'
  BY <1>4, <1>5 DEF OneAccess
<1>11. Stream'
  <2>1. tx_wdata'[1] = mcu_next /\ tx_wdata' # <<>>
    BY <1>4
  <2> QED BY <1>1, <1>2, <1>5, <2>1 DEF BootInv, Stream, Begins, NextIn, NextOut
<1>12. Counts'
  BY <1>1, <1>2, <1>3, <1>4, <1>5, <1>7 DEF Between, Counts
<1>13. Executor_ok'
  BY <1>1, <1>3, <1>4, <1>5, <1>6 DEF Executor_ok, Ended
<1>14. Turns'
  BY <1>1, <1>3, <1>4, <1>5, <1>6 DEF Turns
<1>15. Mcu'
  BY <1>1, <1>3, <1>4, <1>5, <1>6, <1>7, Sizes DEF Mcu, Ended
<1>16. Activation' /\ Resetting'
  BY <1>1, <1>2, <1>3, <1>6
     DEF BootInv, Types, HwTypes, Activation, Resetting, Begins, Controls
<1> QED BY <1>2, <1>8, <1>9, <1>10, <1>11, <1>12, <1>13, <1>14, <1>15, <1>16
        DEF BootInv, Types, Begins

\* A word that is asked for is there.
LEMMA ReadStep == ASSUME BootInv, ReadWord PROVE BootInv'
<1> DEFINE a == Access("rot", "INDIRECT_FIFO_DATA", 0)
<1>1. /\ ~external_pending /\ rot \in {"pull", "burst"} /\ Clock(a)
      /\ a.op = "INDIRECT_FIFO_DATA"
      /\ rot_left' = rot_left - 1 /\ rot_chunk' = rot_chunk - 1
      /\ rot' = (IF rot_chunk = 1 THEN "reads" ELSE "burst")
      /\ UNCHANGED <<mcu, mcu_left, mcu_chunk, mcu_next>>
  BY DEF ReadWord, Ready, Access, mcuKept
<1>2. Freely(a) /\ Begins(a.op) /\ Between
  BY <1>1, FreeFacts, BetweenAccesses
<1> HIDE DEF a
<1>3. /\ rot_chunk = Level /\ Level \in Nat /\ Level > 0 /\ Level # 0 /\ ~Open /\ allow_read
      /\ mcu \notin {"push", "burst"} /\ (exec # "Done" \/ mcu \in Ended)
      /\ PAYLOAD_DONE => mcu \in Ended
  BY <1>1, <1>2 DEF BootInv, Executor_ok, Between
<1>4. /\ ~EMPTY /\ EMPTY = empty_r /\ reset.value = FALSE
  BY <1>2, <1>3, Sizes DEF BootInv, Types, HwTypes, Status, Resetting
<1>5. /\ ind_rready' = TRUE /\ tx_wdata' = <<>> /\ external_pending' = TRUE
  <2>1. ~TxReq(a) /\ ~TxDropped(a) /\ RdReq(a) /\ ~RdEmpty(a) /\ a.op \in External
    BY <1>1, <1>3, <1>4 DEF TxReq, TxDropped, RdReq, RdEmpty, External
  <2> QED BY <1>2, <1>4, <2>1 DEF Freely
<1>6. Level' = Level /\ Coming' = 0 /\ ind_ack' = <<>> /\ tx_queue' = <<>> /\ tx_ack' = FALSE
  BY <1>2, <1>5, EmptySeq DEF Begins, Coming
<1>7. ~Open' /\ allow_read' /\ reset'.value = FALSE
  <2>1. ~Open'
    BY <1>2, <1>3 DEF Begins, Executes
  <2>2. allow_read'
    BY <1>2, <1>3 DEF Begins, Flags
  <2>3. reset'.value = FALSE
    BY <1>1, <1>2, <1>4 DEF BootInv, Types, HwTypes, Resetting, Begins, Controls, Mcu
  <2> QED BY <2>1, <2>2, <2>3
<1>8. HwTypes'
  BY <1>2, <1>5, <1>6
     DEF BootInv, Types, HwTypes, Begins, Flags, Controls, Executes, AtMostOne
<1>9. SwTypes'
  <2>1. rot_chunk \in Nat /\ rot_chunk >= 1 /\ rot_chunk <= Depth /\ rot_left >= Level
    BY <1>1, <1>2, <1>3, Sizes DEF BootInv, Types, SwTypes, Between
  <2> QED BY <1>1, <1>2, <1>3, <2>1, Sizes DEF BootInv, Types, SwTypes, Between
<1>10. OneAccess'
  <2>1. ind_queue' # <<>>
    BY <1>2, <1>3 DEF Begins, Levels, ind_empty
  <2> QED BY <1>5, <1>6, <2>1 DEF OneAccess
<1>11. Stream'
  BY <1>1, <1>2, <1>5, <1>6 DEF BootInv, Stream, Begins, NextIn, NextOut
<1>12. Counts'
  BY <1>1, <1>2, <1>5, <1>6 DEF Between, Counts
<1>13. Executor_ok'
  <2>1. exec' = "FifoWrite" => (exec_ready' \/ rreq') /\ dcnt' = Depth
    BY <1>2, <1>7 DEF Begins, Executes
  <2>2. exec' # "FifoWrite" => mcu \in Ended
    BY <1>2, <1>3 DEF Begins, Executes
  <2> QED BY <1>1, <1>3, <1>6, <2>1, <2>2 DEF Executor_ok, Ended
<1>14. Turns'
  <2>1. ~Filling' /\ mcu' \notin {"push", "burst"} /\ Level' > 0
    <3>1. mcu' \notin {"push", "burst"}
      BY <1>1, <1>3
    <3>2. ~Filling'
      BY <1>7 DEF Filling
    <3> QED BY <1>3, <1>6, <3>1, <3>2
  <2>2. CASE rot_chunk = 1
    <3>1. rot' = "reads" /\ Level' = 1
      BY <1>1, <1>3, <1>6, <2>2
    <3> QED BY <1>5, <1>7, <2>1, <3>1 DEF Turns
  <2>3. CASE rot_chunk # 1
    <3>1. rot' = "burst" /\ rot_chunk' >= 1 /\ rot_chunk' + 1 = Level'
      BY <1>1, <1>3, <1>6, <2>3
    <3> QED BY <1>5, <1>7, <2>1, <3>1 DEF Turns
  <2> QED BY <2>2, <2>3
<1>15. Mcu'
  BY <1>1, <1>2, <1>3, <1>6, <1>7
     DEF BootInv, Mcu, Filling, Ended, Begins, Controls, Between
<1>16. Activation' /\ Resetting'
  BY <1>1, <1>2, <1>7
     DEF BootInv, Types, HwTypes, Activation, Resetting, Begins, Controls, Between, Mcu
<1> QED BY <1>2, <1>8, <1>9, <1>10, <1>11, <1>12, <1>13, <1>14, <1>15, <1>16
        DEF BootInv, Types, Begins

LEMMA BootInit == Init => BootInv
<1> SUFFICES ASSUME Init PROVE BootInv
  OBVIOUS
<1>1. Types /\ Level = 0 /\ Coming = 0 /\ Len(ind_ack) = 0
  <2>1. <<>> \in Seq(Word) /\ Len(<<>>) = 0 /\ 0 \in Word
    BY EmptySeq, Sizes DEF Word, Numbers
  <2>2. HwTypes
    <3>1. /\ tx_wdata \in AtMostOne /\ tx_queue \in AtMostOne /\ ind_ack \in AtMostOne
          /\ ind_queue \in Seq(Word) /\ Len(ind_queue) <= Depth
      BY <2>1, Sizes DEF Init, AtMostOne
    <3>2. activate \in [swmod : BOOLEAN, value : BOOLEAN]
          /\ reset \in [swmod : BOOLEAN, value : BOOLEAN, clear : BOOLEAN]
      BY DEF Init
    <3>3. /\ exec \in {"Idle", "FifoWrite", "Done"} /\ dcnt \in 0 .. Depth /\ dcnt # 0
          /\ WRITE_INDEX \in 0 .. Depth - 1 /\ READ_INDEX \in 0 .. Depth - 1
          /\ rot_next \in Word
      BY <2>1, Sizes DEF Init
    <3> QED BY <3>1, <3>2, <3>3 DEF Init, HwTypes
  <2>3. SwTypes
    BY <2>1, Sizes DEF Init, SwTypes
  <2> QED BY <2>1, <2>2, <2>3 DEF Init, Types, Level, Coming
<1>2. Open
  BY <1>1, Sizes DEF Init, Open
<1>3. OneAccess /\ Counts
  BY <1>1 DEF Init, OneAccess, Counts
<1>4. Stream
  BY EmptySeq DEF Init, Stream, NextIn, NextOut, Run
<1>5. Indices_ok /\ Status
  <2>1. Held = 0
    BY <1>1 DEF Held
  <2>2. Indices_ok
    BY <2>1 DEF Init, Indices_ok
  <2>3. Status
    <3>1. /\ FULL = FALSE /\ full_r = FALSE /\ EMPTY = TRUE /\ empty_r = TRUE
          /\ allow_write = TRUE
      BY DEF Init
    <3>2. Level <= 1 /\ Level # 1
      BY <1>1
    <3> QED BY <3>1, <3>2 DEF Status
  <2> QED BY <2>2, <2>3
<1>6. Executor_ok /\ Turns
  BY <1>1, <1>2 DEF Init, Executor_ok, Turns, Filling, Ended
<1>7. Mcu /\ Activation /\ Resetting
  BY <1>1 DEF Init, Mcu, Activation, Resetting, Ended
<1> QED BY <1>1, <1>3, <1>4, <1>5, <1>6, <1>7 DEF BootInv

LEMMA BootNext == ASSUME WaitsFor = "EMPTY", BootInv, [Next]_vars PROVE BootInv'
<1>1. CASE Tick
  <2>1. external_pending =>
            tx_wdata # <<>> \/ tx_ack \/ ind_rready \/ ind_ack # <<>>
    BY DEF BootInv, OneAccess
  <2> QED BY <1>1, <2>1, IdleStep, WaitStep, ArriveStep, AskStep, AnswerStep
<1>2. CASE McuStep
  BY <1>2, BeginStep, ResetStep, SizeStep, PollStep, PushStep, DoneStep, ActivateStep
     DEF McuStep
<1>3. CASE RotStep
  BY <1>3, SeeStep, ReadStep, ClearStep DEF RotStep
<1>4. CASE UNCHANGED vars
  BY <1>4 DEF BootInv, Types, HwTypes, SwTypes, OneAccess, Stream, Counts, Indices_ok,
     Status, Executor_ok, Turns, Mcu, Activation, Resetting, NextOut, NextIn, Held, Open,
     Ended, Filling, Coming, Level,
     vars, txVars, execVars, indVars, csrVars, swVars
<1> QED BY <1>1, <1>2, <1>3, <1>4 DEF Next

\* The words between the two processors, the executor, the permissions and
\* the flags agree in every state.
THEOREM BootInvariance == ASSUME WaitsFor = "EMPTY" PROVE Spec => []BootInv
<1>1. Init => BootInv
  BY BootInit
<1>2. BootInv /\ [Next]_vars => BootInv'
  BY BootNext
<1> QED BY <1>1, <1>2, PTL DEF Spec

\* Every variable keeps its type: no counter runs below zero or past a chunk.
THEOREM Typing == ASSUME WaitsFor = "EMPTY" PROVE Spec => []TypeOK
<1>1. BootInv => TypeOK
  <2> SUFFICES ASSUME BootInv PROVE TypeOK
    OBVIOUS
  <2>1. Len(tx_wdata) <= 1 /\ Len(tx_queue) <= TxDepth /\ Len(ind_ack) <= 1
    <3>1. ASSUME NEW q \in AtMostOne, NEW n \in Nat, n >= 1 PROVE Len(q) <= n
      <4>1. CASE q = <<>>
        BY <3>1, <4>1, EmptySeq
      <4>2. CASE q # <<>>
        BY <3>1, <4>2, AtMost
      <4> QED BY <4>1, <4>2
    <3>2. \A q \in AtMostOne : Len(q) <= 1 /\ Len(q) <= TxDepth
      BY <3>1, Sizes
    <3> QED BY <3>2 DEF BootInv, Types, HwTypes
  <2> QED BY <2>1 DEF BootInv, Types, HwTypes, SwTypes, TypeOK
<1> QED BY <1>1, BootInvariance, PTL

\* The RoT reads the words of the images once and in order, and once it has
\* an image it has all of it.
THEOREM WordsInOrder == ASSUME WaitsFor = "EMPTY" PROVE Spec => []StreamInOrder
<1>1. BootInv => StreamInOrder
  <2> SUFFICES ASSUME BootInv PROVE StreamInOrder
    OBVIOUS
  <2>1. ASSUME rot = "awaits" PROVE rot_next = mcu_next
    <3>1. ~external_pending
      BY <2>1 DEF BootInv, Mcu
    <3>2. tx_wdata = <<>> /\ tx_queue = <<>> /\ ind_ack = <<>> /\ Level = 0 /\ Levels
      BY <2>1, <3>1, Shape, BetweenAccesses DEF BootInv, OneAccess, Between
    <3>3. ind_queue = <<>>
      BY <3>2 DEF Levels, ind_empty
    <3> QED BY <3>2, <3>3 DEF BootInv, Stream, Run, NextIn, NextOut
  <2> QED BY <2>1 DEF BootInv, Stream, StreamInOrder
<1> QED BY <1>1, BootInvariance, PTL

\* No access to a data port hangs: each is under way in one of the queues
\* until it is acknowledged.
THEOREM NoAccessHangs == ASSUME WaitsFor = "EMPTY" PROVE Spec => []PortAnswers
<1>1. BootInv => PortAnswers
  BY DEF BootInv, OneAccess, PortAnswers
<1> QED BY <1>1, BootInvariance, PTL

\* The indices that software reads tell the words in the FIFO.
THEOREM IndicesAgree == ASSUME WaitsFor = "EMPTY" PROVE Spec => []IndicesTrack
<1>1. BootInv => IndicesTrack
  <2> SUFFICES ASSUME BootInv PROVE IndicesTrack
    OBVIOUS
  <2>1. /\ WRITE_INDEX \in 0 .. Depth - 1 /\ READ_INDEX \in 0 .. Depth - 1
        /\ WRITE_INDEX - READ_INDEX \in {Held, Held - Depth}
    BY DEF BootInv, Types, HwTypes, Indices_ok
  <2>2. Held \in Int
    BY <2>1, Shape, EmptySeq, AtMost DEF BootInv, Types, HwTypes, Held, Levels
  <2>3. \A n \in Nat : \A d \in Int :
            0 <= d /\ d < n => d % n = d /\ (d + n) % n = d
    OBVIOUS
  <2>4. \A n \in Nat : \A d \in Int :
            d < 0 /\ 0 - n < d => d % n = d + n /\ (d + n) % n = d + n
    OBVIOUS
  <2>5. (WRITE_INDEX - READ_INDEX) % Depth = Held % Depth
    BY <2>1, <2>2, <2>3, <2>4, Sizes
  <2> QED BY <2>5 DEF IndicesTrack, Held, Level
<1> QED BY <1>1, BootInvariance, PTL

\* When the pin rises for the RoT the chunk is complete: the executor's count
\* leaves no room for a word that is still on its way.
THEOREM PinAfterChunk == ASSUME WaitsFor = "EMPTY" PROVE Spec => PayloadComplete
<1>1. ASSUME BootInv, Next, payload_available', ~payload_available, ~activate.value
      PROVE  tx_wdata = <<>> /\ mcu \notin {"push", "burst"}
  <2>1. Flags
    <3>1. \E a : Hardware(a)
      BY <1>1
         DEF Next, Tick, McuStep, RotStep, BeginImage, ResetFifo, WriteSize, PollStatus,
         PushWord, PayloadDone, Activate, SeePayload, ReadWord, ClearActivate, Clock
    <3> QED BY <1>1, <3>1, FlagMoves
  <2>2. (exec = "FifoWrite" /\ tx_ack /\ dcnt = 1) \/ PAYLOAD_DONE
    BY <1>1, <2>1 DEF Flags, BootInv, Types, HwTypes
  <2>3. CASE tx_ack /\ dcnt = 1
    <3>1. Levels /\ tx_wdata = <<>> /\ Coming = 1
      BY <1>1, <2>3, Shape DEF BootInv, OneAccess, Levels
    <3>2. dcnt + Level = Depth
      BY <1>1, <3>1 DEF BootInv, Executor_ok, Open
    <3>3. ASSUME mcu \in {"push", "burst"} PROVE FALSE
      <4>1. mcu_chunk >= 1 /\ mcu_chunk + Level + 1 <= Depth /\ mcu_chunk \in Nat
        BY <1>1, <3>1, <3>3 DEF BootInv, Types, SwTypes, Mcu
      <4> QED BY <2>3, <3>1, <3>2, <4>1, Sizes DEF Levels
    <3> QED BY <3>1, <3>3
  <2>4. CASE PAYLOAD_DONE
    <3>1. mcu \in Ended /\ Coming = 0 /\ Levels
      BY <1>1, <2>4, Shape DEF BootInv, Mcu
    <3> QED BY <3>1 DEF Levels, Ended
  <2> QED BY <2>2, <2>3, <2>4
<1>2. BootInv /\ [Next]_vars =>
          [payload_available' /\ ~payload_available /\ ~activate.value =>
              tx_wdata = <<>> /\ mcu \notin {"push", "burst"}]_vars
  BY <1>1
<1> QED BY <1>2, BootInvariance, PTL DEF Spec, PayloadComplete
=============================================================================
