-------------------------- MODULE TargetIbiProofs --------------------------
(***************************************************************************)
(* The safety of in-band interrupts, for every queue depth, retry count,   *)
(* hold time, clock ratio, message length and set of headers; and first    *)
(* that descriptor_ibi keeps the boundaries of the messages in its queue,  *)
(* for every consumer of the bytes.                                        *)
(***************************************************************************)
EXTENDS TargetIbi, SequenceTheorems, TLAPS

-----------------------------------------------------------------------------
(* The queue of descriptor_ibi. *)

\* The words software writes when it follows the protocol.
LegalWord ==
    {w \in [msg : Nat, k : Nat, len : 0..255] : w.k <= Words(w.len)}

\* A stretch s of the stream of words that ends with the word w.
Stream(s, w) ==
    /\ s \in Seq(LegalWord)
    /\ w \in LegalWord
    /\ \A i \in 1..(Len(s) - 1) : Follows(s[i], s[i + 1])
    /\ s # <<>> => s[Len(s)] = w
    /\ s = <<>> => w.k = Words(w.len)

\* What the FSM knows about the head of the queue in each of its states.
Stage ==
    /\ desc \in DescStates
    /\ head \in LegalWord
    /\ data_cnt \in 0..255
    /\ desc # "Idle" => head.k = 0
    /\ desc \in {"DescLatch", "DescPop", "WriteMdb"} => data_cnt = 0
    /\ desc = "Idle" /\ ibi_queue # <<>> => ibi_queue[1].k = 0
    /\ desc \in {"DescLatch", "DescPop"} =>
          ibi_queue # <<>> /\ ibi_queue[1] = head
    /\ desc = "DescPop" => Len(ibi_queue) >= Words(head.len) + 1
    /\ desc = "WriteMdb" =>
          /\ Len(ibi_queue) >= Words(head.len)
          /\ ibi_queue # <<>> =>
                IF head.len = 0 THEN ibi_queue[1].k = 0
                ELSE AtPlace(ibi_queue[1], head, 1)
    /\ desc = "WriteData" =>
          /\ data_cnt < head.len
          /\ ibi_queue # <<>>
          /\ AtPlace(ibi_queue[1], head, data_cnt \div 4 + 1)
          /\ Len(ibi_queue) >= Words(head.len) - data_cnt \div 4

\* The inductive invariant of descriptor_ibi and its queue.
FrameInv == Stream(ibi_queue, written) /\ Stage

-----------------------------------------------------------------------------
(***************************************************************************)
(* Arithmetic of the word and byte counts.                                 *)
(***************************************************************************)

\* The code counts the words that software means.
LEMMA WordArithmetic ==
    ASSUME NEW len \in 0..255
    PROVE  /\ Words(len) \in 0..64
           /\ data_words(len) = Words(len)
           /\ len = 0 => Words(len) = 0 /\ data_len(len) = 255
           /\ len # 0 => Words(len) >= 1 /\ data_len(len) = len - 1
BY SMT DEF Words, data_words, data_len

-----------------------------------------------------------------------------
(***************************************************************************)
(* The stream of words: software appends to it, the FSM takes its head.    *)
(***************************************************************************)

\* What software may write continues the stream.
LEMMA NextWordFollows ==
    ASSUME written \in LegalWord, NEW w \in NextWords
    PROVE  w \in LegalWord /\ Follows(written, w)
<1>1. CASE written.k < Words(written.len)
  <2>1. w = [written EXCEPT !.k = written.k + 1]
    BY <1>1 DEF NextWords
  <2>2. w \in LegalWord
    <3>1. /\ written \in [msg : Nat, k : Nat, len : 0..255]
          /\ Words(written.len) \in 0..64
      BY WordArithmetic DEF LegalWord
    <3>2. /\ w \in [msg : Nat, k : Nat, len : 0..255]
          /\ w.len = written.len /\ w.k = written.k + 1
      BY <2>1, <3>1
    <3> QED BY <1>1, <3>1, <3>2 DEF LegalWord
  <2>3. AtPlace(w, written, written.k + 1)
    BY <1>1, <2>1, WordArithmetic DEF AtPlace, LegalWord
  <2> QED BY <1>1, <2>2, <2>3 DEF Follows
<1>2. CASE ~(written.k < Words(written.len))
  <2>1. PICK n \in Lengths : w = [msg |-> written.msg + 1, k |-> 0, len |-> n]
    BY <1>2 DEF NextWords
  <2>2. w \in LegalWord
    <3>a. n \in 0..255
      BY DescriptorAssumption
    <3>1. n \in 0..255 /\ Words(n) \in 0..64
      BY <3>a, WordArithmetic
    <3> QED BY <2>1, <3>1 DEF LegalWord
  <2> QED BY <1>2, <2>1, <2>2 DEF Follows
<1> QED BY <1>1, <1>2

LEMMA AppendStream ==
    ASSUME NEW s, NEW v, NEW w \in LegalWord, Stream(s, v), Follows(v, w)
    PROVE  Stream(s \o <<w>>, w)
<1> DEFINE t == s \o <<w>>
<1>1. /\ t \in Seq(LegalWord)
      /\ Len(t) = Len(s) + 1
      /\ \A i \in 1..Len(s) : t[i] = s[i]
      /\ t[Len(s) + 1] = w
  BY DEF Stream
<1>2. ASSUME NEW i \in 1..(Len(t) - 1)
      PROVE  Follows(t[i], t[i + 1])
  <2>1. CASE i < Len(s)
    BY <1>1, <2>1 DEF Stream
  <2>2. CASE i = Len(s)
    <3>1. s # <<>> /\ t[i] = v
      BY <1>1, <2>2 DEF Stream
    <3> QED BY <1>1, <2>2, <3>1
  <2> QED BY <1>1, <2>1, <2>2 DEF Stream
<1>3. t # <<>> /\ t[Len(t)] = w
  BY <1>1 DEF Stream
<1> QED BY <1>1, <1>2, <1>3 DEF Stream

\* The head may go: the last word when it completes a message.
LEMMA TailStream ==
    ASSUME NEW s, NEW v, Stream(s, v), s # <<>>,
           Len(s) = 1 => v.k = Words(v.len)
    PROVE  /\ Stream(Tail(s), v)
           /\ Len(Tail(s)) = Len(s) - 1
           /\ Tail(s) # <<>> => Follows(s[1], Tail(s)[1])
<1> DEFINE t == Tail(s)
<1>1. /\ t \in Seq(LegalWord)
      /\ Len(s) \in Nat \ {0}
      /\ Len(t) = Len(s) - 1
      /\ \A i \in 1..Len(t) : t[i] = s[i + 1]
  BY DEF Stream
<1>2. ASSUME NEW i \in 1..(Len(t) - 1)
      PROVE  Follows(t[i], t[i + 1])
  BY <1>1 DEF Stream
<1>3. t # <<>> => Len(t) \in Nat \ {0}
  BY <1>1
<1>4. t # <<>> => t[Len(t)] = v
  BY <1>1, <1>3 DEF Stream
<1>5. t = <<>> => v.k = Words(v.len)
  <2>1. t = <<>> => Len(t) = 0
    <3>1. Len(<<>>) = 0
      OBVIOUS
    <3> HIDE DEF t
    <3> QED BY <3>1, Zenon
  <2> QED BY <1>1, <2>1
<1>6. t # <<>> => Follows(s[1], t[1])
  BY <1>1, <1>3 DEF Stream
<1> QED BY <1>1, <1>2, <1>4, <1>5, <1>6 DEF Stream

\* Software appends to what is left of the queue.
LEMMA OfferStream ==
    ASSUME NEW kept, Stream(kept, written),
           NEW offer \in Offers, Software(offer), ibi_queue' = kept \o offer
    PROVE  /\ Stream(ibi_queue', written')
           /\ Len(ibi_queue') >= Len(kept)
           /\ kept # <<>> => ibi_queue' # <<>> /\ ibi_queue'[1] = kept[1]
           /\ kept = <<>> /\ ibi_queue' # <<>> =>
                 Follows(written, ibi_queue'[1])
<1>0. kept \in Seq(LegalWord) /\ written \in LegalWord /\ Len(kept) \in Nat
  BY DEF Stream
<1>1. CASE offer = <<>>
  <2>1. ibi_queue' = kept
    BY <1>0, <1>1
  <2> QED BY <1>0, <1>1, <2>1 DEF Software
<1>2. CASE offer # <<>>
  <2>1. PICK w \in NextWords : offer = <<w>>
    BY <1>2 DEF Offers
  <2>2. w \in LegalWord /\ Follows(written, w) /\ written' = w
    BY <1>0, <2>1, NextWordFollows DEF Software
  <2>3. Stream(ibi_queue', written')
    BY <2>1, <2>2, AppendStream
  <2>4. /\ Len(kept \o <<w>>) = Len(kept) + 1
        /\ kept # <<>> => (kept \o <<w>>)[1] = kept[1]
        /\ kept = <<>> => (kept \o <<w>>)[1] = w
        /\ (kept \o <<w>>) # <<>>
    BY <1>0, <2>2
  <2> QED BY <1>0, <2>1, <2>2, <2>3, <2>4
<1> QED BY <1>1, <1>2

\* One clock of the queue.
Popped(ready) == ibi_queue_rready(ready) /\ rvalid

LEMMA QueueStep ==
    ASSUME Stream(ibi_queue, written),
           NEW ready \in BOOLEAN, Descriptor(ready),
           Popped(ready) /\ Len(ibi_queue) = 1 => written.k = Words(written.len)
    PROVE  /\ Stream(ibi_queue', written')
           /\ Len(ibi_queue) \in Nat /\ Len(ibi_queue') \in Nat
           /\ ~Popped(ready) =>
                 /\ Len(ibi_queue') >= Len(ibi_queue)
                 /\ ibi_queue # <<>> =>
                       ibi_queue' # <<>> /\ ibi_queue'[1] = ibi_queue[1]
                 /\ ibi_queue = <<>> /\ ibi_queue' # <<>> =>
                       ibi_queue'[1].k = 0
           /\ Popped(ready) =>
                 /\ Len(ibi_queue') >= Len(ibi_queue) - 1
                 /\ ibi_queue' # <<>> => Follows(ibi_queue[1], ibi_queue'[1])
                 /\ Len(ibi_queue) >= 2 => ibi_queue' # <<>>
<1> DEFINE kept == IF Popped(ready) THEN Tail(ibi_queue) ELSE ibi_queue
<1>1. PICK offer \in Offers : Software(offer) /\ ibi_queue' = kept \o offer
  BY DEF Descriptor, Queue, Popped
<1>2. /\ ibi_queue \in Seq(LegalWord) /\ written \in LegalWord
      /\ Len(ibi_queue) \in Nat
      /\ ibi_queue # <<>> => Len(ibi_queue) >= 1
      /\ Len(<<>>) = 0
  BY DEF Stream
<1>3. CASE ~Popped(ready)
  <2>1. kept = ibi_queue
    BY <1>3
  <2>2. /\ Stream(ibi_queue', written')
        /\ Len(ibi_queue') >= Len(ibi_queue)
        /\ ibi_queue # <<>> =>
              ibi_queue' # <<>> /\ ibi_queue'[1] = ibi_queue[1]
        /\ ibi_queue = <<>> /\ ibi_queue' # <<>> =>
              Follows(written, ibi_queue'[1])
    BY <1>1, <2>1, OfferStream
  <2>3. ibi_queue = <<>> => written.k = Words(written.len)
    BY DEF Stream
  <2>4. ibi_queue = <<>> /\ ibi_queue' # <<>> => ibi_queue'[1].k = 0
    <3>1. Words(written.len) \in 0..64
      BY <1>2, WordArithmetic DEF LegalWord
    <3>2. \A m \in 0..64 : ~(m < m)
      OBVIOUS
    <3>3. ibi_queue = <<>> => ~(written.k < Words(written.len))
      BY <2>3, <3>1, <3>2, Zenon
    <3> QED BY <2>2, <3>3, Zenon DEF Follows
  <2>5. Len(ibi_queue') \in Nat
    BY <2>2 DEF Stream
  <2> QED BY <1>2, <1>3, <2>2, <2>4, <2>5
<1>4. CASE Popped(ready)
  <2>1. kept = Tail(ibi_queue) /\ ibi_queue # <<>>
    BY <1>4 DEF Popped, rvalid
  <2>2. /\ Stream(kept, written)
        /\ Len(kept) = Len(ibi_queue) - 1
        /\ kept # <<>> => Follows(ibi_queue[1], kept[1])
    BY <1>4, <2>1, TailStream
  <2> HIDE DEF kept
  <2>3. /\ Stream(ibi_queue', written')
        /\ Len(ibi_queue') >= Len(kept)
        /\ kept # <<>> => ibi_queue' # <<>> /\ ibi_queue'[1] = kept[1]
        /\ kept = <<>> /\ ibi_queue' # <<>> =>
              Follows(written, ibi_queue'[1])
    BY <1>1, <2>2, OfferStream
  <2>4. kept = <<>> => written = ibi_queue[1]
    <3>1. kept = <<>> => Len(ibi_queue) = 1
      BY <1>2, <2>2
    <3> QED BY <2>1, <3>1 DEF Stream
  <2>5. ibi_queue' # <<>> => Follows(ibi_queue[1], ibi_queue'[1])
    BY <2>2, <2>3, <2>4
  <2>6. Len(ibi_queue) >= 2 => ibi_queue' # <<>>
    <3>1. Len(ibi_queue) >= 2 => Len(kept) # 0
      BY <1>2, <2>2
    <3> QED BY <1>2, <2>3, <3>1
  <2>7. Len(ibi_queue') \in Nat
    BY <2>3 DEF Stream
  <2> QED BY <1>2, <1>4, <2>2, <2>3, <2>5, <2>6, <2>7
<1> QED BY <1>3, <1>4

-----------------------------------------------------------------------------
(***************************************************************************)
(* The FSM.                                                                *)
(***************************************************************************)

LEMMA FrameInit == DescriptorInit => FrameInv
<1> SUFFICES ASSUME DescriptorInit PROVE FrameInv
  OBVIOUS
<1>1. written \in LegalWord /\ head \in LegalWord /\ Words(0) = 0
  <2>1. Words(0) = 0
    BY SMT DEF Words
  <2> QED BY <2>1 DEF DescriptorInit, LegalWord
<1>2. Stream(ibi_queue, written)
  <2>1. <<>> \in Seq(LegalWord) /\ Len(<<>>) = 0
    OBVIOUS
  <2> QED BY <1>1, <2>1 DEF DescriptorInit, Stream
<1>3. Stage
  BY <1>1 DEF DescriptorInit, Stage, DescStates
<1> QED BY <1>2, <1>3 DEF FrameInv

\* Every clock of descriptor_ibi keeps the invariant, whatever the consumer
\* does: this is all that a module which uses descriptor_ibi needs.
LEMMA FrameStep ==
    ASSUME FrameInv, NEW ready \in BOOLEAN, Descriptor(ready)
    PROVE  FrameInv'
<1> USE DEF DescStates
<1>0. /\ Stream(ibi_queue, written) /\ Stage
      /\ head \in LegalWord /\ head.len \in 0..255 /\ head.k \in Nat
      /\ ibi_queue \in Seq(LegalWord) /\ written \in LegalWord
      /\ Len(ibi_queue) \in Nat
      /\ ibi_queue # <<>> =>
            ibi_queue[1] \in LegalWord /\ Len(ibi_queue) >= 1
  BY DEF FrameInv, Stream, Stage, LegalWord
<1>a. PICK L \in 0..255 : L = head.len
  BY <1>0, Zenon
<1>b. /\ Words(L) \in 0..64
      /\ data_words(L) = Words(L)
      /\ L = 0 => Words(L) = 0 /\ data_len(L) = 255
      /\ L # 0 => Words(L) >= 1 /\ data_len(L) = L - 1
  BY WordArithmetic
<1>c. PICK W \in 0..64 : W = Words(head.len)
  BY <1>a, <1>b, Zenon
<1>q. PICK Q \in Nat : Q = Len(ibi_queue)
  BY <1>0, Zenon
<1>w. /\ L \in 0..255 /\ W \in 0..64 /\ Q \in Nat
      /\ head.len = L /\ Words(head.len) = W /\ Len(ibi_queue) = Q
      /\ data_words(head.len) = W
      /\ L = 0 => W = 0 /\ data_len(head.len) = 255
      /\ L # 0 => W >= 1 /\ data_len(head.len) = L - 1
      /\ Q = 0 => ibi_queue = <<>>
  <2>1. Q = 0 => ibi_queue = <<>>
    BY <1>0, <1>q
  <2> QED BY <1>a, <1>b, <1>c, <1>q, <2>1, Zenon
<1>1. CASE desc = "Idle"
  <2>1. /\ ~Popped(ready) /\ data_cnt' = 0
        /\ desc' = IF rvalid THEN "DescLatch" ELSE "Idle"
        /\ head' = IF rvalid THEN ibi_queue[1] ELSE head
    BY <1>1 DEF Descriptor, DescriptorFsm, Capture, DataCount, Popped,
                ibi_queue_rready
  <2>2. /\ Stream(ibi_queue', written')
        /\ ibi_queue # <<>> =>
              ibi_queue' # <<>> /\ ibi_queue'[1] = ibi_queue[1]
        /\ ibi_queue = <<>> /\ ibi_queue' # <<>> => ibi_queue'[1].k = 0
    BY <1>0, <1>w, <2>1, QueueStep
  <2>3. Stage'
    BY <1>0, <1>1, <2>1, <2>2 DEF Stage, rvalid
  <2> QED BY <2>2, <2>3 DEF FrameInv
<1>2. CASE desc = "DescLatch"
  <2>1. /\ ~Popped(ready) /\ data_cnt' = data_cnt /\ head' = head
        /\ desc' = IF Q >= W + 1 THEN "DescPop" ELSE "DescLatch"
    BY <1>2, <1>w DEF Descriptor, DescriptorFsm, Capture, DataCount, Popped,
                ibi_queue_rready
  <2>2. /\ Stream(ibi_queue', written')
        /\ Len(ibi_queue') \in Nat /\ Len(ibi_queue') >= Q
        /\ ibi_queue # <<>> =>
              ibi_queue' # <<>> /\ ibi_queue'[1] = ibi_queue[1]
    BY <1>0, <1>w, <2>1, QueueStep
  <2>3. Stage'
    BY <1>0, <1>2, <1>w, <2>1, <2>2 DEF Stage
  <2> QED BY <2>2, <2>3 DEF FrameInv
<1>3. CASE desc = "DescPop"
  <2>1. /\ Popped(ready) /\ data_cnt' = data_cnt /\ head' = head
        /\ desc' = "WriteMdb"
    BY <1>0, <1>3 DEF Descriptor, DescriptorFsm, Capture, DataCount, Popped,
                ibi_queue_rready, rvalid, Stage
  <2>2. /\ ibi_queue[1] = head /\ head.k = 0 /\ data_cnt = 0
        /\ Q >= W + 1
        /\ ibi_queue # <<>>
    BY <1>0, <1>3, <1>w DEF Stage
  <2>3. Len(ibi_queue) = 1 => written.k = Words(written.len)
    <3>1. Q = 1 => W = 0
      BY <1>w, <2>2
    <3>2. Q = 1 => written = head
      BY <1>w, <2>2, <1>0 DEF Stream
    <3> QED BY <1>w, <2>2, <3>1, <3>2, Zenon
  <2>4. /\ Stream(ibi_queue', written')
        /\ Len(ibi_queue') \in Nat /\ Len(ibi_queue') >= Q - 1
        /\ ibi_queue' # <<>> => Follows(head, ibi_queue'[1])
    BY <1>0, <1>w, <2>1, <2>2, <2>3, QueueStep
  <2>5. ibi_queue' # <<>> =>
              IF L = 0 THEN ibi_queue'[1].k = 0
              ELSE AtPlace(ibi_queue'[1], head, 1)
    <3>1. CASE L = 0
      <4>1. ~(0 < W)
        BY <1>w, <3>1
      <4> QED BY <1>w, <2>2, <2>4, <3>1, <4>1, Zenon DEF Follows
    <3>2. CASE L # 0
      <4>1. 0 < W /\ 0 + 1 = 1
        BY <1>w, <3>2
      <4> QED BY <1>w, <2>2, <2>4, <3>2, <4>1, Zenon DEF Follows
    <3> QED BY <3>1, <3>2
  <2>6. Stage'
    BY <1>0, <1>w, <2>1, <2>2, <2>4, <2>5 DEF Stage
  <2> QED BY <2>4, <2>6 DEF FrameInv
<1>4. CASE desc = "WriteMdb"
  <2>1. /\ ~Popped(ready) /\ data_cnt' = data_cnt /\ head' = head
        /\ desc' = IF ~ready THEN "WriteMdb"
                   ELSE IF L = 0 THEN "Idle" ELSE "WriteData"
    BY <1>0, <1>4, <1>w, SMTT(40) DEF Descriptor, DescriptorFsm, Capture, DataCount,
                Popped, ibi_queue_rready
  <2>2. /\ Stream(ibi_queue', written')
        /\ Len(ibi_queue') \in Nat /\ Len(ibi_queue') >= Q
        /\ ibi_queue # <<>> =>
              ibi_queue' # <<>> /\ ibi_queue'[1] = ibi_queue[1]
        /\ ibi_queue = <<>> /\ ibi_queue' # <<>> => ibi_queue'[1].k = 0
    BY <1>0, <1>w, <2>1, QueueStep
  <2>3. /\ head.k = 0 /\ data_cnt = 0
        /\ Q >= W
        /\ ibi_queue # <<>> =>
              IF L = 0 THEN ibi_queue[1].k = 0
              ELSE AtPlace(ibi_queue[1], head, 1)
    BY <1>0, <1>4, <1>w DEF Stage
  <2>4. L # 0 => ibi_queue # <<>>
    <3>1. L # 0 => Q # 0
      BY <1>w, <2>3
    <3>2. Len(<<>>) = 0
      OBVIOUS
    <3> QED BY <1>w, <3>1, <3>2, Zenon
  <2>5. CASE desc' = "WriteMdb"
    BY <1>0, <1>w, <2>1, <2>2, <2>3, <2>4, <2>5 DEF Stage, FrameInv
  <2>6. CASE desc' = "Idle"
    <3>1. L = 0
      BY <2>1, <2>6
    <3>2. Stage'
      BY <1>0, <2>1, <2>2, <2>3, <2>6, <3>1 DEF Stage
    <3> QED BY <2>2, <3>2 DEF FrameInv
  <2>7. CASE desc' = "WriteData"
    <3>1. L # 0 /\ 0 \div 4 = 0
      BY <2>1, <2>7
    <3>2. /\ ibi_queue' # <<>>
          /\ AtPlace(ibi_queue'[1], head, data_cnt \div 4 + 1)
      BY <2>2, <2>3, <2>4, <3>1
    <3>3. /\ Len(ibi_queue') >= W - data_cnt \div 4
          /\ data_cnt < L
      BY <1>w, <2>2, <2>3, <3>1
    <3>4. Stage'
      BY <1>0, <1>w, <2>1, <2>3, <2>7, <3>2, <3>3 DEF Stage
    <3> QED BY <2>2, <3>4 DEF FrameInv
  <2> QED BY <2>1, <2>5, <2>6, <2>7
<1>5. CASE desc = "WriteData"
  <2>n. PICK n \in Nat : n = data_cnt \div 4
    <3>a. data_cnt \in 0..255
      BY <1>0 DEF Stage
    <3>1. data_cnt \div 4 \in Nat
      BY <3>a
    <3> QED BY <3>1, Zenon
  <2>1. /\ data_cnt \in 0..255 /\ data_cnt < L
        /\ ibi_queue # <<>> /\ rvalid
        /\ AtPlace(ibi_queue[1], head, n + 1)
        /\ Q >= W - n
        /\ head.k = 0
        /\ data_len(head.len) = L - 1
    BY <1>0, <1>5, <1>w, <2>n DEF Stage, rvalid
  <2>2. /\ n \in Nat /\ n + 1 <= W
        /\ data_cnt = L - 1 => n + 1 = W
        /\ data_cnt # L - 1 /\ data_cnt % 4 = 3 =>
              (data_cnt + 1) \div 4 = n + 1 /\ n + 1 < W
        /\ data_cnt % 4 # 3 => (data_cnt + 1) \div 4 = n
        /\ data_cnt + 1 <= 255 /\ (data_cnt + 1) % 256 = data_cnt + 1
    <3>1. Words(L) = W
      BY <1>w, Zenon
    <3>2. /\ n + 1 <= Words(L)
          /\ data_cnt = L - 1 => n + 1 = Words(L)
          /\ data_cnt # L - 1 /\ data_cnt % 4 = 3 => n + 1 < Words(L)
          /\ data_cnt # L - 1 /\ data_cnt % 4 = 3 =>
                (data_cnt + 1) \div 4 = n + 1
          /\ data_cnt % 4 # 3 => (data_cnt + 1) \div 4 = n
          /\ data_cnt + 1 <= 255 /\ (data_cnt + 1) % 256 = data_cnt + 1
      <4>1. /\ data_cnt \div 4 + 1 <= Words(L)
            /\ data_cnt = L - 1 => data_cnt \div 4 + 1 = Words(L)
            /\ data_cnt # L - 1 /\ data_cnt % 4 = 3 =>
                  /\ (data_cnt + 1) \div 4 = data_cnt \div 4 + 1
                  /\ data_cnt \div 4 + 1 < Words(L)
            /\ data_cnt % 4 # 3 => (data_cnt + 1) \div 4 = data_cnt \div 4
            /\ data_cnt + 1 <= 255 /\ (data_cnt + 1) % 256 = data_cnt + 1
        <5>1. L \in 0..255 /\ data_cnt \in 0..255 /\ data_cnt < L
          BY <1>w, <2>1
        <5> QED BY <5>1, SMT DEF Words
      <4> QED BY <2>n, <4>1, Zenon
    <3> QED BY <2>n, <3>1, <3>2
  <2>3. /\ head' = head
        /\ ready => data_cnt' = data_cnt + 1
        /\ ~ready => data_cnt' = data_cnt
        /\ ready /\ data_cnt = L - 1 => desc' = "Idle"
        /\ ~ready \/ data_cnt # L - 1 => desc' = desc
        /\ ready /\ (data_cnt % 4 = 3 \/ data_cnt = L - 1) => Popped(ready)
        /\ Popped(ready) => ready /\ (data_cnt % 4 = 3 \/ data_cnt = L - 1)
    BY <1>5, <2>1, <2>2 DEF Descriptor, DescriptorFsm, Capture, DataCount,
                Popped, ibi_queue_rready, data_pop
  <2>4. /\ ibi_queue[1].k = n + 1 /\ ibi_queue[1].msg = head.msg
        /\ ibi_queue[1].len = L /\ Words(ibi_queue[1].len) = W
    <3>1. ibi_queue[1].len = head.len
      BY <2>1 DEF AtPlace
    <3>2. ibi_queue[1].len = L /\ Words(ibi_queue[1].len) = W
      BY <1>w, <3>1, Zenon
    <3> QED BY <2>1, <3>2 DEF AtPlace
  <2>5. Q = 1 => written = ibi_queue[1]
    BY <1>0, <1>w, <2>1 DEF Stream
  <2>6. CASE ready /\ data_cnt = L - 1
    <3>0. Popped(ready) /\ desc' = "Idle" /\ data_cnt' = data_cnt + 1
      BY <2>3, <2>6, Zenon
    <3>1. Popped(ready) /\ desc' = "Idle" /\ data_cnt' \in 0..255
      BY <2>1, <2>2, <3>0
    <3>2. Len(ibi_queue) = 1 => written.k = Words(written.len)
      BY <1>w, <2>2, <2>4, <2>5, <2>6, Zenon
    <3>3. /\ Stream(ibi_queue', written')
          /\ ibi_queue' # <<>> => Follows(ibi_queue[1], ibi_queue'[1])
      BY <1>0, <3>1, <3>2, QueueStep
    <3>4. ~(n + 1 < W)
      BY <1>w, <2>2, <2>6
    <3>5. ibi_queue' # <<>> => ibi_queue'[1].k = 0
      BY <2>4, <3>3, <3>4, Zenon DEF Follows
    <3>6. Stage'
      BY <1>0, <2>3, <3>1, <3>5 DEF Stage
    <3> QED BY <3>3, <3>6 DEF FrameInv
  <2>7. CASE ready /\ data_cnt # L - 1 /\ data_cnt % 4 = 3
    <3>0. /\ Popped(ready) /\ desc' = desc /\ data_cnt' = data_cnt + 1
          /\ data_cnt # L - 1 /\ data_cnt % 4 = 3
      BY <2>3, <2>7, Zenon
    <3>1. /\ Popped(ready) /\ desc' = desc /\ data_cnt' = data_cnt + 1
          /\ Q >= 2
      BY <1>w, <2>1, <2>2, <3>0
    <3>2. Len(ibi_queue) >= 2 /\ Len(ibi_queue) # 1
      BY <1>w, <3>1
    <3>3. /\ Stream(ibi_queue', written')
          /\ Len(ibi_queue') \in Nat /\ Len(ibi_queue') >= Len(ibi_queue) - 1
          /\ ibi_queue' # <<>> /\ Follows(ibi_queue[1], ibi_queue'[1])
      BY <1>0, <3>1, <3>2, QueueStep
    <3>4. n + 1 < W
      BY <2>2, <2>7
    <3>5. AtPlace(ibi_queue'[1], ibi_queue[1], n + 1 + 1)
      BY <2>4, <3>3, <3>4, Zenon DEF Follows
    <3>6. AtPlace(ibi_queue'[1], head, data_cnt' \div 4 + 1)
      <4>1. data_cnt' \div 4 + 1 = n + 1 + 1
        BY <2>2, <2>7, <3>1
      <4>2. AtPlace(ibi_queue'[1], head, n + 1 + 1)
        BY <1>w, <2>4, <3>5, Zenon DEF AtPlace
      <4> QED BY <4>1, <4>2, Zenon
    <3>7. /\ data_cnt' < L /\ data_cnt' \in 0..255
          /\ Len(ibi_queue') >= W - data_cnt' \div 4
      BY <1>w, <2>1, <2>2, <2>7, <3>1, <3>3
    <3>8. Stage'
      BY <1>0, <1>5, <1>w, <2>1, <2>3, <3>1, <3>3, <3>6, <3>7 DEF Stage
    <3> QED BY <3>3, <3>8 DEF FrameInv
  <2>8. CASE ~ready \/ (data_cnt # L - 1 /\ data_cnt % 4 # 3)
    <3>1. ~Popped(ready) /\ desc' = desc
      BY <2>3, <2>8
    <3>2. /\ Stream(ibi_queue', written')
          /\ Len(ibi_queue') \in Nat /\ Len(ibi_queue') >= Q
          /\ ibi_queue' # <<>> /\ ibi_queue'[1] = ibi_queue[1]
      BY <1>0, <1>w, <2>1, <3>1, QueueStep
    <3>3. data_cnt' \div 4 = n
      BY <2>n, <2>2, <2>3, <2>8
    <3>4. AtPlace(ibi_queue'[1], head, data_cnt' \div 4 + 1)
      BY <2>1, <3>2, <3>3, Zenon
    <3>5. /\ data_cnt' < L /\ data_cnt' \in 0..255
          /\ Len(ibi_queue') >= W - data_cnt' \div 4
      <4>1. \/ data_cnt' = data_cnt
            \/ data_cnt' = data_cnt + 1 /\ data_cnt # L - 1
        BY <2>3, <2>8, Zenon
      <4>2. data_cnt' < L /\ data_cnt' \in 0..255
        <5>1. CASE data_cnt' = data_cnt
          BY <2>1, <5>1
        <5>2. CASE data_cnt' = data_cnt + 1 /\ data_cnt # L - 1
          BY <1>w, <2>1, <2>2, <5>2
        <5> QED BY <4>1, <5>1, <5>2
      <4>3. Len(ibi_queue') >= W - data_cnt' \div 4
        BY <1>w, <2>1, <3>2, <3>3
      <4> QED BY <4>2, <4>3
    <3>6. Stage'
      BY <1>0, <1>5, <1>w, <2>1, <2>3, <3>1, <3>2, <3>4, <3>5 DEF Stage
    <3> QED BY <3>2, <3>6 DEF FrameInv
  <2> QED BY <2>6, <2>7, <2>8
<1> QED BY <1>0, <1>1, <1>2, <1>3, <1>4, <1>5 DEF Stage

-----------------------------------------------------------------------------
(***************************************************************************)
(* What the invariant says.                                                *)
(***************************************************************************)

LEMMA FrameInvImplies ==
    ASSUME FrameInv
    PROVE  /\ Framed
           /\ WaitsForWords
           /\ desc = "WriteData" => rvalid
BY DEF FrameInv, Stage, Framed, WaitsForWords, rvalid, AtPlace

\* For every consumer of the bytes the invariant holds.
THEOREM FrameInvariance == DescriptorSpec => []FrameInv
<1>1. FrameInv /\ [DescriptorClock]_descVars => FrameInv'
  <2>1. ASSUME FrameInv, DescriptorClock PROVE FrameInv'
    BY <2>1, FrameStep DEF DescriptorClock
  <2>2. ASSUME FrameInv, UNCHANGED descVars PROVE FrameInv'
    BY <2>2 DEF FrameInv, Stream, Stage, descVars
  <2> QED BY <2>1, <2>2
<1> QED BY FrameInit, <1>1, PTL DEF DescriptorSpec

\* Message boundaries are kept and no byte is offered before the words of its
\* message are queued, for every queue depth, message length, number of
\* messages and consumer (descriptor_ibi.sv).
THEOREM MessagesFramed == DescriptorSpec => [](Framed /\ WaitsForWords)
<1>1. FrameInv => Framed /\ WaitsForWords
  BY FrameInvImplies
<1> QED BY FrameInvariance, <1>1, PTL

-----------------------------------------------------------------------------
(* The interrupt on the bus. *)

Waiting == {"WaitAvail", "DriveStart", "DriveAddr", "ReadAck",
            "WaitForSclNegedgeAfterAck"}
Sending == {"SendData", "SendTbit"}

\* Types, as far as the argument needs them.
Types ==
    /\ fsm \in FsmStates
    /\ ibi \in IbiStates
    /\ xfer_mux_sel \in {"Fsm", "Ccc", "Ibi"}
    /\ level \in 0..3
    /\ tcount \in 0..NoCount
    /\ header \in Headers

\* ibi.sv and descriptor_ibi keep pace.
Pace ==
    /\ ibi \in Waiting => desc = "WriteMdb"
    /\ ibi \in Sending => desc \in {"WriteMdb", "WriteData"}
    /\ ibi \in {"Idle", "Done", "WaitStopOrRstart"} => desc # "WriteData"

\* Who owns the bus flows.
Owner ==
    /\ ibi \in Waiting \union Sending => fsm = "DoIBI" /\ xfer_mux_sel = "Ibi"
    /\ ccc \in {"Busy", "Next", "Error"} =>
          fsm = "DoCCC" /\ xfer_mux_sel = "Ccc"
    /\ ccc = "Done" => fsm \in {"Idle", "WaitHDRExitOrIdle"} /\ level = 0
    /\ xfer_mux_sel = "Ccc" => fsm = "DoCCC" \/ ccc = "Done"
    /\ fsm = "DoCCC" => xfer_mux_sel # "Ibi"

\* Where on the bus an IBI is up to the acknowledge.
Place ==
    /\ level # 0 => bus = "Quiet"
    /\ bus = "Quiet" \/ ibi = "DriveStart" => ~ours
    /\ ibi = "DriveStart" => bus \in {"Quiet", "Start", "HeaderLow"}
    /\ tcount # NoCount => ibi = "DriveStart" /\ bus = "HeaderLow"
    /\ ibi = "DriveAddr" => bus \in {"HeaderLow", "Header"}
    /\ ibi = "ReadAck" => bus = "Ack"
    /\ ibi = "WaitForSclNegedgeAfterAck" => bus = "AckHigh"

IbiInv == FrameInv /\ Types /\ Pace /\ Owner /\ Place

-----------------------------------------------------------------------------
(***************************************************************************)
(* The inputs of a clock.                                                  *)
(***************************************************************************)
Pulses == [start : BOOLEAN, rstart : BOOLEAN, stop : BOOLEAN, neg : BOOLEAN,
           arb : BOOLEAN, rx : BOOLEAN, data : Headers, nack : BOOLEAN,
           tx : BOOLEAN]

\* A message is ready, the bus is free and the target FSM is idle.
Begin == fsm = "Idle" /\ ibi_byte_valid /\ IBI_EN /\ bus_free

\* The pulses as ibi.sv sees them.
OfIbi(p) == [p EXCEPT !.rx = @ /\ xfer_mux_sel = "Ibi",
                      !.tx = @ /\ xfer_mux_sel = "Ibi"]

LEMMA InputFields ==
    ASSUME NEW p \in Pulses
    PROVE  /\ ~FsmInput(p).in_hdr
           /\ FsmInput(p).stop = p.stop
           /\ FsmInput(p).rx_done => xfer_mux_sel = "Fsm" /\ p.rx
           /\ FsmInput(p).ibi_done <=> ibi_done(p)
           /\ FsmInput(p).ccc_done <=> ccc \in {"Done", "Error"}
           /\ FsmInput(p).ccc_invalid <=> ccc = "Error"
           /\ FsmInput(p).ccc_next <=> ccc = "Next"
           /\ ibi_begin(FsmInput(p)) <=> Begin
BY DEF FsmInput, Quiet, Begin, ibi_begin

LEMMA OfIbiFields ==
    ASSUME NEW p \in Pulses
    PROVE  /\ OfIbi(p) \in Pulses
           /\ OfIbi(p).stop = p.stop /\ OfIbi(p).neg = p.neg
           /\ OfIbi(p).arb = p.arb /\ OfIbi(p).rstart = p.rstart
           /\ OfIbi(p).nack = p.nack
           /\ xfer_mux_sel = "Ibi" =>
                 OfIbi(p).rx = p.rx /\ OfIbi(p).tx = p.tx
BY ZenonT(40) DEF OfIbi, Pulses

-----------------------------------------------------------------------------
(***************************************************************************)
(* The target FSM, as far as an IBI is concerned.                          *)
(***************************************************************************)
LEMMA FsmMoves ==
    ASSUME NEW i, FsmStep(i), fsm \in FsmStates, ~i.in_hdr
    PROVE  /\ fsm' \in FsmStates
           /\ i.stop => fsm' \in {"Idle", "WaitHDRExitOrIdle"}
           /\ ~i.stop /\ fsm = "DoIBI" =>
                 fsm' = IF i.ibi_done THEN "DoneIBI" ELSE "DoIBI"
           /\ ~i.stop /\ ibi_begin(i) => fsm' = "DoIBI"
           /\ ~i.stop /\ fsm = "DoCCC" /\ ~i.ccc_done /\ ~i.ccc_next =>
                 fsm' = "DoCCC"
           /\ fsm = "DoCCC" /\ (i.ccc_done \/ i.ccc_next) => fsm' # "DoCCC"
           /\ fsm # "DoCCC" /\ fsm' = "DoCCC" => fsm = "RxSByte" /\ i.rx_done
<1> USE DEF FsmStates
<1>1. fsm' = state_d(i)
  BY DEF FsmStep
<1>2. CASE fsm \in {"CheckFByte", "TxAckFByte", "RxSByte", "RxSByteRepeated",
                    "CheckSByte", "TxAckSByte"}
  <2>1. OnHeader(i) \in FsmStates /\ (OnHeader(i) = "DoCCC" =>
            fsm = "RxSByte" /\ i.rx_done)
    BY <1>2 DEF OnHeader, DataLoop
  <2>2. Transition(i) = OnHeader(i)
    BY <1>2 DEF Transition
  <2> QED BY <1>1, <1>2, <2>1, <2>2 DEF state_d, ibi_begin
<1>3. CASE fsm \in {"RxPWriteData", "RxPWriteTbit", "TxPReadData",
                    "TxPReadTbit"}
  <2>1. OnData(i) \in FsmStates \ {"DoCCC"}
    BY <1>3 DEF OnData
  <2>2. Transition(i) = OnData(i)
    BY <1>3 DEF Transition
  <2> QED BY <1>1, <1>3, <2>1, <2>2 DEF state_d, ibi_begin
<1>4. CASE fsm \in {"Idle", "RxFByte", "Wait", "DoIBI", "DoneIBI", "DoCCC",
                    "DoneCCC", "DoRstAction", "HDRMode", "WaitHDRExitOrIdle"}
  <2>2. Transition(i) = OnControl(i)
    BY <1>4 DEF Transition
  <2> QED BY <1>1, <1>4, <2>2 DEF state_d, ibi_begin, OnControl
<1> QED BY <1>2, <1>3, <1>4

-----------------------------------------------------------------------------
(***************************************************************************)
(* ibi.sv and descriptor_ibi.                                              *)
(***************************************************************************)
LEMMA DescMoves ==
    ASSUME FrameInv, NEW ready \in BOOLEAN, Descriptor(ready)
    PROVE  /\ desc = "WriteMdb" /\ ~ready => desc' = "WriteMdb"
           /\ desc = "WriteData" /\ ~ready => desc' = "WriteData"
           /\ desc \in {"WriteMdb", "WriteData"} /\ ready =>
                 desc' = IF ibi_byte_last THEN "Idle" ELSE "WriteData"
           /\ desc \notin {"WriteMdb", "WriteData"} => desc' # "WriteData"
           /\ desc \in {"WriteMdb", "WriteData"} => ibi_byte_valid
           /\ ibi_byte_valid => desc \in {"WriteMdb", "WriteData"}
<1>1. desc \in DescStates /\ (desc = "WriteData" => rvalid)
  BY FrameInvImplies DEF FrameInv, Stage
<1>2. DescriptorFsm(ready)
  BY DEF Descriptor
<1> QED BY <1>1, <1>2 DEF DescriptorFsm, DescStates, ibi_byte_last,
           ibi_byte_valid

LEMMA PaceStep ==
    ASSUME FrameInv, Pace, NEW p \in Pulses, Ibi(p)
    PROVE  Pace' /\ ibi' \in IbiStates
<1> DEFINE q == OfIbi(p)
<1>1. /\ IbiArbitrate(q) \/ IbiTransfer(q)
      /\ Descriptor(ibi_byte_ready(q))
  BY DEF Ibi, OfIbi
<1>2. q \in Pulses /\ (ibi_begin(FsmInput(q)) <=> Begin)
  BY OfIbiFields, InputFields
<1> HIDE DEF q
<1>3. PICK ready \in BOOLEAN : ready <=> (ibi = "SendTbit" /\ q.tx) \/ ibi = "Flush"
  OBVIOUS
<1>4. Descriptor(ready)
  BY <1>1, <1>2, <1>3 DEF ibi_byte_ready, Pulses
<1> USE DEF IbiStates, Waiting, Sending, Pace
<1>5. CASE ibi = "Idle"
  BY <1>1, <1>2, <1>3, <1>4, <1>5, DescMoves DEF IbiArbitrate, IbiTransfer, Begin
<1>6. CASE ibi \in Waiting
  BY <1>1, <1>3, <1>4, <1>6, DescMoves DEF IbiArbitrate, IbiTransfer
<1>7. CASE ibi \in Sending
  BY <1>1, <1>3, <1>4, <1>7, DescMoves DEF IbiArbitrate, IbiTransfer
<1>8. CASE ibi \in {"WaitStopOrRstart", "Flush", "Done"}
  BY <1>1, <1>3, <1>4, <1>8, DescMoves DEF IbiArbitrate, IbiTransfer
<1> QED BY <1>1, <1>5, <1>6, <1>7, <1>8 DEF IbiArbitrate, IbiTransfer

LEMMA NoCountRange == NoCount # 0 /\ NoCount \in Nat
BY SMT DEF NoCount

\* tcount stays in its 20 bits.
LEMMA DecrementRange ==
    ASSUME NEW n \in 0..NoCount
    PROVE  /\ NoCount # 0
           /\ n = 0 => Decrement(n) = NoCount
           /\ Decrement(n) \in 0..NoCount
BY NoCountRange DEF Decrement

\* The way of ibi.sv up to the acknowledge, while it owns the bus flows.
IbiMove(p) ==
    /\ tcount' \in 0..NoCount
    /\ tcount' # NoCount =>
          \/ ibi = "DriveStart" /\ p.neg /\ THdDat # 0
          \/ tcount \notin {NoCount, 0}
    /\ ibi' = "DriveStart" =>
          \/ ibi = "DriveStart" /\ ~p.stop
          \/ ibi = "WaitAvail" /\ bus_available
    /\ ibi' = "DriveAddr" =>
          \/ ibi = "DriveAddr" /\ ~p.stop /\ ~p.tx /\ ~p.arb
          \/ ibi = "DriveStart" /\ THdDat = 0 /\ p.neg
          \/ ibi = "DriveStart" /\ tcount = 0
    /\ ibi' = "ReadAck" =>
          \/ ibi = "ReadAck" /\ ~p.rx
          \/ ibi = "DriveAddr" /\ p.tx
    /\ ibi' = "WaitForSclNegedgeAfterAck" =>
          \/ ibi = "WaitForSclNegedgeAfterAck" /\ ~p.neg
          \/ ibi = "ReadAck" /\ p.rx
    /\ ibi = "DriveStart" /\ ~p.stop /\ tcount # 0
          /\ (THdDat # 0 \/ ~p.neg) => ibi' = "DriveStart"

LEMMA IbiMoves ==
    ASSUME Types, ibi \in Waiting => xfer_mux_sel = "Ibi",
           NEW p \in Pulses, Ibi(p)
    PROVE  IbiMove(p)
<1> USE DEF IbiMove
<1> DEFINE q == OfIbi(p)
<1>1. (IbiArbitrate(q) \/ IbiTransfer(q)) /\ Tcount(q)
  BY DEF Ibi, OfIbi
<1>2. /\ q \in Pulses
      /\ q.stop = p.stop /\ q.neg = p.neg /\ q.arb = p.arb
      /\ ibi \in Waiting => q.rx = p.rx /\ q.tx = p.tx
  BY OfIbiFields
<1> HIDE DEF q
<1>3. /\ tcount' \in 0..NoCount
      /\ tcount' # NoCount =>
            \/ ibi = "DriveStart" /\ p.neg /\ THdDat # 0
            \/ tcount \notin {NoCount, 0}
  <2>1. THdDat \in 0..NoCount /\ tcount \in 0..NoCount
    BY IbiAssumption DEF Types
  <2>2. /\ THdDat = 0 => Decrement(THdDat) = NoCount
        /\ Decrement(THdDat) \in 0..NoCount
        /\ tcount = 0 => Decrement(tcount) = NoCount
        /\ Decrement(tcount) \in 0..NoCount
    BY <2>1, DecrementRange
  <2> QED BY <1>1, <1>2, <2>1, <2>2, Zenon DEF Tcount, pulls_sda
<1>4. CASE ibi = "Idle" \/ ibi \notin Waiting
  <2>1. ibi' \notin {"DriveStart", "DriveAddr", "ReadAck",
                      "WaitForSclNegedgeAfterAck"} /\ ibi # "DriveStart"
    BY <1>1, <1>4 DEF IbiArbitrate, IbiTransfer, Waiting
  <2> QED BY <1>3, <2>1
<1>5. CASE ibi \in Waiting
  <2>1. CASE ibi \in {"WaitAvail", "DriveStart"}
    BY <1>1, <1>2, <1>3, <2>1 DEF IbiArbitrate, IbiTransfer, Waiting
  <2>2. CASE ibi = "DriveAddr"
    BY <1>1, <1>2, <1>3, <2>2 DEF IbiArbitrate, IbiTransfer, Waiting
  <2>3. CASE ibi = "ReadAck"
    BY <1>1, <1>2, <1>3, <2>3 DEF IbiArbitrate, IbiTransfer, Waiting
  <2>4. CASE ibi = "WaitForSclNegedgeAfterAck"
    BY <1>1, <1>2, <1>3, <2>4 DEF IbiArbitrate, IbiTransfer, Waiting
  <2> QED BY <1>5, <2>1, <2>2, <2>3, <2>4 DEF Waiting
<1> QED BY <1>4, <1>5

-----------------------------------------------------------------------------
(***************************************************************************)
(* Who owns the bus flows.                                                 *)
(***************************************************************************)
LEMMA OwnerStep ==
    ASSUME FrameInv, Types, Pace, Owner, NEW p \in Pulses, Device(p),
           p.stop => level = 0 /\ level' = 0
                     /\ ibi # "WaitForSclNegedgeAfterAck"
    PROVE  /\ Owner'
           /\ fsm' \in FsmStates
           /\ xfer_mux_sel' \in {"Fsm", "Ccc", "Ibi"}
<1> DEFINE i == FsmInput(p)
           q == OfIbi(p)
<1>1. /\ ~i.in_hdr /\ i.stop = p.stop
      /\ i.rx_done => xfer_mux_sel = "Fsm" /\ p.rx
      /\ i.ibi_done <=> ibi_done(p)
      /\ i.ccc_done <=> ccc \in {"Done", "Error"}
      /\ i.ccc_next <=> ccc = "Next"
      /\ ibi_begin(i) <=> Begin
  BY InputFields
<1>2. FsmStep(i) /\ Mux(p) /\ Ccc(p) /\ Ibi(p)
  BY DEF Device
<1>3. /\ fsm' \in FsmStates
      /\ p.stop => fsm' \in {"Idle", "WaitHDRExitOrIdle"}
      /\ ~p.stop /\ fsm = "DoIBI" =>
            fsm' = IF i.ibi_done THEN "DoneIBI" ELSE "DoIBI"
      /\ ~p.stop /\ Begin => fsm' = "DoIBI"
      /\ ~p.stop /\ fsm = "DoCCC" /\ ccc \notin {"Done", "Error", "Next"} =>
            fsm' = "DoCCC"
      /\ fsm = "DoCCC" /\ ccc \in {"Done", "Error", "Next"} => fsm' # "DoCCC"
      /\ fsm # "DoCCC" /\ fsm' = "DoCCC" =>
            fsm = "RxSByte" /\ xfer_mux_sel = "Fsm"
  BY <1>1, <1>2, FsmMoves DEF Types
<1>4. /\ ibi_done(p) => fsm' # "DoIBI" \/ fsm # "DoIBI" \/ p.stop
      /\ ~p.stop /\ fsm = "DoIBI" /\ ~ibi_done(p) => fsm' = "DoIBI"
  BY <1>1, <1>3
<1>5. (IbiArbitrate(q) \/ IbiTransfer(q)) /\ (ibi_begin(FsmInput(q)) <=> Begin)
  BY <1>2, OfIbiFields, InputFields DEF Ibi, OfIbi
<1>6. q.stop = p.stop /\ q.arb = p.arb
      /\ (xfer_mux_sel = "Ibi" => q.tx = p.tx)
  BY OfIbiFields
<1>7. xfer_mux_sel' =
        CASE xfer_mux_sel = "Fsm" /\ Begin -> "Ibi"
          [] xfer_mux_sel = "Fsm" /\ fsm = "DoCCC" -> "Ccc"
          [] xfer_mux_sel = "Ccc" /\ ccc \in {"Done", "Error", "Next"} -> "Fsm"
          [] xfer_mux_sel = "Ibi" /\ ibi_done(p) -> "Fsm"
          [] OTHER -> xfer_mux_sel
  BY <1>1, <1>2 DEF Mux, ccc_valid
<1> HIDE DEF i, q
<1>8. xfer_mux_sel' \in {"Fsm", "Ccc", "Ibi"}
  BY <1>7 DEF Types
<1>9. ibi' \in Waiting \union Sending =>
          fsm' = "DoIBI" /\ xfer_mux_sel' = "Ibi"
  <2>1. CASE ibi = "Idle"
    BY <1>3, <1>5, <1>6, <1>7, <2>1 DEF IbiArbitrate, IbiTransfer, Waiting,
       Sending, Owner, Types, Begin, bus_free, ibi_done
  <2>2. CASE ibi \in Waiting \union Sending
    <3>1. fsm = "DoIBI" /\ xfer_mux_sel = "Ibi"
      BY <2>2 DEF Owner
    <3>2. p.stop => ibi' \notin Waiting \union Sending
      BY <1>5, <1>6, <2>2 DEF IbiArbitrate, IbiTransfer, Waiting, Sending
    <3>3. ibi_done(p) => ibi' \notin Waiting \union Sending
      BY <1>5, <1>6, <2>2, <3>1 DEF IbiArbitrate, IbiTransfer, Waiting, Sending,
         ibi_done, Pulses
    <3> QED BY <1>4, <1>7, <3>1, <3>2, <3>3
  <2>3. CASE ibi \in {"WaitStopOrRstart", "Flush", "Done"}
    BY <1>5, <2>3 DEF IbiArbitrate, IbiTransfer, Waiting, Sending
  <2> QED BY <2>1, <2>2, <2>3 DEF Types, IbiStates, Waiting, Sending
<1>10. ccc' \in {"Busy", "Next", "Error"} =>
          fsm' = "DoCCC" /\ xfer_mux_sel' = "Ccc"
  BY <1>2, <1>3, <1>7 DEF Ccc, ccc_valid, Owner, Types, Begin
<1>11. ccc' = "Done" => fsm' \in {"Idle", "WaitHDRExitOrIdle"} /\ level' = 0
  BY <1>2, <1>3 DEF Ccc
<1>12. xfer_mux_sel' = "Ccc" => fsm' = "DoCCC" \/ ccc' = "Done"
  BY <1>2, <1>3, <1>7 DEF Ccc, Owner, Types
<1>13. fsm' = "DoCCC" => xfer_mux_sel' # "Ibi"
  BY <1>3, <1>7 DEF Owner, Begin, Types
<1> QED BY <1>3, <1>8, <1>9, <1>10, <1>11, <1>12, <1>13 DEF Owner

-----------------------------------------------------------------------------
(***************************************************************************)
(* Where on the bus an IBI is: one step per bus event.                     *)
(***************************************************************************)
LEMMA PlaceStep ==
    ASSUME Types, Owner, Place, Next
    PROVE  /\ Place' /\ level' \in 0..3 /\ header' \in Headers
           /\ tcount' \in 0..NoCount
           /\ \E p \in Pulses : /\ Device(p)
                                /\ p.stop => level = 0 /\ level' = 0 /\ ~p.tx
                                     /\ ibi # "WaitForSclNegedgeAfterAck"
<1> DEFINE Done(p) == /\ p \in Pulses /\ Device(p)
                      /\ p.stop => level = 0 /\ level' = 0 /\ ~p.tx
                                   /\ ibi # "WaitForSclNegedgeAfterAck"
<1> SUFFICES /\ Place' /\ level' \in 0..3 /\ header' \in Headers
             /\ tcount' \in 0..NoCount
             /\ \E p : Done(p)
  OBVIOUS
<1>1. ibi \in Waiting => xfer_mux_sel = "Ibi"
  BY DEF Owner
<1>2. ASSUME NEW p \in Pulses, Device(p) PROVE IbiMove(p)
  BY <1>1, <1>2, IbiMoves DEF Device, IbiMove
<1>0. /\ NoCount # 0 /\ header \in Headers /\ Addresses \subseteq Headers
      /\ NoHeader \in Headers
  BY DecrementRange, IbiAssumption DEF Types, Headers, NoHeader
<1> USE <1>0 DEF Waiting, Place, Types, FromTo, BusEvent
<1>3. CASE Tick
  <2>1. NoPulse \in Pulses /\ Device(NoPulse)
    BY <1>3 DEF Tick, NoPulse, Pulses, Headers, NoHeader
  <2>2. IbiMove(NoPulse)
    BY <1>2, <2>1
  <2> QED BY <1>3, <2>1, <2>2 DEF Tick, NoPulse, IbiMove, bus_available
<1>4. CASE LevelRises
  <2>1. NoPulse \in Pulses /\ Device(NoPulse)
    BY <1>4 DEF LevelRises, NoPulse, Pulses, Headers, NoHeader
  <2>2. IbiMove(NoPulse)
    BY <1>2, <2>1
  <2> QED BY <1>4, <2>1, <2>2 DEF LevelRises, NoPulse, IbiMove, bus_available
<1>5. CASE StartCondition
  <2> DEFINE p == [NoPulse EXCEPT !.start = TRUE]
  <2>1. p \in Pulses /\ Device(p) /\ ~p.stop /\ ~p.neg
    BY <1>5 DEF StartCondition, NoPulse, Pulses, Headers, NoHeader
  <2>2. IbiMove(p)
    BY <1>2, <2>1
  <2> HIDE DEF p
  <2> QED BY <1>5, <2>1, <2>2 DEF StartCondition, IbiMove, bus_available
<1>6. CASE SclFalls
  <2> DEFINE p == [NoPulse EXCEPT !.neg = TRUE, !.tx = tx_bit]
  <2>1. p \in Pulses /\ Device(p) /\ ~p.stop
    BY <1>6 DEF SclFalls, NoPulse, Pulses, Headers, NoHeader, tx_bit
  <2>2. IbiMove(p)
    BY <1>2, <2>1
  <2> HIDE DEF p
  <2> QED BY <1>6, <2>1, <2>2 DEF SclFalls, IbiMove, bus_available
<1>7. CASE FirstBit
  <2>1. NoPulse \in Pulses /\ Device(NoPulse)
    BY <1>7 DEF FirstBit, NoPulse, Pulses, Headers, NoHeader
  <2>2. IbiMove(NoPulse)
    BY <1>2, <2>1
  <2> QED BY <1>7, <2>1, <2>2 DEF FirstBit, NoPulse, IbiMove, bus_available,
             pulls_sda
<1>8. CASE LoseArbitration
  <2> DEFINE p == [NoPulse EXCEPT !.arb = TRUE]
  <2>1. p \in Pulses /\ Device(p) /\ ~p.stop /\ ~p.neg /\ ~p.tx
    BY <1>8 DEF LoseArbitration, NoPulse, Pulses, Headers, NoHeader
  <2>2. IbiMove(p)
    BY <1>2, <2>1
  <2> HIDE DEF p
  <2> QED BY <1>8, <2>1, <2>2 DEF LoseArbitration, IbiMove, bus_available
<1>9. CASE HeaderEnd
  <2>1. PICK h \in Headers, done \in BOOLEAN :
          /\ Device([NoPulse EXCEPT !.rx = done, !.data = h, !.tx = tx_byte])
          /\ xfer_mux_sel = "Ibi" => ~done
    BY <1>9 DEF HeaderEnd, LateByte, rx_byte
  <2> DEFINE p == [NoPulse EXCEPT !.rx = done, !.data = h, !.tx = tx_byte]
  <2>2. p \in Pulses /\ Device(p) /\ ~p.stop /\ ~p.neg
    BY <2>1 DEF NoPulse, Pulses, tx_byte
  <2>3. IbiMove(p)
    BY <1>2, <2>2
  <2>4. (ibi = "DriveAddr" => p.tx) /\ (ibi = "ReadAck" => ~p.rx)
    BY <1>1, <2>1 DEF tx_byte, NoPulse
  <2> HIDE DEF p
  <2> QED BY <1>9, <2>2, <2>3, <2>4 DEF HeaderEnd, IbiMove, bus_available
<1>10. CASE AckBit
  <2> DEFINE p == [NoPulse EXCEPT !.rx = rx_bit, !.nack = ~acked']
  <2>1. p \in Pulses /\ Device(p) /\ ~p.stop /\ ~p.neg
    BY <1>10 DEF AckBit, NoPulse, Pulses, Headers, NoHeader, rx_bit
  <2>2. IbiMove(p)
    BY <1>2, <2>1
  <2>3. ibi = "ReadAck" => p.rx
    BY <1>1 DEF rx_bit, NoPulse
  <2> HIDE DEF p
  <2> QED BY <1>10, <2>1, <2>2, <2>3 DEF AckBit, IbiMove, bus_available
<1>11. CASE AckEnd
  <2> DEFINE p == [NoPulse EXCEPT !.neg = TRUE, !.tx = tx_bit]
  <2>1. p \in Pulses /\ Device(p) /\ ~p.stop /\ p.neg
    BY <1>11 DEF AckEnd, NoPulse, Pulses, Headers, NoHeader, tx_bit
  <2>2. IbiMove(p)
    BY <1>2, <2>1
  <2> HIDE DEF p
  <2> QED BY <1>11, <2>1, <2>2 DEF AckEnd, IbiMove, bus_available
<1>12. CASE DataFirstBit
  <2>1. NoPulse \in Pulses /\ Device(NoPulse)
    BY <1>12 DEF DataFirstBit, NoPulse, Pulses, Headers, NoHeader
  <2>2. IbiMove(NoPulse)
    BY <1>2, <2>1
  <2> QED BY <1>12, <2>1, <2>2 DEF DataFirstBit, NoPulse, IbiMove, bus_available
<1>13. CASE DataEnd
  <2>1. PICK h \in Headers, done \in BOOLEAN :
          Device([NoPulse EXCEPT !.rx = done, !.data = h, !.tx = tx_byte])
    BY <1>13 DEF DataEnd, LateByte, rx_byte, Headers, NoHeader
  <2> DEFINE p == [NoPulse EXCEPT !.rx = done, !.data = h, !.tx = tx_byte]
  <2>2. p \in Pulses /\ Device(p) /\ ~p.stop /\ ~p.neg
    BY <2>1 DEF NoPulse, Pulses, tx_byte
  <2>3. IbiMove(p)
    BY <1>2, <2>2
  <2> HIDE DEF p
  <2> QED BY <1>13, <2>2, <2>3 DEF DataEnd, IbiMove, bus_available
<1>14. CASE TbitEnd
  <2> DEFINE p == [NoPulse EXCEPT !.neg = TRUE, !.rx = rx_bit, !.tx = tx_bit]
  <2>1. p \in Pulses /\ Device(p) /\ ~p.stop
    BY <1>14 DEF TbitEnd, NoPulse, Pulses, Headers, NoHeader, tx_bit, rx_bit
  <2>2. IbiMove(p)
    BY <1>2, <2>1
  <2> HIDE DEF p
  <2> QED BY <1>14, <2>1, <2>2 DEF TbitEnd, IbiMove, bus_available
<1>15. CASE RepeatedStart
  <2> DEFINE p == [NoPulse EXCEPT !.rstart = TRUE]
  <2>1. p \in Pulses /\ Device(p) /\ ~p.stop
    BY <1>15 DEF RepeatedStart, NoPulse, Pulses, Headers, NoHeader
  <2>2. IbiMove(p)
    BY <1>2, <2>1
  <2> HIDE DEF p
  <2> QED BY <1>15, <2>1, <2>2 DEF RepeatedStart, IbiMove, bus_available
<1>16. CASE StopCondition
  <2> DEFINE p == [NoPulse EXCEPT !.stop = TRUE]
  <2>1. p \in Pulses /\ Device(p) /\ p.stop /\ ~p.neg /\ ~p.tx /\ ~p.rx
    BY <1>16 DEF StopCondition, NoPulse, Pulses, Headers, NoHeader
  <2>2. IbiMove(p)
    BY <1>2, <2>1
  <2> HIDE DEF p
  <2> QED BY <1>16, <2>1, <2>2 DEF StopCondition, IbiMove, bus_available
<1> QED BY <1>3, <1>4, <1>5, <1>6, <1>7, <1>8, <1>9, <1>10, <1>11, <1>12,
           <1>13, <1>14, <1>15, <1>16 DEF Next

-----------------------------------------------------------------------------
(***************************************************************************)
(* The theorems.                                                           *)
(***************************************************************************)
LEMMA IbiInvInit == Init => IbiInv
<1> SUFFICES ASSUME Init PROVE IbiInv
  OBVIOUS
<1>1. FrameInv
  BY FrameInit DEF Init
<1>2. Types
  BY NoCountRange DEF Init, FsmInit, Types, FsmStates, IbiStates, Headers,
     NoHeader
<1>3. Pace /\ Owner /\ Place
  BY DEF Init, FsmInit, DescriptorInit, Pace, Owner, Place, Waiting, Sending
<1> QED BY <1>1, <1>2, <1>3 DEF IbiInv

LEMMA IbiInvStep ==
    ASSUME IbiInv, [Next]_vars PROVE IbiInv'
<1>1. CASE Next
  <2>1. Place' /\ level' \in 0..3 /\ header' \in Headers /\ tcount' \in 0..NoCount
    BY <1>1, PlaceStep DEF IbiInv
  <2>2. PICK p \in Pulses : /\ Device(p)
                            /\ p.stop => level = 0 /\ level' = 0
                                 /\ ibi # "WaitForSclNegedgeAfterAck"
    BY <1>1, PlaceStep DEF IbiInv
  <2>3. Owner' /\ fsm' \in FsmStates /\ xfer_mux_sel' \in {"Fsm", "Ccc", "Ibi"}
    BY <2>2, OwnerStep DEF IbiInv
  <2>4. Pace' /\ ibi' \in IbiStates
    BY <2>2, PaceStep DEF IbiInv, Device
  <2>5. FrameInv'
    <3>1. Descriptor(ibi_byte_ready(OfIbi(p)))
      BY <2>2 DEF Device, Ibi, OfIbi
    <3>2. ibi_byte_ready(OfIbi(p)) \in BOOLEAN
      BY DEF ibi_byte_ready
    <3> QED BY <3>1, <3>2, FrameStep DEF IbiInv
  <2> QED BY <2>1, <2>3, <2>4, <2>5 DEF IbiInv, Types
<1>2. CASE UNCHANGED vars
  <2>1. FrameInv'
    BY <1>2 DEF IbiInv, FrameInv, Stream, Stage, vars, descVars
  <2>2. Types' /\ Pace' /\ Owner' /\ Place'
    BY <1>2 DEF IbiInv, Types, Pace, Owner, Place, vars, descVars, fsmVars,
       ibiVars, busVars
  <2> QED BY <2>1, <2>2 DEF IbiInv
<1> QED BY <1>1, <1>2

\* The inductive invariant of the whole.
THEOREM IbiInvariance == Spec => []IbiInv
<1>1. IbiInv /\ [Next]_vars => IbiInv'
  BY IbiInvStep
<1> QED BY IbiInvInit, <1>1, PTL DEF Spec

\* What IbiInv says of one IBI: it starts with a whole message, has all its
\* data and the bus flows to itself.
LEMMA IbiInvSafe == IbiInv => FreshStart /\ NoUnderrun /\ OneSpeaker
BY FrameInvImplies DEF IbiInv, Pace, Owner, FreshStart, NoUnderrun,
   OneSpeaker, Waiting, Sending, ibi_byte_valid

\* However often an IBI was refused, interrupted or beaten, the next attempt
\* starts with the first byte of a whole message (ibi.sv, descriptor_ibi.sv).
THEOREM IbiStartsFresh == Spec => []FreshStart
<1>1. IbiInv => FreshStart
  BY IbiInvSafe
<1> QED BY IbiInvariance, <1>1, PTL

\* An IBI under way finds every byte of its message when the bus asks for it.
THEOREM IbiHasData == Spec => []NoUnderrun
<1>1. IbiInv => NoUnderrun
  BY IbiInvSafe
<1> QED BY IbiInvariance, <1>1, PTL

\* Nobody else of the device uses the bus flows while an IBI does (xfer_mux_sel
\* and i3c_target_fsm.sv).
THEOREM IbiSpeaksAlone == Spec => []OneSpeaker
<1>1. IbiInv => OneSpeaker
  BY IbiInvSafe
<1> QED BY IbiInvariance, <1>1, PTL

-----------------------------------------------------------------------------
(***************************************************************************)
(* What becomes of a message on the bus, and what software hears of it.    *)
(***************************************************************************)
\* ibi.sv and the bus agree on where in its IBI the target is, until a
\* repeated START cuts the IBI short and a header follows.
Carry ==
    /\ ibi \in Sending => ours \/ outcome = "overrun"
    /\ ibi \in {"ReadAck", "WaitForSclNegedgeAfterAck"} => ours
    /\ ours =>
        /\ bus = "Header" => ibi = "DriveAddr"
        /\ bus = "Ack" => ibi = "ReadAck"
        /\ bus = "AckHigh" => IF acked THEN ibi = "WaitForSclNegedgeAfterAck"
                              ELSE ibi \notin Waiting \union Sending
        /\ bus = "DataLow" => IF acked THEN ibi = "SendData"
                              ELSE ibi \notin Waiting \union Sending
        /\ bus \in {"Data", "HeaderLow"} => ibi = "SendData"
        /\ bus \in {"Tbit", "Start"} => ibi = "SendTbit"
        /\ bus = "Start" => ~ibi_byte_last
        /\ bus \in {"Start", "HeaderLow"} => outcome = "cut"

\* The byte that descriptor_ibi offers, counted from the mandatory one.
AtHand == IF desc = "WriteMdb" THEN 0 ELSE data_cnt + 1

\* descriptor_ibi and the bus have counted the same bytes.
Count == ours /\ ibi \in Waiting \union Sending /\ bus \notin {"Start", "HeaderLow"}
             => sent = AtHand

\* A failure that is over is in the status.
Honest ==
    /\ outcome = "refused" => ibi_status # "Success"
    /\ outcome = "cut" => ibi \in Sending \/ ibi_status # "Success"

\* What ibi.sv makes of one clock: the T bit of its last byte, a STOP among its
\* bytes, a NACK.
LastTbit(p) == ibi = "SendTbit" /\ p.tx /\ ibi_byte_last
Cut(p) == ibi \in Sending /\ p.stop
Nacked(p) == ibi = "ReadAck" /\ p.rx /\ p.nack

LEMMA StatusMoves ==
    ASSUME Owner, NEW p \in Pulses, Ibi(p), p.stop => ~p.tx
    PROVE  /\ Cut(p) \/ Nacked(p) => ibi_status' # "Success"
           /\ ~LastTbit(p) /\ ~Cut(p) /\ ~Nacked(p) => ibi_status' = ibi_status
<1> DEFINE q == OfIbi(p)
<1>1. Status(q)
  BY DEF Ibi, OfIbi
<1>2. q.stop = p.stop /\ q.nack = p.nack
      /\ (ibi \in Sending \union {"ReadAck"} => q.tx = p.tx /\ q.rx = p.rx)
  BY OfIbiFields DEF Owner, Waiting, Sending
<1> HIDE DEF q
<1> QED BY <1>1, <1>2 DEF Status, Worse, LastTbit, Cut, Nacked, Sending

\* The way of ibi.sv from its address to its last T bit.
SendMove(p) ==
    /\ ibi' \in Waiting \union Sending =>
          ibi \in Waiting \union Sending \/ bus_free
    /\ ibi' \in {"ReadAck", "WaitForSclNegedgeAfterAck"} =>
          ibi \in {"DriveAddr", "ReadAck", "WaitForSclNegedgeAfterAck"}
    /\ ibi' \in Sending => ibi \in {"WaitForSclNegedgeAfterAck"} \union Sending
    /\ ibi = "DriveAddr" =>
          ibi' = IF p.stop THEN "Done" ELSE IF p.tx THEN "ReadAck"
                 ELSE IF p.arb THEN "WaitStopOrRstart" ELSE ibi
    /\ ibi = "ReadAck" =>
          ibi' = IF p.stop THEN "Done" ELSE IF ~p.rx THEN ibi
                 ELSE IF p.nack THEN "WaitStopOrRstart"
                 ELSE "WaitForSclNegedgeAfterAck"
    /\ ibi = "WaitForSclNegedgeAfterAck" =>
          ibi' = IF p.neg THEN "SendData" ELSE ibi
    /\ ibi = "SendData" =>
          ibi' = IF p.stop THEN "Flush" ELSE IF p.tx THEN "SendTbit" ELSE ibi
    /\ ibi = "SendTbit" =>
          ibi' = IF p.stop THEN "Flush" ELSE IF ~p.tx THEN ibi
                 ELSE IF ibi_byte_last THEN "Done" ELSE "SendData"

LEMMA SendMoves ==
    ASSUME Types, Owner, NEW p \in Pulses, Ibi(p)
    PROVE  SendMove(p)
<1> DEFINE q == OfIbi(p)
<1>1. /\ IbiArbitrate(q) \/ IbiTransfer(q)
      /\ ibi_begin(FsmInput(q)) <=> Begin
  BY OfIbiFields, InputFields DEF Ibi, OfIbi
<1>2. /\ q \in Pulses
      /\ q.stop = p.stop /\ q.neg = p.neg /\ q.arb = p.arb /\ q.nack = p.nack
      /\ ibi \in Waiting \union Sending => q.rx = p.rx /\ q.tx = p.tx
  BY OfIbiFields DEF Owner
<1> HIDE DEF q
<1> USE DEF SendMove, Waiting, Sending, IbiArbitrate, IbiTransfer
<1>3. CASE ibi = "Idle"
  BY <1>1, <1>3 DEF Begin
<1>4. CASE ibi \in Waiting
  BY <1>1, <1>2, <1>4
<1>5. CASE ibi \in Sending
  BY <1>1, <1>2, <1>5
<1>6. CASE ibi \in {"WaitStopOrRstart", "Flush", "Done"}
  BY <1>1, <1>6
<1> QED BY <1>3, <1>4, <1>5, <1>6 DEF Types, IbiStates

\* The bytes of descriptor_ibi in that time.
ByteMove(p) ==
    /\ ibi \in Waiting => AtHand = 0 /\ AtHand' = 0
    /\ ibi \in Sending /\ ~(ibi = "SendTbit" /\ p.tx) =>
          AtHand' = AtHand /\ (ibi_byte_last' <=> ibi_byte_last)
    /\ ibi = "SendTbit" /\ p.tx /\ ~ibi_byte_last => AtHand' = AtHand + 1
    /\ ibi \in Sending /\ ibi_byte_last => head.len = AtHand

LEMMA ByteMoves ==
    ASSUME FrameInv, Pace, Owner, NEW p \in Pulses, Ibi(p)
    PROVE  ByteMove(p)
<1>1. PICK ready \in BOOLEAN : ready <=> ibi_byte_ready(OfIbi(p))
  BY DEF ibi_byte_ready
<1>2. Descriptor(ready)
  <2>1. Descriptor(ibi_byte_ready(OfIbi(p)))
    BY DEF Ibi, OfIbi
  <2>2. ibi_byte_ready(OfIbi(p)) \in BOOLEAN
    BY DEF ibi_byte_ready
  <2>3. ready = ibi_byte_ready(OfIbi(p))
    BY <1>1, <2>2
  <2> QED BY <2>1, <2>3
<1>3. ibi \in Waiting \union Sending => (ready <=> ibi = "SendTbit" /\ p.tx)
  BY <1>1, OfIbiFields DEF ibi_byte_ready, Owner, Waiting, Sending
<1>4. /\ head \in LegalWord /\ data_cnt \in 0..255
      /\ desc = "WriteMdb" => data_cnt = 0
      /\ desc = "WriteData" => data_cnt < head.len /\ rvalid
  BY DEF FrameInv, Stage, rvalid
<1>5. PICK len \in 0..255 : len = head.len
  BY <1>4 DEF LegalWord
<1>6. /\ ibi \in Waiting => desc = "WriteMdb"
      /\ ibi \in Sending => desc \in {"WriteMdb", "WriteData"}
  BY DEF Pace
<1>7. /\ desc \in {"WriteMdb", "WriteData"} => head' = head
      /\ data_cnt' = IF desc = "Idle" THEN 0
                     ELSE IF desc = "WriteData" /\ rvalid /\ ready
                          THEN (data_cnt + 1) % 256 ELSE data_cnt
  BY <1>2 DEF Descriptor, Capture, DataCount
<1>8. /\ desc = "WriteMdb" /\ ~ready => desc' = "WriteMdb"
      /\ desc = "WriteData" /\ ~ready => desc' = "WriteData"
      /\ desc \in {"WriteMdb", "WriteData"} /\ ready =>
            desc' = IF ibi_byte_last THEN "Idle" ELSE "WriteData"
  BY <1>2, DescMoves
<1>9. desc \in {"WriteMdb", "WriteData"} /\ ibi_byte_last => head.len = AtHand
  <2>1. CASE desc = "WriteMdb"
    <3>1. data_len(len) = 255 => len = 0
      <4>1. len # 0 => data_len(len) = len - 1
        BY WordArithmetic
      <4> QED BY <4>1
    <3>2. ibi_byte_last <=> data_len(len) = 255
      BY <1>5, <2>1 DEF ibi_byte_last
    <3> QED BY <1>5, <2>1, <3>1, <3>2 DEF AtHand
  <2>2. CASE desc = "WriteData"
    <3>1. data_len(len) = len - 1
      <4>1. len # 0 => data_len(len) = len - 1
        BY WordArithmetic
      <4>2. data_cnt < len /\ data_cnt \in 0..255
        BY <1>4, <1>5, <2>2
      <4> QED BY <4>1, <4>2
    <3>2. desc # "WriteMdb" /\ (ibi_byte_last <=> data_cnt = data_len(head.len))
      BY <2>2 DEF ibi_byte_last
    <3> QED BY <1>4, <1>5, <3>1, <3>2 DEF AtHand
  <2> QED BY <2>1, <2>2
<1>10. CASE ibi \in Waiting
  <2>1. desc = "WriteMdb" /\ desc' = "WriteMdb" /\ ibi \notin Sending
    BY <1>3, <1>6, <1>8, <1>10 DEF Waiting, Sending
  <2> QED BY <2>1 DEF ByteMove, AtHand, Sending
<1>11. CASE ibi \in Sending /\ ~(ibi = "SendTbit" /\ p.tx)
  <2>1. desc \in {"WriteMdb", "WriteData"} /\ ~ready
    BY <1>3, <1>6, <1>11
  <2>2. desc' = desc /\ data_cnt' = data_cnt /\ head' = head
    BY <1>7, <1>8, <2>1
  <2>3. AtHand' = AtHand /\ (ibi_byte_last' <=> ibi_byte_last)
    BY <2>2 DEF AtHand, ibi_byte_last
  <2> QED BY <1>9, <1>11, <2>1, <2>3 DEF ByteMove, Waiting, Sending
<1>12. CASE ibi = "SendTbit" /\ p.tx
  <2>1. desc \in {"WriteMdb", "WriteData"} /\ ready
    BY <1>3, <1>6, <1>12 DEF Sending
  <2>2. ~ibi_byte_last => AtHand' = AtHand + 1
    <3>1. CASE desc = "WriteMdb"
      BY <1>4, <1>7, <1>8, <2>1, <3>1 DEF AtHand
    <3>2. CASE desc = "WriteData"
      <4>1. data_cnt + 1 < 256
        BY <1>4, <1>5, <3>2
      <4>2. data_cnt' = data_cnt + 1
        BY <1>4, <1>7, <2>1, <3>2, <4>1
      <4> QED BY <1>8, <2>1, <3>2, <4>2 DEF AtHand
    <3> QED BY <2>1, <3>1, <3>2
  <2> QED BY <1>9, <1>12, <2>1, <2>2 DEF ByteMove, Waiting, Sending
<1>13. CASE ibi \notin Waiting \union Sending
  BY <1>13 DEF ByteMove, Sending
<1> QED BY <1>10, <1>11, <1>12, <1>13 DEF Sending

\* What one clock does to the message, and to the agreement.
Fate(p) ==
    /\ p \in Pulses /\ Ibi(p) /\ (p.stop => ~p.tx)
    /\ LastTbit(p) => outcome' = "carried" \/ (outcome = "overrun" /\ outcome' = "overrun")
    /\ outcome' = "refused" => outcome = "refused" \/ Nacked(p)
    /\ outcome' = "cut" => outcome = "cut" \/ ibi' \in Sending

LEMMA CarryStep ==
    ASSUME FrameInv, Types, Pace, Owner, Place, Carry, Count, Next
    PROVE  /\ Carry' /\ Count'
           /\ \E p : Fate(p)
<1>1. ASSUME NEW p \in Pulses, Device(p)
      PROVE  SendMove(p) /\ ByteMove(p) /\ Ibi(p)
  BY <1>1, SendMoves, ByteMoves DEF Device
<1>2. /\ desc = "DescPop" => ibi \notin Waiting \union Sending
      /\ ibi \in Waiting \union Sending => xfer_mux_sel = "Ibi"
      /\ bus # "Quiet" => ~bus_free
      /\ ibi = "WaitForSclNegedgeAfterAck" => bus = "AckHigh"
      /\ ibi = "ReadAck" => bus = "Ack"
      /\ ibi = "DriveAddr" => bus \in {"HeaderLow", "Header"}
      /\ bus = "Quiet" => ~ours
  BY DEF Pace, Owner, Place, Waiting, Sending, bus_free
<1> USE <1>2 DEF Waiting, Sending, FromTo, BusEvent, History, NoNews, Carry,
        Fate, LastTbit, Nacked
<1>3. CASE Tick
  <2> DEFINE p == NoPulse
  <2>1. p \in Pulses /\ Device(p)
    BY <1>3 DEF Tick, NoPulse, Pulses, Headers, NoHeader
  <2>2. ~p.stop /\ ~p.tx /\ ~p.rx /\ ~p.neg /\ ~p.arb
    BY DEF NoPulse
  <2>3. SendMove(p) /\ ByteMove(p) /\ Ibi(p)
    BY <1>1, <2>1
  <2> HIDE DEF p
  <2>4. Carry'
    BY <1>3, <2>2, <2>3 DEF Tick, SendMove, ByteMove
  <2>5. Count'
    BY <1>3, <2>2, <2>3 DEF Tick, SendMove, ByteMove, Count
  <2>6. Fate(p)
    BY <1>3, <2>1, <2>2, <2>3 DEF Tick, SendMove, ByteMove, Count
  <2> QED BY <2>4, <2>5, <2>6
<1>4. CASE LevelRises
  <2> DEFINE p == NoPulse
  <2>1. p \in Pulses /\ Device(p)
    BY <1>4 DEF LevelRises, NoPulse, Pulses, Headers, NoHeader
  <2>2. ~p.stop /\ ~p.tx /\ ~p.rx /\ ~p.neg /\ ~p.arb
    BY DEF NoPulse
  <2>3. SendMove(p) /\ ByteMove(p) /\ Ibi(p)
    BY <1>1, <2>1
  <2> HIDE DEF p
  <2>4. Carry'
    BY <1>4, <2>2, <2>3 DEF LevelRises, SendMove, ByteMove
  <2>5. Count'
    BY <1>4, <2>2, <2>3 DEF LevelRises, SendMove, ByteMove, Count
  <2>6. Fate(p)
    BY <1>4, <2>1, <2>2, <2>3 DEF LevelRises, SendMove, ByteMove, Count
  <2> QED BY <2>4, <2>5, <2>6
<1>5. CASE StartCondition
  <2> DEFINE p == [NoPulse EXCEPT !.start = TRUE]
  <2>1. p \in Pulses /\ Device(p)
    BY <1>5 DEF StartCondition, NoPulse, Pulses, Headers, NoHeader
  <2>2. ~p.stop /\ ~p.tx /\ ~p.rx /\ ~p.neg /\ ~p.arb
    BY DEF NoPulse
  <2>3. SendMove(p) /\ ByteMove(p) /\ Ibi(p)
    BY <1>1, <2>1
  <2> HIDE DEF p
  <2>4. Carry'
    BY <1>5, <2>2, <2>3 DEF StartCondition, SendMove, ByteMove
  <2>5. Count'
    BY <1>5, <2>2, <2>3 DEF StartCondition, SendMove, ByteMove, Count
  <2>6. Fate(p)
    BY <1>5, <2>1, <2>2, <2>3 DEF StartCondition, SendMove, ByteMove, Count
  <2> QED BY <2>4, <2>5, <2>6
<1>6. CASE SclFalls
  <2> DEFINE p == [NoPulse EXCEPT !.neg = TRUE, !.tx = tx_bit]
  <2>1. p \in Pulses /\ Device(p)
    BY <1>6 DEF SclFalls, NoPulse, Pulses, Headers, NoHeader, tx_bit
  <2>2. ~p.stop /\ ~p.rx /\ ~p.arb /\ (ibi = "SendTbit" => p.tx)
        /\ (ibi \in {"DriveAddr", "SendData"} => ~p.tx)
    BY DEF NoPulse, tx_bit
  <2>3. SendMove(p) /\ ByteMove(p) /\ Ibi(p)
    BY <1>1, <2>1
  <2> HIDE DEF p
  <2>4. Carry'
    BY <1>6, <2>2, <2>3 DEF SclFalls, SendMove, ByteMove
  <2>5. Count'
    BY <1>6, <2>2, <2>3 DEF SclFalls, SendMove, ByteMove, Count
  <2>6. Fate(p)
    BY <1>6, <2>1, <2>2, <2>3 DEF SclFalls, SendMove, ByteMove, Count
  <2> QED BY <2>4, <2>5, <2>6
<1>7. CASE FirstBit
  <2> DEFINE p == NoPulse
  <2>1. p \in Pulses /\ Device(p)
    BY <1>7 DEF FirstBit, NoPulse, Pulses, Headers, NoHeader
  <2>2. ~p.stop /\ ~p.tx /\ ~p.rx /\ ~p.neg /\ ~p.arb
    BY DEF NoPulse
  <2>3. SendMove(p) /\ ByteMove(p) /\ Ibi(p)
    BY <1>1, <2>1
  <2> HIDE DEF p
  <2>4. Carry'
    BY <1>7, <2>2, <2>3 DEF FirstBit, SendMove, ByteMove
  <2>5. Count'
    BY <1>7, <2>2, <2>3 DEF FirstBit, SendMove, ByteMove, Count
  <2>6. Fate(p)
    BY <1>7, <2>1, <2>2, <2>3 DEF FirstBit, SendMove, ByteMove, Count
  <2> QED BY <2>4, <2>5, <2>6
<1>8. CASE LoseArbitration
  <2> DEFINE p == [NoPulse EXCEPT !.arb = TRUE]
  <2>1. p \in Pulses /\ Device(p)
    BY <1>8 DEF LoseArbitration, NoPulse, Pulses, Headers, NoHeader
  <2>2. ~p.stop /\ ~p.tx /\ ~p.rx /\ ~p.neg
    BY DEF NoPulse
  <2>3. SendMove(p) /\ ByteMove(p) /\ Ibi(p)
    BY <1>1, <2>1
  <2> HIDE DEF p
  <2>4. Carry'
    BY <1>8, <2>2, <2>3 DEF LoseArbitration, SendMove, ByteMove
  <2>5. Count'
    BY <1>8, <2>2, <2>3 DEF LoseArbitration, SendMove, ByteMove, Count
  <2>6. Fate(p)
    BY <1>8, <2>1, <2>2, <2>3 DEF LoseArbitration, SendMove, ByteMove, Count
  <2> QED BY <2>4, <2>5, <2>6
<1>9. CASE HeaderEnd
  <2>1. PICK h \in Headers, done \in BOOLEAN :
          Device([NoPulse EXCEPT !.rx = done, !.data = h, !.tx = tx_byte])
    BY <1>9, IbiAssumption DEF HeaderEnd, LateByte, rx_byte, Types, Headers, NoHeader
  <2> DEFINE p == [NoPulse EXCEPT !.rx = done, !.data = h, !.tx = tx_byte]
  <2>2. p \in Pulses /\ Device(p)
    BY <1>9, <2>1 DEF HeaderEnd, NoPulse, Pulses, Headers, NoHeader, tx_byte
  <2>3. ~p.stop /\ ~p.neg /\ ~p.arb /\ (ibi \in {"DriveAddr", "SendData"} => p.tx)
        /\ (ibi = "SendTbit" => ~p.tx)
    BY <2>1 DEF NoPulse, tx_byte
  <2>4. SendMove(p) /\ ByteMove(p) /\ Ibi(p)
    BY <1>1, <2>2
  <2> HIDE DEF p
  <2>5. Carry'
    BY <1>9, <2>3, <2>4 DEF HeaderEnd, SendMove, ByteMove
  <2>6. Count'
    BY <1>9, <2>3, <2>4 DEF HeaderEnd, SendMove, ByteMove, Count
  <2>7. Fate(p)
    BY <1>9, <2>2, <2>3, <2>4 DEF HeaderEnd, SendMove, ByteMove, Count
  <2> QED BY <2>5, <2>6, <2>7
<1>10. CASE AckBit
  <2> DEFINE p == [NoPulse EXCEPT !.rx = rx_bit, !.nack = ~acked']
  <2>1. p \in Pulses /\ Device(p)
    BY <1>10 DEF AckBit, NoPulse, Pulses, Headers, NoHeader, rx_bit
  <2>2. ~p.stop /\ ~p.tx /\ ~p.neg /\ ~p.arb
        /\ (ibi = "ReadAck" => p.rx) /\ (p.nack <=> ~acked')
    BY DEF NoPulse, rx_bit
  <2>3. SendMove(p) /\ ByteMove(p) /\ Ibi(p)
    BY <1>1, <2>1
  <2> HIDE DEF p
  <2>4. Carry'
    BY <1>10, <2>2, <2>3 DEF AckBit, SendMove, ByteMove
  <2>5. Count'
    BY <1>10, <2>2, <2>3 DEF AckBit, SendMove, ByteMove, Count
  <2>6. Fate(p)
    BY <1>10, <2>1, <2>2, <2>3 DEF AckBit, SendMove, ByteMove, Count
  <2> QED BY <2>4, <2>5, <2>6
<1>11. CASE AckEnd
  <2> DEFINE p == [NoPulse EXCEPT !.neg = TRUE, !.tx = tx_bit]
  <2>1. p \in Pulses /\ Device(p)
    BY <1>11 DEF AckEnd, NoPulse, Pulses, Headers, NoHeader, tx_bit
  <2>2. ~p.stop /\ ~p.rx /\ ~p.arb /\ p.neg /\ (ibi = "SendTbit" => p.tx)
        /\ (ibi \in {"DriveAddr", "SendData"} => ~p.tx)
    BY DEF NoPulse, tx_bit
  <2>3. SendMove(p) /\ ByteMove(p) /\ Ibi(p)
    BY <1>1, <2>1
  <2> HIDE DEF p
  <2>4. Carry'
    BY <1>11, <2>2, <2>3 DEF AckEnd, SendMove, ByteMove
  <2>5. Count'
    BY <1>11, <2>2, <2>3 DEF AckEnd, SendMove, ByteMove, Count
  <2>6. Fate(p)
    BY <1>11, <2>1, <2>2, <2>3 DEF AckEnd, SendMove, ByteMove, Count
  <2> QED BY <2>4, <2>5, <2>6
<1>12. CASE DataFirstBit
  <2> DEFINE p == NoPulse
  <2>1. p \in Pulses /\ Device(p)
    BY <1>12 DEF DataFirstBit, NoPulse, Pulses, Headers, NoHeader
  <2>2. ~p.stop /\ ~p.tx /\ ~p.rx /\ ~p.neg /\ ~p.arb
    BY DEF NoPulse
  <2>3. SendMove(p) /\ ByteMove(p) /\ Ibi(p)
    BY <1>1, <2>1
  <2> HIDE DEF p
  <2>4. Carry'
    BY <1>12, <2>2, <2>3 DEF DataFirstBit, SendMove, ByteMove
  <2>5. Count'
    BY <1>12, <2>2, <2>3 DEF DataFirstBit, SendMove, ByteMove, Count
  <2>6. Fate(p)
    BY <1>12, <2>1, <2>2, <2>3 DEF DataFirstBit, SendMove, ByteMove, Count
  <2> QED BY <2>4, <2>5, <2>6
<1>13. CASE DataEnd
  <2>1. PICK h \in Headers, done \in BOOLEAN :
          Device([NoPulse EXCEPT !.rx = done, !.data = h, !.tx = tx_byte])
    BY <1>13, IbiAssumption DEF DataEnd, LateByte, rx_byte, Types, Headers, NoHeader
  <2> DEFINE p == [NoPulse EXCEPT !.rx = done, !.data = h, !.tx = tx_byte]
  <2>2. p \in Pulses /\ Device(p)
    BY <1>13, <2>1 DEF DataEnd, NoPulse, Pulses, Headers, NoHeader, tx_byte
  <2>3. ~p.stop /\ ~p.neg /\ ~p.arb /\ (ibi \in {"DriveAddr", "SendData"} => p.tx)
        /\ (ibi = "SendTbit" => ~p.tx)
    BY <2>1 DEF NoPulse, tx_byte
  <2>4. SendMove(p) /\ ByteMove(p) /\ Ibi(p)
    BY <1>1, <2>2
  <2> HIDE DEF p
  <2>5. Carry'
    BY <1>13, <2>3, <2>4 DEF DataEnd, SendMove, ByteMove
  <2>6. Count'
    BY <1>13, <2>3, <2>4 DEF DataEnd, SendMove, ByteMove, Count
  <2>7. Fate(p)
    BY <1>13, <2>2, <2>3, <2>4 DEF DataEnd, SendMove, ByteMove, Count
  <2> QED BY <2>5, <2>6, <2>7
<1>14. CASE TbitEnd
  <2> DEFINE p == [NoPulse EXCEPT !.neg = TRUE, !.rx = rx_bit, !.tx = tx_bit]
  <2>1. p \in Pulses /\ Device(p)
    BY <1>14 DEF TbitEnd, NoPulse, Pulses, Headers, NoHeader, tx_bit, rx_bit
  <2>2. ~p.stop /\ ~p.arb /\ (ibi = "SendTbit" => p.tx)
        /\ (ibi \in {"DriveAddr", "SendData"} => ~p.tx)
    BY DEF NoPulse, tx_bit, rx_bit
  <2>3. SendMove(p) /\ ByteMove(p) /\ Ibi(p)
    BY <1>1, <2>1
  <2> HIDE DEF p
  <2>4. Carry'
    BY <1>14, <2>2, <2>3 DEF TbitEnd, SendMove, ByteMove
  <2>5. Count'
    BY <1>14, <2>2, <2>3 DEF TbitEnd, SendMove, ByteMove, Count
  <2>6. Fate(p)
    BY <1>14, <2>1, <2>2, <2>3 DEF TbitEnd, SendMove, ByteMove, Count
  <2> QED BY <2>4, <2>5, <2>6
<1>15. CASE RepeatedStart
  <2> DEFINE p == [NoPulse EXCEPT !.rstart = TRUE]
  <2>1. p \in Pulses /\ Device(p)
    BY <1>15 DEF RepeatedStart, NoPulse, Pulses, Headers, NoHeader
  <2>2. ~p.stop /\ ~p.tx /\ ~p.rx /\ ~p.neg /\ ~p.arb
    BY DEF NoPulse
  <2>3. SendMove(p) /\ ByteMove(p) /\ Ibi(p)
    BY <1>1, <2>1
  <2> HIDE DEF p
  <2>4. Carry'
    BY <1>15, <2>2, <2>3 DEF RepeatedStart, SendMove, ByteMove
  <2>5. Count'
    BY <1>15, <2>2, <2>3 DEF RepeatedStart, SendMove, ByteMove, Count
  <2>6. Fate(p)
    BY <1>15, <2>1, <2>2, <2>3 DEF RepeatedStart, SendMove, ByteMove, Count
  <2> QED BY <2>4, <2>5, <2>6
<1>16. CASE StopCondition
  <2> DEFINE p == [NoPulse EXCEPT !.stop = TRUE]
  <2>1. p \in Pulses /\ Device(p)
    BY <1>16 DEF StopCondition, NoPulse, Pulses, Headers, NoHeader
  <2>2. p.stop /\ ~p.tx /\ ~p.rx /\ ~p.neg /\ ~p.arb
    BY DEF NoPulse
  <2>3. SendMove(p) /\ ByteMove(p) /\ Ibi(p)
    BY <1>1, <2>1
  <2> HIDE DEF p
  <2>4. Carry'
    BY <1>16, <2>2, <2>3 DEF StopCondition, SendMove, ByteMove
  <2>5. Count'
    BY <1>16, <2>2, <2>3 DEF StopCondition, SendMove, ByteMove, Count
  <2>6. Fate(p)
    BY <1>16, <2>1, <2>2, <2>3 DEF StopCondition, SendMove, ByteMove, Count
  <2> QED BY <2>4, <2>5, <2>6
<1> QED BY <1>3, <1>4, <1>5, <1>6, <1>7, <1>8, <1>9, <1>10, <1>11, <1>12,
           <1>13, <1>14, <1>15, <1>16 DEF Next

\* The invariant of the message, on top of that of the IBI.
FateInv == IbiInv /\ Carry /\ Count /\ Honest

LEMMA HonestStep ==
    ASSUME IbiInv, Carry, Honest, NEW p, Fate(p)
    PROVE  Honest'
<1>1. /\ Cut(p) \/ Nacked(p) => ibi_status' # "Success"
      /\ ~LastTbit(p) /\ ~Cut(p) /\ ~Nacked(p) => ibi_status' = ibi_status
  BY StatusMoves DEF IbiInv, Fate
<1>2. ibi \in Sending => ibi' \in Sending \/ LastTbit(p) \/ Cut(p)
  BY SendMoves DEF IbiInv, Fate, SendMove, Sending, LastTbit, Cut
<1> QED BY <1>1, <1>2 DEF Honest, Fate

LEMMA FateInvInit == Init => FateInv
BY IbiInvInit DEF Init, FateInv, Carry, Count, Honest, Waiting, Sending

LEMMA FateInvStep ==
    ASSUME FateInv, [Next]_vars PROVE FateInv'
<1>1. IbiInv'
  BY IbiInvStep DEF FateInv
<1>2. CASE Next
  <2>1. Carry' /\ Count' /\ \E p : Fate(p)
    BY <1>2, CarryStep DEF FateInv, IbiInv
  <2>2. Honest'
    BY <2>1, HonestStep DEF FateInv
  <2> QED BY <1>1, <2>1, <2>2 DEF FateInv
<1>3. CASE UNCHANGED vars
  <2>1. Carry' /\ Count' /\ Honest'
    BY <1>3 DEF FateInv, Carry, Count, Honest, AtHand, ibi_byte_last, vars,
       ibiVars, busVars, descVars, history
  <2> QED BY <1>1, <2>1 DEF FateInv
<1> QED BY <1>2, <1>3

\* The inductive invariant of the message.
THEOREM FateInvariance == Spec => []FateInv
<1>1. FateInv /\ [Next]_vars => FateInv'
  BY FateInvStep
<1> QED BY FateInvInit, <1>1, PTL DEF Spec

\* A message that the controller refused, or cut short by a repeated START and
\* a STOP, is never reported as sent, whatever IBIs came before it (ibi_status
\* of ibi.sv, against what the bus has seen).
THEOREM IbiHonest == Spec => FailureReported
<1>1. FateInv => [(status_we /\ outcome \in {"refused", "cut"})
                     => ibi_status # "Success"]_vars
  BY DEF FateInv, Honest, status_we, Sending
<1> QED BY <1>1, FateInvariance, PTL DEF FailureReported

\* A message leaves descriptor_ibi in three ways: the bus has carried all its
\* bytes, counted there, in one IBI; ibi.sv flushes it; or a repeated START has
\* cut it short, a header followed, and ibi.sv has run on into that.
THEOREM IbiLeavesWhole == Spec => LeavesWhole
<1>1. FateInv /\ [Next]_vars =>
        [(desc \in {"WriteMdb", "WriteData"} /\ desc' = "Idle")
            => (ibi = "Flush" \/ outcome' = "carried" \/ outcome = "overrun")]_vars
  <2> SUFFICES ASSUME FateInv, Next, desc \in {"WriteMdb", "WriteData"},
                      desc' = "Idle", ibi # "Flush"
               PROVE  outcome' = "carried" \/ outcome = "overrun"
    BY DEF vars
  <2>1. PICK p : Fate(p)
    BY CarryStep DEF FateInv, IbiInv
  <2>2. PICK ready \in BOOLEAN : ready = ibi_byte_ready(OfIbi(p))
    BY DEF ibi_byte_ready
  <2>3. Descriptor(ready)
    BY <2>1, <2>2 DEF Fate, Ibi, OfIbi
  <2>4. ready /\ ibi_byte_last
    BY <2>3, DescMoves DEF FateInv, IbiInv
  <2>5. ibi = "SendTbit" /\ OfIbi(p).tx
    BY <2>2, <2>4 DEF ibi_byte_ready
  <2>6. p \in Pulses /\ xfer_mux_sel = "Ibi"
    BY <2>1, <2>5 DEF Fate, FateInv, IbiInv, Owner, Sending
  <2>7. p.tx
    BY <2>5, <2>6, OfIbiFields
  <2> QED BY <2>1, <2>4, <2>5, <2>7 DEF Fate, LastTbit
<1> QED BY <1>1, FateInvariance, PTL DEF Spec, LeavesWhole
=============================================================================
