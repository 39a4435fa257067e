--------------------------- MODULE DescriptorIbi ---------------------------
(***************************************************************************)
(* The IBI queue and descriptor_ibi.sv, which cuts it into messages:       *)
(* software writes a descriptor and then the data words of one message     *)
(* after the other; descriptor_ibi waits for the words of a message and    *)
(* hands its bytes (the mandatory byte first) to the IBI module.           *)
(* A word is a record: the message it belongs to, its place in it (0 is    *)
(* the descriptor) and the DATA_LENGTH field of the descriptor.            *)
(***************************************************************************)
EXTENDS Integers, Sequences

CONSTANTS QueueDepth,   \* entries of the IBI queue
          Lengths,      \* DATA_LENGTH values software uses
          Messages      \* bound: messages software writes

ASSUME DescriptorAssumption ==
    /\ QueueDepth \in Nat \ {0}
    /\ Lengths \subseteq 0..255
    /\ Messages \in Nat

VARIABLES ibi_queue,  \* words in the queue, head first
          desc,       \* state_q of descriptor_ibi
          head,       \* descriptor captured: data_mdb, data_len, data_words
          data_cnt,   \* bytes of data handed over
          written     \* software: the word it wrote last

descVars == <<ibi_queue, desc, head, data_cnt, written>>

DescStates == {"Idle", "DescLatch", "DescPop", "WriteMdb", "WriteData"}
Word == [msg : Nat, k : Nat, len : 0..255]

-----------------------------------------------------------------------------
\* What software means: the data words of a message of len bytes.
Words(len) == (len + 3) \div 4

\* Mutant: one word more than software means.
data_wordsFloorPlusOne(len) == len \div 4 + 1

\* What the code computes: rdata[7:2] + |rdata[1:0], at most 64 in eight bits.
data_words(len) == len \div 4 + (IF len % 4 = 0 THEN 0 ELSE 1)

\* data_len is len - 1 in eight bits, FF for a message without data.
data_len(len) == (len + 255) % 256

\* Mutant: a partly used last word stays in the queue.
data_popFullOnly(cnt, len) == cnt % 4 = 3

\* The word under the read pointer is used up: every four bytes, or the last.
data_pop(cnt, len) == cnt % 4 = 3 \/ cnt = data_len(len)

rvalid == ibi_queue # <<>>
ibi_byte_valid == desc = "WriteMdb" \/ (desc = "WriteData" /\ rvalid)
ibi_byte_last == IF desc = "WriteMdb" THEN data_len(head.len) = 255
                 ELSE data_cnt = data_len(head.len)
ibi_queue_rready(ready) ==
    \/ rvalid /\ desc = "DescPop"
    \/ desc = "WriteData" /\ ready /\ data_pop(data_cnt, head.len)

DescriptorInit ==
    /\ ibi_queue = <<>>
    /\ desc = "Idle"
    /\ head = [msg |-> 0, k |-> 0, len |-> 0]
    /\ data_cnt = 0
    /\ written = [msg |-> 0, k |-> 0, len |-> 0]

\* Mutant: the FSM does not wait for the data words.
DescriptorFsmNoWait(ready) ==
    \/ desc = "Idle" /\ desc' = IF rvalid THEN "DescLatch" ELSE "Idle"
    \/ desc = "DescLatch" /\ desc' = "DescPop"
    \/ desc = "DescPop" /\ desc' = "WriteMdb"
    \/ /\ desc = "WriteMdb"
       /\ desc' = IF ~ready THEN "WriteMdb"
                  ELSE IF data_len(head.len) = 255 THEN "Idle" ELSE "WriteData"
    \/ /\ desc = "WriteData"
       /\ desc' = IF ready /\ data_cnt = data_len(head.len)
                  THEN "Idle" ELSE "WriteData"

DescriptorFsm(ready) ==
    \/ desc = "Idle" /\ desc' = IF rvalid THEN "DescLatch" ELSE "Idle"
    \/ /\ desc = "DescLatch"
       /\ desc' = IF Len(ibi_queue) >= data_words(head.len) + 1
                  THEN "DescPop" ELSE "DescLatch"
    \/ desc = "DescPop" /\ desc' = "WriteMdb"
    \/ /\ desc = "WriteMdb"
       /\ desc' = IF ~ready THEN "WriteMdb"
                  ELSE IF data_len(head.len) = 255 THEN "Idle" ELSE "WriteData"
    \/ /\ desc = "WriteData"
       /\ desc' = IF ready /\ data_cnt = data_len(head.len)
                  THEN "Idle" ELSE "WriteData"

\* The registers that go with the FSM.
Capture == head' = IF desc = "Idle" /\ rvalid THEN ibi_queue[1] ELSE head
DataCount(ready) ==
    data_cnt' = IF desc = "Idle" THEN 0
                ELSE IF desc = "WriteData" /\ rvalid /\ ready
                     THEN (data_cnt + 1) % 256 ELSE data_cnt

\* The words software may write next: the next data word of the message it is
\* in, or the descriptor of a new one.  It looks at the queue level first.
NextWords ==
    IF written.k < Words(written.len)
    THEN {[written EXCEPT !.k = @ + 1]}
    ELSE IF written.msg = Messages THEN {}
    ELSE {[msg |-> written.msg + 1, k |-> 0, len |-> n] : n \in Lengths}
Offers == {<<>>} \union
          {<<w>> : w \in IF Len(ibi_queue) < QueueDepth THEN NextWords ELSE {}}

Software(offer) == written' = IF offer = <<>> THEN written ELSE offer[1]
Queue(offer, ready) ==
    ibi_queue' = (IF ibi_queue_rready(ready) /\ rvalid THEN Tail(ibi_queue)
                  ELSE ibi_queue) \o offer

\* One clock, given the ready signal of the IBI module.
Descriptor(ready) ==
    /\ DescriptorFsm(ready)
    /\ Capture
    /\ DataCount(ready)
    /\ \E offer \in Offers : Software(offer) /\ Queue(offer, ready)

\* On its own: a consumer that takes a byte or not in every clock, whether
\* one is offered or not while data is handed over.
DescriptorClock == \E ready \in BOOLEAN : Descriptor(ready)
DescriptorSpec == DescriptorInit /\ [][DescriptorClock]_descVars

\* The clock runs on, and software writes a message to its end when it can.
DescriptorFairSpec ==
    /\ DescriptorSpec
    /\ WF_descVars(DescriptorClock)
    /\ WF_descVars(DescriptorClock /\ written' # written)

DescriptorTypeOK ==
    /\ ibi_queue \in Seq(Word) /\ Len(ibi_queue) <= QueueDepth
    /\ desc \in DescStates
    /\ head \in Word
    /\ data_cnt \in 0..255
    /\ written \in Word
-----------------------------------------------------------------------------
\* w is the word at place k of the message that v belongs to.
AtPlace(w, v, k) == w.msg = v.msg /\ w.len = v.len /\ w.k = k

\* Two words that software writes one after the other.
Follows(v, w) ==
    IF v.k < Words(v.len) THEN AtPlace(w, v, v.k + 1)
    ELSE w.k = 0 /\ w.msg = v.msg + 1

\* The messages are never confused: in Idle a word at the head of the queue is
\* a descriptor, and while data is handed over it is the data word of the
\* captured message that the byte counter points into.
Framed ==
    /\ desc \in {"Idle", "DescLatch", "DescPop"} /\ rvalid => ibi_queue[1].k = 0
    /\ desc \in {"DescLatch", "DescPop"} => rvalid /\ ibi_queue[1] = head
    /\ desc = "WriteData" =>
          rvalid /\ AtPlace(ibi_queue[1], head, data_cnt \div 4 + 1)

\* The comment at the head of descriptor_ibi.sv: the module waits until the
\* defined count of data words is in the queue before it hands anything over.
WaitsForWords ==
    desc = "DescPop" => Len(ibi_queue) >= Words(head.len) + 1

\* "Finally, the module outputs MDB and the data" (the same comment): a message
\* that software has begun is offered in the end, also when it fills the queue.
FinallyOffered == desc = "DescLatch" ~> desc = "WriteMdb"
=============================================================================
