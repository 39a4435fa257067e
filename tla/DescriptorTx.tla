---------------------------- MODULE DescriptorTx ----------------------------
(***************************************************************************)
(* descriptor_tx.sv: takes a TX descriptor when a private read begins,     *)
(* hands the bytes it announces to the target FSM, and discards the rest   *)
(* when the read is aborted.  The inputs of a clock are a record i: start  *)
(* and abort from the target FSM, byte_ready (it takes a byte), enter      *)
(* (recovery_mode_enter), desc_rvalid and desc_len, rvalid and empty of    *)
(* the TX path behind it, depth (words in the TX data queue).              *)
(***************************************************************************)
EXTENDS Naturals, Sequences

VARIABLES descriptor_valid, data_len, tx_pending, byte_counter, tx_flush

txdVars == <<descriptor_valid, data_len, tx_pending, byte_counter, tx_flush>>

DescriptorTxInit ==
    /\ descriptor_valid = FALSE /\ data_len = 0 /\ tx_pending = FALSE
    /\ byte_counter = 0 /\ tx_flush = FALSE

desc_rready(i) == /\ ~descriptor_valid /\ i.start /\ i.desc_rvalid /\ ~tx_flush
                  /\ ~(i.abort \/ i.enter)
tx_start(i) == /\ ~tx_pending /\ descriptor_valid
               /\ i.depth + 1 >= data_len \div 4
tx_end(i) == byte_counter = 1 /\ (i.byte_ready \/ tx_flush)
tx_byte_valid(i) == tx_pending /\ i.rvalid
tx_byte_last == byte_counter = 1
tx_queue_rready(i) == \/ tx_byte_valid(i) /\ i.byte_ready
                      \/ tx_flush /\ i.rvalid
tx_queue_flush(i) == tx_end(i) /\ (data_len % 4 # 0 \/ byte_counter % 4 # 0)

TxDescriptor(i) ==
    /\ descriptor_valid' = /\ ~tx_end(i)
                           /\ \/ desc_rready(i)
                              \/ descriptor_valid /\ ~(i.abort \/ i.enter)
    /\ data_len' = IF tx_end(i) THEN data_len
                   ELSE IF desc_rready(i) THEN i.desc_len
                   ELSE IF i.abort \/ i.enter THEN 0 ELSE data_len

FlushAborted(i) ==
    tx_flush' =
        IF ~tx_flush THEN i.abort \/ (i.enter /\ byte_counter # 0)
        ELSE ~(\/ byte_counter = 1 /\ i.rvalid
               \/ ~i.rvalid /\ i.empty
               \/ tx_queue_flush(i))

TxPending(i) ==
    tx_pending' = (tx_start(i) \/ (tx_pending /\ ~(tx_end(i) \/ i.abort)))

TxCount(i) ==
    byte_counter' = IF tx_start(i) THEN data_len
                    ELSE IF tx_queue_rready(i)
                         THEN (byte_counter + 65535) % 65536
                    ELSE byte_counter

\* One clock.
DescTx(i) == TxDescriptor(i) /\ FlushAborted(i) /\ TxPending(i) /\ TxCount(i)
=============================================================================
