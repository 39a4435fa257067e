-------------------------- MODULE TtiInterruptsMC --------------------------
(***************************************************************************)
(* TtiInterrupts with the programs of the tests.                            *)
(***************************************************************************)
EXTENDS TtiInterrupts

SetField(reg, field, n) == Operation("set", reg, field, Bits(n))
Check(field, n) == Operation("check", "INTERRUPT_STATUS", field, Bits(n))
Irq(n) == Operation("irq", None, None, Bits(n))
Low == Operation("low", None, None, {})
Rest5 == Operation("rest", None, None, {})
Access(reg) == Operation("access", reg, None, {})

Enable(c) == IF c = "TX_DESC_COMPLETE" THEN "TX_DESC_COMPLETE_EN" ELSE c \o "_EN"
Force(c) == CASE c = "RX_DESC_THLD_STAT" -> "RX_DESC_THLD_FORCE"
              [] c = "RX_DATA_THLD_STAT" -> "RX_DATA_THLD_FORCE"
              [] OTHER -> c \o "_FORCE"

\* Enable c, and for each event read what clears it: test_i3c_target_write with
\* the threshold of its set-up, test_ibi_done.
Agent(c, thld, source) ==
    Program({c},
        <<SetField("QUEUE_THLD_CTRL", "RX_DESC_THLD", thld),
          SetField("INTERRUPT_ENABLE", Enable(c), 1),
          Irq(1), Check(c, 1), Access(source), Irq(0), Check(c, 0)>>, 3)

\* test_interrupt_force
ForceTest(c) ==
    Program({c},
        <<SetField("INTERRUPT_ENABLE", Enable(c), 0),
          SetField("INTERRUPT_FORCE", Force(c), 1),
          SetField("INTERRUPT_FORCE", Force(c), 0), Low, Check(c, 0),
          SetField("INTERRUPT_ENABLE", Enable(c), 1),
          SetField("INTERRUPT_FORCE", Force(c), 1),
          SetField("INTERRUPT_FORCE", Force(c), 0), Irq(1), Check(c, 1),
          SetField("INTERRUPT_STATUS", c, 1), Irq(0), Check(c, 0)>>, 0)

\* should_setup_ready_threshold, one queue after the other; expected: the value
\* that the test expects.
Expected(t, n) == IF t = "IBI_THLD" THEN n
                  ELSE IF n < Entries(t) THEN n ELSE Entries(t) - 1
ThldTest(t, n) ==
    <<SetField("QUEUE_THLD_CTRL", t, n), Rest5,
      Operation("check", "QUEUE_THLD_CTRL", t, Bits(Expected(t, n)))>>
ThldTests(n, m) ==
    Program({}, ThldTest("TX_DESC_THLD", n) \o ThldTest("RX_DESC_THLD", m)
                \o ThldTest("IBI_THLD", n) \o ThldTest("TX_DESC_THLD", m), 0)

\* Firmware that sets thresholds one right after the other, and reads
\* descriptors whenever it likes.
Reader(n, m) ==
    Program({}, <<SetField("INTERRUPT_ENABLE", "RX_DESC_THLD_STAT_EN", 1),
                  SetField("QUEUE_THLD_CTRL", "RX_DESC_THLD", n),
                  SetField("QUEUE_THLD_CTRL", "TX_DESC_THLD", m),
                  Access("RX_DESC_QUEUE_PORT")>>, 4)

MCPrograms ==
    {Agent("RX_DESC_STAT", n, "RX_DESC_QUEUE_PORT") : n \in {1, 2}}
    \union {Agent("IBI_DONE", 1, "STATUS"), Agent("RX_DATA_THLD_STAT", 1, "RX_DATA_PORT")}
    \union {ForceTest(c) : c \in Cells}
    \union {ThldTests(n, m) : n \in {1, 200}, m \in {2, 255}}
    \union {Reader(n, m) : n \in {1, 2, 3}, m \in {0, 3}}
=============================================================================
