------------------------- MODULE PrivateWriteProofs -------------------------
(***************************************************************************)
(* Bytes of a private write that found no room are reported, for every     *)
(* queue depth, clock ratio and set of transfers.                          *)
(***************************************************************************)
EXTENDS PrivateWrite, TLAPS

Types ==
    /\ fsm \in FsmStates
    /\ calm \in Nat
    /\ {rx_valid, overflow, overflow_q, rx_error, transfer_ended_q, lost, lost_q}
          \subseteq BOOLEAN

ByteStates == {"RxFByte", "RxSByte", "RxSByteRepeated", "RxPWriteData"}
CheckStates == {"CheckFByte", "CheckSByte"}
AckStates == {"TxAckFByte", "TxAckSByte"}

\* The FSM keeps pace with the bus: it has left a check before the bit after it
\* ends.
InPhase ==
    /\ fsm \in ByteStates => phase = "Byte"
    /\ fsm \in CheckStates \union AckStates \union {"RxPWriteTbit"} => phase = "Bit"
    /\ fsm \in CheckStates => calm = 0

\* A byte that is not taken in the first clock of its successor overflows; an
\* overflow belongs to one message and is in its error flag a clock later.
Flagged ==
    /\ fsm = "RxPWriteData" /\ calm # 0 /\ rx_valid => overflow
    /\ fsm \in {"RxFByte", "Idle"} => ~overflow
    /\ transfer_ended_q => fsm \in {"RxFByte", "Idle"}
    /\ overflow /\ overflow_q => rx_error
    /\ lost => overflow /\ fsm \in {"RxPWriteData", "RxPWriteTbit"}

WriteInv == Types /\ InPhase /\ Flagged /\ LossReported

-----------------------------------------------------------------------------
(***************************************************************************)
(* The target FSM, as far as private writes are concerned.                 *)
(***************************************************************************)
\* Where each state of a write is entered from, without a STOP.
Entered(e) ==
    /\ fsm' = "RxPWriteData" =>
          \/ fsm = "RxPWriteData" /\ ~e.start /\ ~e.done
          \/ fsm \in AckStates \union {"RxPWriteTbit"} /\ e.done
    /\ fsm' = "RxPWriteTbit" =>
          \/ fsm = "RxPWriteTbit" /\ ~e.done
          \/ fsm = "RxPWriteData" /\ e.done
    /\ fsm' = "RxFByte" => e.start \/ (fsm = "RxFByte" /\ ~e.done)
    /\ fsm' = "RxSByte" => \/ fsm = "TxAckFByte" /\ e.done
                           \/ fsm = "RxSByte" /\ ~e.done
    /\ fsm' = "RxSByteRepeated" => e.start \/ (fsm = "RxSByteRepeated" /\ ~e.done)
    /\ fsm' \in CheckStates => fsm \in {"RxFByte", "RxSByteRepeated"} /\ e.done
    /\ fsm' \in AckStates => fsm \in CheckStates \/ (fsm \in AckStates /\ ~e.done)
    /\ fsm = "RxPWriteTbit" => fsm' \in {"RxPWriteData", "RxPWriteTbit"}
    /\ fsm = "RxPWriteData" =>
          fsm' = IF e.start THEN "RxFByte" ELSE IF e.done THEN "RxPWriteTbit"
                 ELSE "RxPWriteData"

LEMMA Inputs ==
    ASSUME NEW e
    PROVE  /\ ~fsm_in(e).in_hdr /\ ~fsm_in(e).ccc_next /\ ~fsm_in(e).ccc_done
           /\ ~fsm_in(e).hdr_exit
           /\ fsm_in(e).start = e.start /\ fsm_in(e).stop = e.stop
           /\ fsm_in(e).rx_done <=> e.done /\ (fsm_rx_byte \/ fsm_rx_bit)
           /\ fsm_in(e).tx_done <=> e.done /\ fsm_tx_bit
BY DEF fsm_in, Quiet

LEMMA FsmWrites ==
    ASSUME fsm \in FsmStates, NEW e, FsmStep(fsm_in(e))
    PROVE  /\ fsm' \in FsmStates /\ fsm' = fsm_next(e)
           /\ e.stop => fsm' \in {"Idle", "WaitHDRExitOrIdle"}
           /\ e.stop /\ fsm # "WaitHDRExitOrIdle" => fsm' = "Idle"
           /\ ~e.stop => Entered(e)
<1> DEFINE i == fsm_in(e)
<1>1. fsm' = state_d(i) /\ fsm' = fsm_next(e)
  BY DEF FsmStep, fsm_next
<1>2. /\ ~i.in_hdr /\ ~i.ccc_next /\ ~i.ccc_done /\ ~i.hdr_exit
      /\ i.start = e.start /\ i.stop = e.stop
      /\ i.rx_done <=> e.done /\ (fsm_rx_byte \/ fsm_rx_bit)
      /\ i.tx_done <=> e.done /\ fsm_tx_bit
  BY Inputs
<1> HIDE DEF i
<1> USE DEF FsmStates, ByteStates, CheckStates, AckStates, fsm_rx_byte, fsm_rx_bit,
        fsm_tx_bit
<1>3. CASE fsm \in {"CheckFByte", "TxAckFByte", "RxSByte", "RxSByteRepeated",
                    "CheckSByte", "TxAckSByte"}
  <2>1. Transition(i) = OnHeader(i)
    BY <1>3 DEF Transition
  <2> QED BY <1>1, <1>2, <1>3, <2>1 DEF state_d, OnHeader, DataLoop, Entered
<1>4. CASE fsm \in {"RxPWriteData", "RxPWriteTbit", "TxPReadData",
                    "TxPReadTbit"}
  <2>1. Transition(i) = OnData(i)
    BY <1>4 DEF Transition
  <2> QED BY <1>1, <1>2, <1>4, <2>1 DEF state_d, OnData, Entered
<1>5. CASE fsm \in {"Idle", "RxFByte", "Wait", "DoIBI", "DoneIBI", "DoCCC",
                    "DoneCCC", "DoRstAction", "HDRMode", "WaitHDRExitOrIdle"}
  <2>1. Transition(i) = OnControl(i)
    BY <1>5 DEF Transition
  <2> QED BY <1>1, <1>2, <1>5, <2>1 DEF state_d, OnControl, Entered
<1> QED BY <1>3, <1>4, <1>5

-----------------------------------------------------------------------------
(***************************************************************************)
(* One clock of the latches: e is what happens on the bus, not during a    *)
(* T-bit unless it ends, and not in the clock after another event.         *)
(***************************************************************************)
LEMMA FlaggedStep ==
    ASSUME Types, Flagged, NEW e, Clock(e),
           {e.start, e.stop, e.done} \subseteq BOOLEAN,
           fsm = "RxPWriteTbit" => ~e.start /\ ~e.stop,
           e.start \/ e.stop \/ e.done => calm # 0,
           calm' # 0 => ~e.start /\ ~e.stop /\ ~e.done
    PROVE  Flagged' /\ LossReported'
<1> DEFINE blocked == rx_valid /\ ~sink_ready
           ends == transfer_ended(e)
<1>1. /\ fsm' \in FsmStates /\ fsm' = fsm_next(e)
      /\ e.stop => fsm' \in {"Idle", "WaitHDRExitOrIdle"}
      /\ e.stop /\ fsm # "WaitHDRExitOrIdle" => fsm' = "Idle"
      /\ ~e.stop => Entered(e)
  BY FsmWrites DEF Clock, Types
<1>2. ends <=> fsm = "RxPWriteData" /\ fsm' \in {"RxFByte", "Idle"}
  BY <1>1 DEF transfer_ended
<1>3. overflow' <=> \/ fsm' = "RxPWriteData" /\ blocked
                    \/ overflow /\ fsm # "Idle" /\ fsm' \notin {"RxFByte", "Idle"}
  BY <1>1 DEF Clock, Latches, Overflow
<1>4. /\ overflow_q' = overflow
      /\ rx_valid' /\ fsm # "RxPWriteTbit" => blocked
  BY DEF Clock, Latches, accepted
<1>5. /\ transfer_ended_q' <=> ends
      /\ overflow /\ ~overflow_q => rx_error'
      /\ rx_error /\ ~transfer_ended_q => rx_error'
  BY DEF Clock, Descriptor, rx_overflow_err
<1>6. /\ lost' <=> ~ends /\ (lost \/ (rx_valid /\ e.done /\ fsm = "RxPWriteData"))
      /\ ends => (lost_q' <=> lost \/ rx_valid)
  BY DEF Clock
<1> HIDE DEF blocked, ends
<1>7. ends => e.start \/ e.stop
  BY <1>1, <1>2 DEF Entered
<1>8. fsm' = "RxPWriteData" /\ calm' # 0 /\ rx_valid' => overflow'
  BY <1>1, <1>3, <1>4 DEF Entered
<1>9. fsm' \in {"RxFByte", "Idle"} => ~overflow'
  BY <1>3
<1>10. transfer_ended_q' => fsm' \in {"RxFByte", "Idle"}
  BY <1>2, <1>5
<1>11. overflow' /\ overflow_q' => rx_error'
  BY <1>4, <1>5 DEF Flagged, Types
<1>12. lost' => overflow' /\ fsm' \in {"RxPWriteData", "RxPWriteTbit"}
  <2>1. CASE lost
    BY <1>1, <1>2, <1>3, <1>6, <2>1 DEF Flagged, Entered
  <2>2. CASE rx_valid /\ e.done /\ fsm = "RxPWriteData"
    BY <1>1, <1>2, <1>3, <1>6, <2>2 DEF Flagged, Entered
  <2> QED BY <1>6, <2>1, <2>2
<1>13. LossReported'
  <2> SUFFICES ASSUME transfer_ended_q', lost_q' PROVE rx_error'
    BY DEF LossReported
  <2>1. fsm = "RxPWriteData" /\ calm # 0 /\ (lost \/ rx_valid)
    BY <1>2, <1>5, <1>6, <1>7
  <2>2. overflow /\ ~transfer_ended_q
    BY <2>1 DEF Flagged
  <2> QED BY <1>5, <2>2 DEF Flagged
<1> QED BY <1>8, <1>9, <1>10, <1>11, <1>12, <1>13 DEF Flagged

LEMMA TypesStep ==
    ASSUME Types, NEW e, Clock(e), calm' \in Nat
    PROVE  Types'
<1>1. fsm' \in FsmStates
  BY FsmWrites DEF Types, Clock
<1>2. {rx_valid', overflow', overflow_q', rx_error', transfer_ended_q'} \subseteq BOOLEAN
  BY DEF Types, Clock, Latches, Overflow, Descriptor, transfer_ended
<1>3. {lost', lost_q'} \subseteq BOOLEAN
  BY DEF Types, Clock
<1> QED BY <1>1, <1>2, <1>3 DEF Types

-----------------------------------------------------------------------------
(***************************************************************************)
(* The steps of the controller.                                            *)
(***************************************************************************)
LEMMA PhaseStep ==
    ASSUME Types, InPhase, NEW e, Clock(e),
           \/ ~e.start /\ ~e.stop /\ ~e.done /\ phase' = phase
           \/ /\ e.done /\ ~e.start /\ ~e.stop /\ calm # 0 /\ calm' = 0
              /\ \/ phase = "Byte" /\ phase' = "Bit"
                 \/ phase = "Bit" /\ phase' = "Byte"
           \/ e.start /\ ~e.stop /\ ~e.done /\ phase \in {"Quiet", "Byte"} /\ phase' = "Byte"
           \/ e.stop /\ ~e.start /\ ~e.done
    PROVE  InPhase'
<1>1. /\ e.stop => fsm' \in {"Idle", "WaitHDRExitOrIdle"}
      /\ ~e.stop => Entered(e)
  BY FsmWrites DEF Types, Clock
<1> USE DEF InPhase, ByteStates, CheckStates, AckStates
<1>2. CASE e.stop
  BY <1>1, <1>2
<1>3. CASE ~e.start /\ ~e.stop /\ ~e.done /\ phase' = phase
  BY <1>1, <1>3 DEF Entered
<1>4. CASE /\ e.done /\ ~e.start /\ ~e.stop /\ calm # 0 /\ calm' = 0
           /\ phase = "Byte" /\ phase' = "Bit"
  BY <1>1, <1>4 DEF Entered
<1>5. CASE /\ e.done /\ ~e.start /\ ~e.stop /\ calm # 0 /\ calm' = 0
           /\ phase = "Bit" /\ phase' = "Byte"
  BY <1>1, <1>5 DEF Entered
<1>6. CASE /\ e.start /\ ~e.stop /\ ~e.done /\ phase \in {"Quiet", "Byte"}
           /\ phase' = "Byte"
  BY <1>1, <1>6 DEF Entered
<1> QED BY <1>2, <1>3, <1>4, <1>5, <1>6

LEMMA InitInv == Init => WriteInv
<1> SUFFICES ASSUME Init PROVE WriteInv
  OBVIOUS
<1>1. /\ fsm = "Idle" /\ calm = LongGap /\ phase = "Quiet"
      /\ ~rx_valid /\ ~overflow /\ ~overflow_q /\ ~rx_error /\ ~transfer_ended_q
      /\ ~lost /\ ~lost_q
  BY DEF Init, FsmInit
<1>2. {rx_valid, overflow, overflow_q, rx_error, transfer_ended_q, lost, lost_q}
          \subseteq BOOLEAN
  BY DEF Init
<1> QED BY <1>1, <1>2, GapAssumption DEF WriteInv, Types, InPhase, Flagged,
           LossReported, FsmStates, ByteStates, CheckStates, AckStates

\* A step is a clock with its event, and the phase moves with the event.
LEMMA Steps ==
    ASSUME Types, InPhase, Next
    PROVE  \E e :
              /\ Clock(e) /\ {e.start, e.stop, e.done} \subseteq BOOLEAN
              /\ calm' \in Nat
              /\ e.start \/ e.stop \/ e.done => calm # 0 /\ calm' = 0
              /\ e.start \/ e.stop => phase \in {"Quiet", "Byte"}
              /\ \/ ~e.start /\ ~e.stop /\ ~e.done /\ phase' = phase
                 \/ /\ e.done /\ ~e.start /\ ~e.stop
                    /\ \/ phase = "Byte" /\ phase' = "Bit"
                       \/ phase = "Bit" /\ phase' = "Byte"
                 \/ e.start /\ ~e.stop /\ ~e.done /\ phase' = "Byte"
                 \/ e.stop /\ ~e.start /\ ~e.done
<1> USE GapAssumption DEF Types
<1>1. CASE Tick
  <2>1. Clock(NoEvent) /\ calm' \in Nat /\ phase' = phase
    BY <1>1 DEF Tick
  <2>2. ~NoEvent.start /\ ~NoEvent.stop /\ ~NoEvent.done
        /\ {NoEvent.start, NoEvent.stop, NoEvent.done} \subseteq BOOLEAN
    BY DEF NoEvent
  <2> QED BY <2>1, <2>2
<1>2. CASE START
  <2> DEFINE e == [NoEvent EXCEPT !.start = TRUE]
  <2>1. /\ Clock(e) /\ calm # 0 /\ calm' = 0
        /\ phase = "Quiet" /\ phase' = "Byte"
    BY <1>2 DEF START
  <2>2. e.start = TRUE /\ e.stop = FALSE /\ e.done = FALSE
    BY DEF NoEvent
  <2> HIDE DEF e
  <2> QED BY <2>1, <2>2
<1>3. CASE ByteEnd
  <2> DEFINE e == [NoEvent EXCEPT !.done = TRUE, !.byte = <<xfr.tag, xfr.k>>,
                                  !.hdr = [addr |-> xfr.plan.addr, rnw |-> FALSE]]
  <2>1. /\ Clock(e) /\ calm # 0 /\ calm' = 0
        /\ phase = "Byte" /\ phase' = "Bit"
    BY <1>3 DEF ByteEnd
  <2>2. e.start = FALSE /\ e.stop = FALSE /\ e.done = TRUE
    BY DEF NoEvent
  <2> HIDE DEF e
  <2> QED BY <2>1, <2>2
<1>4. CASE BitEnd
  <2> DEFINE e == [NoEvent EXCEPT !.done = TRUE,
                                  !.perr = xfr.k # 0 /\ xfr.k = xfr.plan.bad]
  <2>1. /\ Clock(e) /\ calm # 0 /\ calm' = 0
        /\ phase = "Bit" /\ phase' = "Byte"
    BY <1>4 DEF BitEnd
  <2>2. e.start = FALSE /\ e.stop = FALSE /\ e.done = TRUE
    BY DEF NoEvent
  <2> HIDE DEF e
  <2> QED BY <2>1, <2>2
<1>5. CASE RepeatedStart
  <2> DEFINE e == [NoEvent EXCEPT !.start = TRUE]
  <2>1. /\ Clock(e) /\ calm # 0 /\ calm' = 0
        /\ phase = "Byte" /\ phase' = "Byte"
    BY <1>5 DEF RepeatedStart, Over
  <2>2. e.start = TRUE /\ e.stop = FALSE /\ e.done = FALSE
    BY DEF NoEvent
  <2> HIDE DEF e
  <2> QED BY <2>1, <2>2
<1>6. CASE STOP
  <2> DEFINE e == [NoEvent EXCEPT !.stop = TRUE]
  <2>1. Clock(e) /\ calm # 0 /\ calm' = 0 /\ phase = "Byte"
    BY <1>6 DEF STOP, Over
  <2>2. e.start = FALSE /\ e.stop = TRUE /\ e.done = FALSE
    BY DEF NoEvent
  <2> HIDE DEF e
  <2> QED BY <2>1, <2>2
<1> QED BY <1>1, <1>2, <1>3, <1>4, <1>5, <1>6 DEF Next

LEMMA WriteInvStep == WriteInv /\ [Next]_vars => WriteInv'
<1> SUFFICES ASSUME WriteInv, [Next]_vars PROVE WriteInv'
  OBVIOUS
<1>1. CASE Next
  <2>1. Types /\ InPhase /\ Flagged
    BY DEF WriteInv
  <2>2. PICK e :
           /\ Clock(e) /\ {e.start, e.stop, e.done} \subseteq BOOLEAN
           /\ calm' \in Nat
           /\ e.start \/ e.stop \/ e.done => calm # 0 /\ calm' = 0
           /\ e.start \/ e.stop => phase \in {"Quiet", "Byte"}
           /\ \/ ~e.start /\ ~e.stop /\ ~e.done /\ phase' = phase
              \/ /\ e.done /\ ~e.start /\ ~e.stop
                 /\ \/ phase = "Byte" /\ phase' = "Bit"
                    \/ phase = "Bit" /\ phase' = "Byte"
              \/ e.start /\ ~e.stop /\ ~e.done /\ phase' = "Byte"
              \/ e.stop /\ ~e.start /\ ~e.done
    BY <1>1, <2>1, Steps
  <2>3. Types'
    BY <2>1, <2>2, TypesStep
  <2>4. InPhase'
    BY <2>1, <2>2, PhaseStep
  <2>5. fsm = "RxPWriteTbit" => ~e.start /\ ~e.stop
    BY <2>1, <2>2 DEF InPhase
  <2>6. Flagged' /\ LossReported'
    BY <2>1, <2>2, <2>5, FlaggedStep
  <2> QED BY <2>3, <2>4, <2>6 DEF WriteInv
<1>2. CASE UNCHANGED vars
  BY <1>2 DEF WriteInv, Types, InPhase, Flagged, LossReported, vars, fsmVars,
     latches, descVars, bus, history
<1> QED BY <1>1, <1>2

-----------------------------------------------------------------------------
\* The inductive invariant holds in every behaviour of the private write path
\* (the latches of i3c_target_fsm.sv, descriptor_rx.sv, the order of bus events).
THEOREM WriteInvariance == Spec => []WriteInv
<1>1. Init => WriteInv
  BY InitInv
<1>2. WriteInv /\ [Next]_vars => WriteInv'
  BY WriteInvStep
<1> QED BY <1>1, <1>2, PTL DEF Spec

\* The descriptor of a message of which bytes found the converter full carries
\* the error (rx_overflow_err_o, rx_error).
THEOREM LossIsReported == Spec => []LossReported
<1>1. WriteInv => LossReported
  BY DEF WriteInv
<1> QED BY <1>1, WriteInvariance, PTL
=============================================================================
