---------------------------- MODULE GswRx_proofs ----------------------------
(***************************************************************************)
(* Proofs about the receive ring and the NAPI poll, for every ring size,   *)
(* quota, interrupt delay and any number of frames and closes.             *)
(***************************************************************************)
EXTENDS GswRx, TLAPS

\* FSSD and rxring.cur_index are as far apart as frames are in the ring; they
\* meet when it is empty and when it is full.
IndexInv ==
  /\ arrived - passed \in 0 .. RfdNum
  /\ Ahead(fssd) = IF arrived - passed = RfdNum THEN 0 ELSE arrived - passed
  /\ filling => arrived > passed

RingInv == RingWindow /\ IndexInv

\* The poll runs while RX_SCHED is set by the handler, which disables FSRC,
\* and not while close or open hold RX_SCHED.
HandshakeInv ==
  /\ PollHandshake
  /\ pc # "idle" => link \in {"up", "noisr"}
  /\ sched /\ link \in {"up", "noisr"} => fsrcOff
  /\ link = "starting" => ~sched

\* An FSRC is latched, or will be.
Pending == fsrc \/ held > 0 \/ filling

\* A complete frame the poll has not seen has its FSRC pending from the read
\* of FSSD to enable_irq.
WakeupInv ==
  /\ pc = "receive" /\ work_done = 0 /\ todo = 0 /\ cown[cur_index] = 1 => Pending
  /\ pc = "received" /\ work_done = 0 /\ cown[cur_index] = 1 /\ mishaps = {} => Pending
  /\ pc = "completed" /\ cown[cur_index] = 1 /\ mishaps = {} => Pending
  /\ NoLostWakeup

\* This poll, or the restart that follows it, has taken frames from the ring.
Taken ==
  \/ pc = "restart"
  \/ pc \in {"receive", "received"} /\ work_done > 0

\* A stopped engine is remembered by FSQF or is_qf until the poll starts it
\* again, and the ring stays full until the poll takes a frame.
StallInv ==
  /\ link = "up" /\ "full" \notin mishaps => since - passed < RfdNum
  /\ link = "starting" /\ ~dma => arrived - passed = RfdNum
  /\ link = "up" /\ ~dma /\ "full" \notin mishaps
       => /\ fsqf \/ is_qf \/ pc = "restart"
          /\ ~Taken => arrived - passed = RfdNum

-----------------------------------------------------------------------------
(* Types *)

\* The state after star_gsw_buffer_alloc is well typed, and every step keeps
\* the indices within the ring and the flags and counters in their types.
LEMMA RxTypeCorrect == Spec => []TypeOK
<1> USE RfdNumAssumption DEF TypeOK
<1>1. Init => TypeOK
  <2> SUFFICES ASSUME Init PROVE TypeOK
    OBVIOUS
  <2>1. /\ filling \in BOOLEAN /\ dma \in BOOLEAN /\ fsrc \in BOOLEAN /\ fsqf \in BOOLEAN
        /\ fsrcOff \in BOOLEAN /\ is_qf \in BOOLEAN /\ sched \in BOOLEAN
    BY DEF Init
  <2> QED
    BY <2>1 DEF Init, Slots, NoFrame
<1>2. TypeOK /\ [Next]_vars => TypeOK'
  <2> SUFFICES ASSUME TypeOK, [Next]_vars PROVE TypeOK'
    OBVIOUS
  <2> USE DEF engineVars, pollVars, linkVars
  <2>1. CASE EngineFill
    <3>1. fssd' \in Slots
      BY <2>1 DEF EngineFill, NextSlot, Slots
    <3>2. frame' \in [Slots -> Nat \cup {NoFrame}]
      BY <2>1 DEF EngineFill
    <3> QED
      BY <2>1, <3>1, <3>2 DEF EngineFill
  <2>2. CASE EngineDone
    <3>1. cown' \in [Slots -> {0, 1}]
      <4>1. PrevSlot(fssd) \in Slots
        BY DEF PrevSlot, Slots
      <4> QED
        BY <2>2, <4>1 DEF EngineDone
    <3>2. /\ filling' = FALSE
          /\ held' = held + 1
          /\ UNCHANGED <<dma, fsrc, fsqf, fsrcOff, is_qf, sched, frame, fssd, arrived>>
          /\ UNCHANGED <<pollVars, linkVars>>
      BY <2>2 DEF EngineDone
    <3>3. filling' \in BOOLEAN
      BY <3>2
    <3> QED
      BY <3>1, <3>2, <3>3
  <2>3. CASE EngineInterrupt
    BY <2>3 DEF EngineInterrupt
  <2>4. CASE EngineFull
    BY <2>4 DEF EngineFull
  <2>5. CASE ReceiveIsr
    BY <2>5 DEF ReceiveIsr
  <2>6. CASE FsqfIsr
    BY <2>6 DEF FsqfIsr
  <2>7. CASE PollEnter
    <3>1. todo' \in Nat
      BY <2>7 DEF PollEnter, RxCount, Slots
    <3> QED
      BY <2>7, <3>1 DEF PollEnter
  <2>8. CASE ReceiveFrame
    <3>1. cur_index' \in Slots
      BY <2>8 DEF ReceiveFrame, NextSlot, Slots
    <3>2. cown' \in [Slots -> {0, 1}]
      BY <2>8 DEF ReceiveFrame
    <3>3. lastPassed' \in Nat \cup {NoFrame} /\ todo' \in Nat
      BY <2>8 DEF ReceiveFrame, GetRfdBuff
    <3> QED
      BY <2>8, <3>1, <3>2, <3>3 DEF ReceiveFrame
  <2>9. CASE ReceiveEnd
    BY <2>9 DEF ReceiveEnd
  <2>10. CASE ReceiveNoMem
    BY <2>10 DEF ReceiveNoMem
  <2>11. CASE PollAgain
    BY <2>11 DEF PollAgain
  <2>12. CASE PollRestart
    BY <2>12 DEF PollRestart
  <2>13. CASE PollComplete
    BY <2>13 DEF PollComplete
  <2>14. CASE PollEnable
    BY <2>14 DEF PollEnable
  <2>15. CASE CloseIsr
    BY <2>15 DEF CloseIsr
  <2>16. CASE ClosePoll
    BY <2>16 DEF ClosePoll
  <2>17. CASE ClosePort
    BY <2>17 DEF ClosePort
  <2>18. CASE OpenStart
    BY <2>18 DEF OpenStart
  <2>19. CASE OpenIsr
    BY <2>19 DEF OpenIsr
  <2>20. CASE UNCHANGED vars
    BY <2>20 DEF vars
  <2> QED
    BY <2>1, <2>2, <2>3, <2>4, <2>5, <2>6, <2>7, <2>8, <2>9, <2>10, <2>11, <2>12, <2>13,
       <2>14, <2>15, <2>16, <2>17, <2>18, <2>19, <2>20 DEF Next, Engine, Isr, Poll,
       OpenClose
<1> QED
  BY <1>1, <1>2, PTL DEF Spec

-----------------------------------------------------------------------------
(* The ring *)

\* Two descriptors are never equally far ahead of rxring.cur_index.
LEMMA AheadIsInjective ==
  TypeOK => \A i, j \in Slots : Ahead(i) = Ahead(j) => i = j
BY RfdNumAssumption DEF TypeOK, Slots, Ahead

\* The empty ring of star_gsw_buffer_alloc is in order.
LEMMA InitRingInv == Init /\ TypeOK => RingInv
<1> USE RfdNumAssumption
<1> SUFFICES ASSUME Init, TypeOK PROVE RingInv
  OBVIOUS
<1>1. \A i \in Slots : Ahead(i) = i
  BY DEF Init, Ahead, Slots
<1>2. Complete = 0
  BY DEF Init, Complete
<1>3. RingWindow
  BY <1>1, <1>2 DEF Init, RingWindow, Slots
<1>4. IndexInv
  BY DEF Init, IndexInv, Ahead, Slots
<1> QED
  BY <1>3, <1>4 DEF RingInv

\* A step that leaves the ring, its indices and the two counts alone keeps it
\* in order: the handlers, the ends of a poll, open and close are such steps.
LEMMA RingKept ==
  ASSUME RingInv, TypeOK',
         UNCHANGED <<cown, frame, fssd, filling, arrived, cur_index, passed>>
  PROVE  RingInv'
<1>1. \A i : Ahead(i)' = Ahead(i)
  BY DEF Ahead
<1>2. Complete' = Complete
  BY DEF Complete
<1>3. RingWindow'
  BY <1>1, <1>2 DEF RingInv, RingWindow
<1>4. IndexInv'
  BY <1>1 DEF RingInv, IndexInv
<1> QED
  BY <1>3, <1>4 DEF RingInv

\* The engine fills the first descriptor past the frames in the ring and
\* writes its COWN bit; the poll takes the first frame: each keeps the ring
\* in order.
LEMMA NextRingInv == RingInv /\ TypeOK' /\ [Next]_vars => RingInv'
<1> SUFFICES ASSUME RingInv, TypeOK', [Next]_vars PROVE RingInv'
  OBVIOUS
<1> USE RfdNumAssumption
<1>0. TypeOK /\ RingWindow /\ IndexInv
  BY DEF RingInv, RingWindow
<1>1. CASE EngineFill
  <2>1. arrived - passed < RfdNum /\ Ahead(fssd) = arrived - passed
    BY <1>0, <1>1 DEF EngineFill, TypeOK, RingWindow, IndexInv, Slots, Ahead, Complete
  <2>2. \A i \in Slots : i # fssd => Ahead(i) # arrived - passed
    BY <1>0, <2>1, AheadIsInjective DEF TypeOK
  <2>3. \A i \in Slots : Ahead(i)' = Ahead(i)
    BY <1>1 DEF EngineFill, pollVars, Ahead
  <2>4. Complete' = Complete
    BY <1>0, <1>1 DEF EngineFill, Complete, TypeOK
  <2>5. RingWindow'
    <3> SUFFICES ASSUME NEW i \in Slots
                 PROVE  /\ cown'[i] = 1 <=> Ahead(i)' < Complete' - passed'
                        /\ Ahead(i)' < arrived' - passed' => frame'[i] = passed' + Ahead(i)'
      BY DEF RingWindow
    <3>1. cown'[i] = 1 <=> Ahead(i)' < Complete' - passed'
      BY <1>0, <1>1, <2>3, <2>4 DEF EngineFill, RingWindow, pollVars
    <3>2. ASSUME Ahead(i)' < arrived' - passed' PROVE frame'[i] = passed' + Ahead(i)'
      <4>0. Ahead(i) \in Int
        BY <1>0 DEF TypeOK, Slots, Ahead
      <4>1. CASE i = fssd
        BY <1>0, <1>1, <2>1, <2>3, <4>1 DEF EngineFill, TypeOK, pollVars
      <4>2. CASE i # fssd
        <5>1. Ahead(i) < arrived - passed
          BY <1>0, <1>1, <2>2, <2>3, <3>2, <4>0, <4>2 DEF EngineFill, TypeOK, pollVars
        <5> QED
          BY <1>0, <1>1, <2>3, <4>2, <5>1 DEF EngineFill, TypeOK, RingWindow, pollVars
      <4> QED
        BY <4>1, <4>2
    <3> QED
      BY <3>1, <3>2
  <2>6. IndexInv'
    BY <1>0, <1>1, <2>1 DEF EngineFill, TypeOK, IndexInv, Slots, Ahead, NextSlot, pollVars
  <2> QED
    BY <2>5, <2>6 DEF RingInv
<1>2. CASE EngineDone
  <2>1. \A i : Ahead(i)' = Ahead(i)
    BY <1>2 DEF EngineDone, pollVars, Ahead
  <2>2. PrevSlot(fssd) \in Slots /\ Ahead(PrevSlot(fssd)) = arrived - passed - 1
    BY <1>0, <1>2 DEF EngineDone, TypeOK, IndexInv, Slots, Ahead, PrevSlot
  <2>3. \A i \in Slots : i # PrevSlot(fssd) => Ahead(i) # arrived - passed - 1
    BY <1>0, <2>2, AheadIsInjective
  <2>4. Complete = arrived - 1 /\ Complete' = arrived
    BY <1>2 DEF EngineDone, Complete
  <2>5. RingWindow'
    <3> SUFFICES ASSUME NEW i \in Slots
                 PROVE  /\ cown'[i] = 1 <=> Ahead(i)' < Complete' - passed'
                        /\ Ahead(i)' < arrived' - passed' => frame'[i] = passed' + Ahead(i)'
      BY DEF RingWindow
    <3>0. Ahead(i) \in Int
      BY <1>0 DEF TypeOK, Slots, Ahead
    <3>1. cown'[i] = 1 <=> Ahead(i)' < Complete' - passed'
      BY <1>0, <1>2, <2>1, <2>2, <2>3, <2>4, <3>0 DEF EngineDone, TypeOK, RingWindow, pollVars
    <3>2. Ahead(i)' < arrived' - passed' => frame'[i] = passed' + Ahead(i)'
      BY <1>0, <1>2, <2>1 DEF EngineDone, RingWindow, pollVars
    <3> QED
      BY <3>1, <3>2
  <2>6. IndexInv'
    BY <1>0, <1>2, <2>1 DEF EngineDone, IndexInv, pollVars
  <2> QED
    BY <2>5, <2>6 DEF RingInv
<1>3. CASE ReceiveFrame
  <2>0. /\ cown' = [cown EXCEPT ![cur_index] = 0]
        /\ cur_index' = NextSlot(cur_index)
        /\ passed' = passed + 1
        /\ UNCHANGED engineVars
    BY <1>3 DEF ReceiveFrame
  <2> USE DEF engineVars
  <2>1. 0 < Complete - passed /\ Complete' = Complete /\ Complete \in Int
    <3>1. cown[cur_index] = 1 /\ Ahead(cur_index) = 0
      BY <1>0, <1>3 DEF ReceiveFrame, Owned, TypeOK, Slots, Ahead
    <3> QED
      BY <1>0, <2>0, <3>1 DEF TypeOK, RingWindow, Complete
  <2>2. arrived - passed > 0 /\ (filling => arrived - passed > 1)
    BY <1>0, <2>1 DEF TypeOK, Complete
  <2>3. ASSUME NEW i \in Slots, i # cur_index
        PROVE  Ahead(i) \in 1 .. RfdNum - 1 /\ Ahead(i)' = Ahead(i) - 1
    BY <1>0, <2>0, <2>3 DEF TypeOK, Slots, Ahead, NextSlot
  <2>4. ASSUME NEW i \in Slots, i = cur_index
        PROVE  Ahead(i)' = RfdNum - 1
    BY <1>0, <2>0, <2>4 DEF TypeOK, Slots, Ahead, NextSlot
  <2>5. Complete - passed <= RfdNum
    BY <1>0 DEF TypeOK, IndexInv, Complete
  <2>6. RingWindow'
    <3> SUFFICES ASSUME NEW i \in Slots
                 PROVE  /\ cown'[i] = 1 <=> Ahead(i)' < Complete' - passed'
                        /\ Ahead(i)' < arrived' - passed' => frame'[i] = passed' + Ahead(i)'
      BY DEF RingWindow
    <3>1. CASE i = cur_index
      <4>1. cown'[i] = 0
        BY <1>0, <2>0, <3>1 DEF TypeOK
      <4>2. Ahead(i)' = RfdNum - 1
        BY <2>4, <3>1
      <4> QED
        BY <1>0, <2>0, <2>1, <2>5, <4>1, <4>2 DEF TypeOK, IndexInv
    <3>2. CASE i # cur_index
      <4>1. cown'[i] = cown[i]
        BY <1>0, <2>0, <3>2 DEF TypeOK
      <4>2. Ahead(i) \in Int /\ Ahead(i)' = Ahead(i) - 1
        BY <2>3, <3>2
      <4>3. /\ Ahead(i)' < Complete' - passed' <=> Ahead(i) < Complete - passed
            /\ Ahead(i)' < arrived' - passed' <=> Ahead(i) < arrived - passed
            /\ passed' + Ahead(i)' = passed + Ahead(i)
        BY <1>0, <2>0, <2>1, <4>2 DEF TypeOK
      <4> QED
        BY <1>0, <2>0, <4>1, <4>3 DEF RingWindow
    <3> QED
      BY <3>1, <3>2
  <2>7. IndexInv'
    <3>1. arrived' - passed' = arrived - passed - 1 /\ arrived - passed \in 1 .. RfdNum
      BY <1>0, <2>0, <2>2 DEF TypeOK, IndexInv
    <3>2. Ahead(fssd)' = arrived - passed - 1
      <4>0. fssd' = fssd /\ fssd \in Slots
        BY <1>0, <2>0 DEF TypeOK
      <4>1. CASE fssd = cur_index
        <5>1. arrived - passed = RfdNum
          BY <1>0, <2>2, <4>1 DEF TypeOK, IndexInv, Slots, Ahead
        <5>2. \A i \in Slots : i = cur_index => Ahead(i)' = RfdNum - 1
          BY <2>4
        <5> QED
          BY <4>0, <4>1, <5>1, <5>2
      <4>2. CASE fssd # cur_index
        <5>1. Ahead(fssd) = arrived - passed
          BY <1>0, <2>3, <4>0, <4>2 DEF IndexInv
        <5>2. \A i \in Slots : i # cur_index => Ahead(i)' = Ahead(i) - 1
          BY <2>3
        <5> QED
          BY <4>0, <4>2, <5>1, <5>2
      <4> QED
        BY <4>1, <4>2
    <3> QED
      BY <1>0, <2>0, <2>2, <3>1, <3>2 DEF TypeOK, IndexInv
  <2> QED
    BY <2>6, <2>7 DEF RingInv
<1>4. CASE EngineInterrupt \/ EngineFull \/ Isr
  BY <1>4, RingKept DEF EngineInterrupt, EngineFull, Isr, ReceiveIsr, FsqfIsr, engineVars, pollVars
<1>5. CASE PollEnter \/ ReceiveEnd \/ ReceiveNoMem
  BY <1>5, RingKept DEF PollEnter, ReceiveEnd, ReceiveNoMem, engineVars
<1>6. CASE PollAgain \/ PollRestart \/ PollComplete \/ PollEnable
  BY <1>6, RingKept DEF PollAgain, PollRestart, PollComplete, PollEnable, engineVars
<1>7. CASE OpenClose
  BY <1>7, RingKept DEF OpenClose, CloseIsr, ClosePoll, ClosePort, OpenStart, OpenIsr,
     engineVars, pollVars
<1>8. CASE UNCHANGED vars
  BY <1>8, RingKept DEF vars, engineVars, pollVars
<1> QED
  BY <1>1, <1>2, <1>3, <1>4, <1>5, <1>6, <1>7, <1>8 DEF Next, Engine, Poll

\* The ring and its indices agree in every reachable state.
LEMMA RxRingInvariant == Spec => []RingInv
<1> QED
  BY InitRingInv, NextRingInv, RxTypeCorrect, PTL DEF Spec

\* The CPU owns exactly the descriptors of the complete frames that
\* star_gsw_receive_packet has not passed on, oldest first, whatever the ring
\* size, the quota and the order of the engine's, the poll's and open's steps.
THEOREM RxRingWindow == Spec => []RingWindow
<1>1. RingInv => RingWindow
  BY DEF RingInv
<1> QED
  BY <1>1, RxRingInvariant, PTL

\* The receive ring implements the FIFO: the engine's fill enters a frame, a
\* turn of the receive loop takes the oldest one, no other step does either.
THEOREM RxImplementsFifo == Spec => FifoSpec
<1>1. Init => Fifo!FifoInit
  BY DEF Init, Fifo!FifoInit, NoFrame
<1>2. RingInv /\ [Next]_vars => [Fifo!FifoNext]_Fifo!fifoVars
  <2> SUFFICES ASSUME RingInv, [Next]_vars PROVE [Fifo!FifoNext]_Fifo!fifoVars
    OBVIOUS
  <2> USE RfdNumAssumption DEF Fifo!fifoVars
  <2>0. TypeOK /\ RingWindow /\ IndexInv
    BY DEF RingInv, RingWindow
  <2>1. CASE EngineFill
    <3>1. arrived - passed < RfdNum
      BY <2>0, <2>1 DEF EngineFill, TypeOK, RingWindow, IndexInv, Slots, Ahead, Complete
    <3> QED
      BY <2>1, <3>1 DEF EngineFill, pollVars, Fifo!FifoNext, Fifo!Enter
  <2>2. CASE ReceiveFrame
    <3>1. cown[cur_index] = 1 /\ Ahead(cur_index) = 0
      BY <2>0, <2>2 DEF ReceiveFrame, Owned, TypeOK, Slots, Ahead
    <3>2. passed < arrived /\ frame[cur_index] = passed
      BY <2>0, <3>1 DEF TypeOK, RingWindow, Complete
    <3> QED
      BY <2>2, <3>2 DEF ReceiveFrame, GetRfdBuff, engineVars, Fifo!FifoNext, Fifo!Leave
  <2>3. CASE EngineDone \/ EngineInterrupt \/ EngineFull \/ Isr
    BY <2>3 DEF EngineDone, EngineInterrupt, EngineFull, Isr, ReceiveIsr, FsqfIsr,
       engineVars, pollVars
  <2>4. CASE PollEnter \/ ReceiveEnd \/ ReceiveNoMem
    BY <2>4 DEF PollEnter, ReceiveEnd, ReceiveNoMem, engineVars
  <2>5. CASE PollAgain \/ PollRestart \/ PollComplete \/ PollEnable
    BY <2>5 DEF PollAgain, PollRestart, PollComplete, PollEnable, engineVars
  <2>6. CASE OpenClose \/ UNCHANGED vars
    BY <2>6 DEF OpenClose, CloseIsr, ClosePoll, ClosePort, OpenStart, OpenIsr,
       vars, engineVars, pollVars
  <2> QED
    BY <2>1, <2>2, <2>3, <2>4, <2>5, <2>6 DEF Next, Engine, Poll
<1> QED
  BY <1>1, <1>2, RxRingInvariant, PTL DEF Spec, FifoSpec, Fifo!FifoSpec

-----------------------------------------------------------------------------
(* The poll's handshake with the handler, and the wake-ups *)

\* Every step of the handlers, the poll, open and close keeps RX_SCHED and the
\* disabling of FSRC in step.
LEMMA RxHandshakeInvariant == Spec => []HandshakeInv
<1> USE DEF HandshakeInv, PollHandshake
<1>1. Init => HandshakeInv
  BY DEF Init
<1>2. TypeOK /\ HandshakeInv /\ [Next]_vars => HandshakeInv'
  <2> SUFFICES ASSUME TypeOK, HandshakeInv, [Next]_vars PROVE HandshakeInv'
    OBVIOUS
  <2> USE DEF pollVars, linkVars
  <2>1. CASE Engine
    BY <2>1 DEF Engine, EngineFill, EngineDone, EngineInterrupt, EngineFull
  <2>2. CASE Isr
    BY <2>2 DEF Isr, ReceiveIsr, FsqfIsr, FsrcDue, Installed
  <2>3. CASE PollEnter
    BY <2>3 DEF PollEnter, ProcessFree
  <2>4. CASE ReceiveFrame
    BY <2>4 DEF ReceiveFrame, ProcessFree
  <2>5. CASE ReceiveEnd
    BY <2>5 DEF ReceiveEnd, ProcessFree
  <2>6. CASE ReceiveNoMem
    BY <2>6 DEF ReceiveNoMem, ProcessFree
  <2>7. CASE PollAgain
    BY <2>7 DEF PollAgain, ProcessFree
  <2>8. CASE PollRestart
    BY <2>8 DEF PollRestart, ProcessFree
  <2>9. CASE PollComplete
    BY <2>9 DEF PollComplete, ProcessFree
  <2>10. CASE PollEnable
    BY <2>10 DEF PollEnable, ProcessFree
  <2>11. CASE CloseIsr
    BY <2>11 DEF CloseIsr, ProcessFree
  <2>12. CASE ClosePoll
    BY <2>12 DEF ClosePoll, ProcessFree
  <2>13. CASE ClosePort
    BY <2>13 DEF ClosePort, ProcessFree
  <2>14. CASE OpenStart
    BY <2>14 DEF OpenStart, ProcessFree
  <2>15. CASE OpenIsr
    BY <2>15 DEF OpenIsr, ProcessFree
  <2>16. CASE UNCHANGED vars
    BY <2>16 DEF vars
  <2> QED
    BY <2>1, <2>2, <2>3, <2>4, <2>5, <2>6, <2>7, <2>8, <2>9, <2>10, <2>11, <2>12, <2>13,
       <2>14, <2>15, <2>16 DEF Next, Poll, OpenClose
<1> QED
  BY <1>1, <1>2, RxTypeCorrect, PTL DEF Spec

\* netif_rx_complete always finds RX_SCHED set and enable_irq(FSRC) always
\* finds the interrupt disabled, also while star_gsw_close takes the handlers away.
THEOREM RxPollHandshake == Spec => []PollHandshake
<1>1. HandshakeInv => PollHandshake
  BY DEF HandshakeInv
<1> QED
  BY <1>1, RxHandshakeInvariant, PTL

\* A frame the poll has not seen keeps its FSRC pending.
LEMMA RxWakeupInvariant == Spec => []WakeupInv
<1> USE DEF WakeupInv, Pending, NoLostWakeup, PollComing
<1>1. Init => WakeupInv
  BY DEF Init
<1>2. TypeOK /\ TypeOK' /\ HandshakeInv /\ WakeupInv /\ [Next]_vars => WakeupInv'
  <2> SUFFICES ASSUME TypeOK, TypeOK', HandshakeInv, WakeupInv, [Next]_vars
               PROVE  WakeupInv'
    OBVIOUS
  <2> USE DEF engineVars, pollVars, linkVars
  <2>1. CASE EngineFill
    BY <2>1 DEF EngineFill, TypeOK
  <2>2. CASE EngineDone
    BY <2>2 DEF EngineDone, TypeOK
  <2>3. CASE EngineInterrupt
    BY <2>3 DEF EngineInterrupt, TypeOK
  <2>4. CASE EngineFull
    BY <2>4 DEF EngineFull, TypeOK
  <2>5. CASE ReceiveIsr
    BY <2>5 DEF ReceiveIsr, FsrcDue, Installed, HandshakeInv, PollHandshake, TypeOK
  <2>6. CASE FsqfIsr
    BY <2>6 DEF FsqfIsr, TypeOK
  <2>7. CASE PollEnter
    <3>1. todo' = 0 => cown[cur_index] = 0
      BY <2>7, RfdNumAssumption DEF PollEnter, RxCount, TypeOK, Slots
    <3> QED
      BY <2>7, <3>1 DEF PollEnter
  <2>8. CASE ReceiveFrame
    BY <2>8 DEF ReceiveFrame, TypeOK
  <2>9. CASE ReceiveEnd
    BY <2>9, QuotaAssumption DEF ReceiveEnd, Owned, TypeOK
  <2>10. CASE ReceiveNoMem
    BY <2>10 DEF ReceiveNoMem, TypeOK
  <2>11. CASE PollAgain
    BY <2>11 DEF PollAgain, HandshakeInv, PollHandshake, TypeOK
  <2>12. CASE PollRestart
    BY <2>12 DEF PollRestart, HandshakeInv, PollHandshake
  <2>13. CASE PollComplete
    BY <2>13 DEF PollComplete, TypeOK
  <2>14. CASE PollEnable
    BY <2>14 DEF PollEnable, TypeOK
  <2>15. CASE CloseIsr
    BY <2>15 DEF CloseIsr, TypeOK
  <2>16. CASE ClosePoll
    BY <2>16 DEF ClosePoll, TypeOK
  <2>17. CASE ClosePort
    BY <2>17 DEF ClosePort, TypeOK
  <2>18. CASE OpenStart
    BY <2>18 DEF OpenStart, TypeOK
  <2>19. CASE OpenIsr
    BY <2>19 DEF OpenIsr, ProcessFree, TypeOK
  <2>20. CASE UNCHANGED vars
    BY <2>20 DEF vars
  <2> QED
    BY <2>1, <2>2, <2>3, <2>4, <2>5, <2>6, <2>7, <2>8, <2>9, <2>10, <2>11, <2>12, <2>13,
       <2>14, <2>15, <2>16, <2>17, <2>18, <2>19, <2>20 DEF Next, Engine, Isr, Poll,
       OpenClose
<1> QED
  BY <1>1, <1>2, RxTypeCorrect, RxHandshakeInvariant, PTL DEF Spec

\* The edge of FSRC is never lost between the poll's last look at the ring and
\* enable_irq: a frame that came to an open interface is going to be polled.
THEOREM RxNoLostWakeup == Spec => []NoLostWakeup
<1>1. WakeupInv => NoLostWakeup
  BY DEF WakeupInv
<1> QED
  BY <1>1, RxWakeupInvariant, PTL

-----------------------------------------------------------------------------
(* The stopped engine *)

\* Why a stopped engine is not forgotten.
LEMMA RxStallInvariant == Spec => []StallInv
<1> USE DEF StallInv, Taken
<1>1. Init => StallInv
  BY RfdNumAssumption DEF Init
<1>2. TypeOK /\ RingInv /\ HandshakeInv /\ StallInv /\ [Next]_vars => StallInv'
  <2> SUFFICES ASSUME TypeOK, RingInv, HandshakeInv, StallInv, [Next]_vars
               PROVE  StallInv'
    OBVIOUS
  <2> USE RfdNumAssumption DEF engineVars, pollVars, linkVars
  <2>1. CASE EngineFill
    BY <2>1 DEF EngineFill, TypeOK
  <2>2. CASE EngineDone
    BY <2>2 DEF EngineDone, TypeOK
  <2>3. CASE EngineInterrupt
    BY <2>3 DEF EngineInterrupt, TypeOK
  <2>4. CASE EngineFull
    <3>1. arrived - passed = RfdNum
      BY <2>4 DEF EngineFull, RingInv, RingWindow, IndexInv, Complete, TypeOK, Ahead, Slots
    <3> QED
      BY <2>4, <3>1 DEF EngineFull, TypeOK
  <2>5. CASE ReceiveIsr
    BY <2>5 DEF ReceiveIsr, TypeOK
  <2>6. CASE FsqfIsr
    BY <2>6 DEF FsqfIsr, TypeOK
  <2>7. CASE PollEnter
    BY <2>7 DEF PollEnter, TypeOK
  <2>8. CASE ReceiveFrame
    BY <2>8 DEF ReceiveFrame, HandshakeInv, TypeOK
  <2>9. CASE ReceiveEnd
    BY <2>9 DEF ReceiveEnd, TypeOK
  <2>10. CASE ReceiveNoMem
    BY <2>10 DEF ReceiveNoMem, TypeOK
  <2>11. CASE PollAgain
    BY <2>11 DEF PollAgain, CpuFree, FsqfDue, Installed, TypeOK
  <2>12. CASE PollRestart
    BY <2>12 DEF PollRestart, TypeOK
  <2>13. CASE PollComplete
    BY <2>13 DEF PollComplete, TypeOK
  <2>14. CASE PollEnable
    BY <2>14 DEF PollEnable, TypeOK
  <2>15. CASE CloseIsr
    BY <2>15 DEF CloseIsr, TypeOK
  <2>16. CASE ClosePoll
    BY <2>16 DEF ClosePoll, TypeOK
  <2>17. CASE ClosePort
    BY <2>17 DEF ClosePort, TypeOK
  <2>18. CASE OpenStart
    BY <2>18 DEF OpenStart, TypeOK
  <2>19. CASE OpenIsr
    <3>1. arrived - passed # RfdNum => since' - passed' < RfdNum /\ dma'
      BY <2>19 DEF OpenIsr, RingInv, IndexInv, TypeOK
    <3>2. arrived - passed = RfdNum => "full" \in mishaps'
      BY <2>19 DEF OpenIsr
    <3> QED
      BY <2>19, <3>1, <3>2 DEF OpenIsr
  <2>20. CASE UNCHANGED vars
    BY <2>20 DEF vars
  <2> QED
    BY <2>1, <2>2, <2>3, <2>4, <2>5, <2>6, <2>7, <2>8, <2>9, <2>10, <2>11, <2>12, <2>13,
       <2>14, <2>15, <2>16, <2>17, <2>18, <2>19, <2>20 DEF Next, Engine, Isr, Poll,
       OpenClose
<1> QED
  BY <1>1, <1>2, RxTypeCorrect, RxRingInvariant, RxHandshakeInvariant, PTL DEF Spec

\* With memory for its buffers and a ring that was not full at the open, the
\* receive path never stops for good: a stopped engine has a poll coming.
THEOREM RxStallHasCause == Spec => []StallHasCause
<1>1. TypeOK /\ RingInv /\ WakeupInv /\ StallInv => StallHasCause
  <2> SUFFICES ASSUME TypeOK, RingInv, WakeupInv, StallInv,
                      link = "up", ~dma, mishaps = {}, ~PollComing
               PROVE  FALSE
    BY DEF StallHasCause, NoRxStall
  <2>1. arrived - passed = RfdNum
    BY DEF PollComing, StallInv, Taken
  <2>2. cown[cur_index] = 1
    BY <2>1, RfdNumAssumption DEF PollComing, RingInv, RingWindow, Complete, TypeOK, Ahead, Slots
  <2>3. arrived > since
    BY <2>1, RfdNumAssumption DEF StallInv, TypeOK
  <2> QED
    BY <2>2, <2>3 DEF WakeupInv, NoLostWakeup
<1> QED
  BY <1>1, RxTypeCorrect, RxRingInvariant, RxWakeupInvariant, RxStallInvariant, PTL

-----------------------------------------------------------------------------
(* The number of frames a poll takes *)

\* FSSD and rxring.cur_index tell how many frames are in the ring, the empty
\* and the full one too, and a poll never means to take more than that.
CountInv ==
  /\ RxCount = arrived - passed
  /\ pc = "receive" => work_done <= Quota /\ todo <= arrived - passed

\* A frame rxcount has counted and that the loop finds incomplete is the newest
\* one, and the engine is about to write its COWN bit.
CutShortAtNewest ==
  pc = "receive" /\ todo > 0 /\ ~Owned(cur_index)
    => filling /\ todo = 1 /\ arrived = passed + 1

\* rxcount is computed from two indices while the engine moves one of them, and
\* when they meet the one COWN bit tells an empty ring from a full one: it is
\* right even while the engine's last COWN bit is not written, since
\* RfdNum > PendCnt >= 1 makes the ring hold more than one frame.
LEMMA RxCountIsExact == RingInv => RxCount = arrived - passed
<1> SUFFICES ASSUME RingInv PROVE RxCount = arrived - passed
  OBVIOUS
<1> USE RfdNumAssumption, PendCntAssumption
<1>1. /\ TypeOK
      /\ arrived - passed \in 0 .. RfdNum
      /\ Ahead(fssd) = IF arrived - passed = RfdNum THEN 0 ELSE arrived - passed
      /\ filling => arrived > passed
  BY DEF RingInv, RingWindow, IndexInv
<1>2. CASE fssd # cur_index
  BY <1>1, <1>2 DEF RxCount, TypeOK, Slots, Ahead
<1>3. CASE fssd = cur_index
  <2>1. Ahead(cur_index) = 0 /\ arrived - passed \in {0, RfdNum}
    BY <1>1, <1>3 DEF TypeOK, Slots, Ahead
  <2>2. cown[cur_index] = 1 <=> 0 < Complete - passed
    BY <2>1, <1>1 DEF RingInv, RingWindow, TypeOK
  <2>3. cown[cur_index] = 0 <=> arrived - passed = 0
    BY <2>1, <2>2, <1>1 DEF Complete, TypeOK
  <2> QED
    BY <2>1, <2>3, <1>1, <1>3 DEF RxCount, TypeOK, Slots
<1> QED
  BY <1>2, <1>3

\* A poll reads rxcount once and the engine goes on: what it counted stays in
\* the ring until the poll itself takes it.
LEMMA RxCountInvariant == Spec => []CountInv
<1>1. Init /\ RingInv => CountInv
  BY RxCountIsExact DEF Init, CountInv
<1>2. RingInv /\ RingInv' /\ CountInv /\ [Next]_vars => CountInv'
  <2> SUFFICES ASSUME RingInv, RingInv', CountInv, [Next]_vars
               PROVE  CountInv'
    OBVIOUS
  <2> USE QuotaAssumption DEF CountInv, engineVars, pollVars, linkVars
  <2>0. RxCount' = arrived' - passed' /\ TypeOK /\ TypeOK'
    <3>1. (RxCount = arrived - passed)'
      BY RxCountIsExact, PTL
    <3> QED
      BY <3>1 DEF RingInv, RingWindow
  <2>1. CASE EngineFill
    BY <2>0, <2>1 DEF EngineFill, TypeOK
  <2>2. CASE PollEnter
    BY <2>0, <2>2 DEF PollEnter, TypeOK
  <2>3. CASE ReceiveFrame
    BY <2>0, <2>3 DEF ReceiveFrame, TypeOK
  <2>4. CASE EngineDone \/ EngineInterrupt \/ EngineFull \/ Isr
    BY <2>0, <2>4 DEF EngineDone, EngineInterrupt, EngineFull, Isr, ReceiveIsr, FsqfIsr
  <2>5. CASE ReceiveEnd \/ ReceiveNoMem
    BY <2>0, <2>5 DEF ReceiveEnd, ReceiveNoMem
  <2>6. CASE PollAgain \/ PollRestart \/ PollComplete \/ PollEnable
    BY <2>0, <2>6 DEF PollAgain, PollRestart, PollComplete, PollEnable
  <2>7. CASE OpenClose \/ UNCHANGED vars
    BY <2>0, <2>7 DEF OpenClose, CloseIsr, ClosePoll, ClosePort, OpenStart, OpenIsr, vars
  <2> QED
    BY <2>1, <2>2, <2>3, <2>4, <2>5, <2>6, <2>7 DEF Next, Engine, Poll
<1> QED
  BY <1>1, <1>2, RxRingInvariant, PTL DEF Spec

\* The test of the COWN bit in the loop of star_gsw_receive_packet ends a poll
\* early for one reason only, FSSD moving before the bit is written, and then
\* at the newest frame: no complete frame is left behind it.
THEOREM RxCutShortAtNewest == Spec => []CutShortAtNewest
<1>1. RingInv /\ CountInv => CutShortAtNewest
  <2> SUFFICES ASSUME RingInv, CountInv, pc = "receive", todo > 0, ~Owned(cur_index)
               PROVE  filling /\ todo = 1 /\ arrived = passed + 1
    BY DEF CutShortAtNewest
  <2>1. TypeOK /\ Ahead(cur_index) = 0
    BY DEF RingInv, RingWindow, TypeOK, Slots, Ahead
  <2>2. ~(0 < Complete - passed)
    BY <2>1 DEF RingInv, RingWindow, TypeOK, Owned
  <2>3. todo <= arrived - passed
    BY DEF CountInv
  <2> QED
    BY <2>1, <2>2, <2>3 DEF Complete, TypeOK
<1> QED
  BY <1>1, RxRingInvariant, RxCountInvariant, PTL

-----------------------------------------------------------------------------
(* The stall *)

\* The state NoRxStall is refuted in: the interface is up, the engine stopped,
\* and nothing is under way that would poll the ring.
Stalled == link = "up" /\ ~dma /\ ~PollComing

\* Frames neither come in nor go to the stack, and the stall lasts until the
\* interface is closed.
StallKept == Stalled => UNCHANGED <<arrived, passed>> /\ (Stalled' \/ link' = "noisr")

\* Reception that has stalled is over until ifconfig down: the engine waits for
\* star_gsw_poll, the poll for an FSRC and the FSRC for the engine; an FSQF that
\* is still latched only sets is_qf.
THEOREM RxStallKept == Spec => [][StallKept]_vars
<1>1. TypeOK /\ [Next]_vars => [StallKept]_vars
  <2> SUFFICES ASSUME TypeOK, [Next]_vars, Stalled
               PROVE  UNCHANGED <<arrived, passed>> /\ (Stalled' \/ link' = "noisr")
    BY DEF StallKept
  <2> USE DEF engineVars, pollVars, linkVars
  <2>0. /\ link = "up" /\ ~dma /\ ~sched /\ pc = "idle"
        /\ ~fsrc /\ ~(held > 0) /\ ~filling
    BY DEF Stalled, PollComing
  <2>1. CASE FsqfIsr
    BY <2>0, <2>1 DEF FsqfIsr, Stalled, PollComing
  <2>2. CASE CloseIsr
    BY <2>2 DEF CloseIsr
  <2>3. CASE UNCHANGED vars
    BY <2>0, <2>3 DEF vars, Stalled, PollComing
  <2>4. ~Engine /\ ~ReceiveIsr
    BY <2>0 DEF Engine, EngineFill, EngineDone, EngineInterrupt, EngineFull, ReceiveIsr, FsrcDue
  <2>5. ~Poll
    BY <2>0 DEF Poll, PollEnter, ReceiveFrame, ReceiveEnd, ReceiveNoMem, PollAgain, PollRestart,
       PollComplete, PollEnable
  <2>6. ~ClosePoll /\ ~ClosePort /\ ~OpenStart /\ ~OpenIsr
    BY <2>0 DEF ClosePoll, ClosePort, OpenStart, OpenIsr
  <2> QED
    BY <2>1, <2>2, <2>3, <2>4, <2>5, <2>6 DEF Next, Isr, OpenClose
<1> QED
  BY <1>1, RxTypeCorrect, PTL DEF Spec
=============================================================================
