---------------------------- MODULE GswTx_proofs ----------------------------
(***************************************************************************)
(* Proofs about the transmit ring, for every ring size and any number of   *)
(* frames.                                                                 *)
(***************************************************************************)
EXTENDS GswTx, TLAPS

\* The freshly allocated ring of star_gsw_buffer_alloc satisfies the invariant.
LEMMA InitTxInv == Init => TxInv
<1> SUFFICES ASSUME Init PROVE TxInv
  OBVIOUS
<1> USE TfdNumAssumption DEF Init, Slots, NoSkb
<1>1. TypeOK
  <2>1. requeued \in BOOLEAN /\ dma \in BOOLEAN /\ fetched \in BOOLEAN
    OBVIOUS
  <2>2. onWire \in Nat \cup {NoSkb} /\ skb_free \in Nat \cup {NoSkb}
    OBVIOUS
  <2> QED
    BY <2>1, <2>2 DEF TypeOK
<1>2. RingWindow /\ IndexInv /\ OldSlots
  BY DEF RingWindow, IndexInv, OldSlots, Ahead
<1>3. AliveInv
  BY DEF AliveInv
<1> QED
  BY <1>1, <1>2, <1>3 DEF TxInv

\* Every step of star_gsw_send_packet and of the engine keeps the invariant.
LEMMA NextTxInv == TxInv /\ [Next]_vars => TxInv'
<1> SUFFICES ASSUME TxInv, [Next]_vars PROVE TxInv'
  OBVIOUS
<1> USE TfdNumAssumption, MaxFramesAssumption
<1>0. /\ TypeOK /\ RingWindow /\ (fetched => cown[tssd] = 0)
      /\ IndexInv /\ OldSlots /\ AliveInv
  BY DEF TxInv
<1>1. CASE SendStop
  BY <1>0, <1>1 DEF SendStop, engineVars, TxInv, TypeOK, RingWindow, IndexInv, OldSlots,
     AliveInv, Ahead
<1>2. CASE SendBusy
  BY <1>0, <1>2 DEF SendBusy, Busy, engineVars, TxInv, TypeOK, RingWindow, IndexInv,
     OldSlots, AliveInv, Ahead
<1>3. CASE SendQueue
  <2> USE <1>3 DEF SendQueue, Busy, OldSkb, engineVars
  <2>1. TypeOK'
    <3>1. (requeued \in BOOLEAN /\ dma \in BOOLEAN /\ fetched \in BOOLEAN)'
      BY <1>0 DEF TypeOK
    <3>2. cur_index' \in Slots
      BY <1>0 DEF TypeOK, Slots, NextSlot
    <3> QED
      BY <1>0, <3>1, <3>2 DEF TypeOK
  <2>2. queued - sent < TfdNum /\ Ahead(cur_index) = queued - sent
    BY <1>0 DEF TypeOK, RingWindow, IndexInv, Slots, Ahead
  <2>3. \A i \in Slots : i # cur_index => Ahead(i) # queued - sent
    BY <1>0, <2>2 DEF TypeOK, Slots, Ahead
  <2>4. RingWindow'
    BY <1>0, <2>2, <2>3 DEF TypeOK, RingWindow, Slots, Ahead
  <2>5. IndexInv'
    BY <1>0, <2>2 DEF TypeOK, IndexInv, Slots, Ahead, NextSlot
  <2>6. OldSlots'
    BY <1>0, <2>2, <2>3 DEF TypeOK, OldSlots, Slots, Ahead
  <2>7. AliveInv'
    <3>1. skb_ptr[cur_index] = IF queued < TfdNum THEN NoSkb ELSE queued - TfdNum
      BY <1>0, <2>2 DEF TypeOK, OldSlots, Slots
    <3>2. QED
      BY <1>0, <3>1 DEF TypeOK, AliveInv, NoSkb
  <2>8. (fetched => cown[tssd] = 0)'
    BY <1>0 DEF TypeOK, Slots
  <2> QED
    BY <2>1, <2>4, <2>5, <2>6, <2>7, <2>8 DEF TxInv
<1>4. CASE SendFree
  <2> USE <1>4 DEF SendFree, engineVars
  <2>1. TypeOK'
    BY <1>0 DEF TypeOK
  <2>2. AliveInv'
    BY <1>0 DEF TypeOK, AliveInv, NoSkb
  <2>3. RingWindow' /\ IndexInv' /\ OldSlots' /\ (fetched => cown[tssd] = 0)'
    BY <1>0 DEF RingWindow, IndexInv, OldSlots, Ahead
  <2> QED
    BY <2>1, <2>2, <2>3 DEF TxInv
<1>5. CASE EngineFetch
  BY <1>0, <1>5 DEF EngineFetch, driverVars, TxInv, TypeOK, RingWindow, IndexInv, OldSlots,
     AliveInv, Ahead
<1>6. CASE EngineDone
  <2> USE DEF driverVars
  <2>0. /\ cown' = [cown EXCEPT ![tssd] = 1]
        /\ onWire' = skb_ptr[tssd]
        /\ tssd' = NextSlot(tssd)
        /\ sent' = sent + 1
        /\ UNCHANGED <<skb_ptr, dma, driverVars>>
    BY <1>6 DEF EngineDone
  <2>1. TypeOK'
    <3>1. (requeued \in BOOLEAN /\ dma \in BOOLEAN /\ fetched \in BOOLEAN)'
      BY <1>0, <1>6 DEF EngineDone, TypeOK
    <3>2. tssd' \in Slots
      BY <1>0, <2>0 DEF TypeOK, Slots, NextSlot
    <3> QED
      BY <1>0, <2>0, <3>1, <3>2 DEF TypeOK
  <2>2. cown[tssd] = 0 /\ Ahead(tssd) = 0 /\ queued - sent > 0
    BY <1>0, <1>6 DEF EngineDone, TypeOK, RingWindow, Slots, Ahead
  <2>3. ASSUME NEW i \in Slots, i # tssd
        PROVE  Ahead(i) \in 1 .. TfdNum - 1 /\ Ahead(i)' = Ahead(i) - 1
    BY <1>0, <2>0, <2>3 DEF TypeOK, Slots, Ahead, NextSlot
  <2>4. ASSUME NEW i \in Slots, i = tssd
        PROVE  Ahead(i)' = TfdNum - 1
    BY <1>0, <2>0, <2>4 DEF TypeOK, Slots, Ahead, NextSlot
  <2>5. RingWindow'
    <3> SUFFICES ASSUME NEW i \in Slots
                 PROVE /\ cown'[i] = 0 <=> Ahead(i)' < queued - sent'
                       /\ cown'[i] = 0 => skb_ptr[i] = sent' + Ahead(i)'
      BY <2>0 DEF RingWindow, Slots
    <3>1. CASE i = tssd
      <4>1. cown'[i] = 1
        BY <1>0, <2>0, <3>1 DEF TypeOK
      <4>2. ~(TfdNum - 1 < queued - sent')
        BY <1>0, <2>0 DEF TypeOK, IndexInv
      <4>3. Ahead(i)' = TfdNum - 1
        BY <2>4, <3>1
      <4> QED
        BY <4>1, <4>2, <4>3
    <3>2. CASE i # tssd
      <4>1. cown'[i] = cown[i]
        BY <1>0, <2>0, <3>2 DEF TypeOK
      <4>2. /\ Ahead(i)' < queued - sent' <=> Ahead(i) < queued - sent
            /\ sent' + Ahead(i)' = sent + Ahead(i)
        BY <1>0, <2>0, <2>3, <3>2 DEF TypeOK
      <4> QED
        BY <1>0, <4>1, <4>2 DEF RingWindow
    <3> QED
      BY <3>1, <3>2
  <2>6. IndexInv'
    <3>1. queued' - sent' \in 0 .. TfdNum
      BY <1>0, <2>0, <2>2 DEF TypeOK, IndexInv
    <3>2. queued' - sent' = queued - sent - 1 /\ queued - sent \in 1 .. TfdNum
      BY <1>0, <2>0, <2>2 DEF TypeOK, IndexInv
    <3>3. Ahead(cur_index)' = queued - sent - 1
      <4>1. CASE cur_index = tssd
        <5>1. queued - sent = TfdNum
          BY <1>0, <2>2, <3>2, <4>1 DEF IndexInv
        <5>2. \A i \in Slots : i = tssd => Ahead(i)' = TfdNum - 1
          BY <2>4
        <5>3. cur_index' = cur_index /\ cur_index \in Slots
          BY <1>0, <2>0 DEF TypeOK
        <5> QED
          BY <4>1, <5>1, <5>2, <5>3
      <4>2. CASE cur_index # tssd
        BY <1>0, <2>0, <2>3, <3>2, <4>2 DEF IndexInv, TypeOK
      <4> QED
        BY <4>1, <4>2
    <3> QED
      BY <3>1, <3>2, <3>3 DEF IndexInv
  <2>7. OldSlots'
    <3> SUFFICES ASSUME NEW i \in Slots, cown'[i] = 1
                 PROVE skb_ptr[i] = IF sent' + Ahead(i)' < TfdNum THEN NoSkb
                                    ELSE sent' + Ahead(i)' - TfdNum
      BY <2>0 DEF OldSlots, Slots
    <3>1. CASE i = tssd
      <4>1. skb_ptr[i] = sent
        BY <1>0, <2>2, <3>1 DEF TypeOK, RingWindow
      <4>2. sent' + Ahead(i)' - TfdNum = sent /\ ~(sent' + Ahead(i)' < TfdNum)
        BY <1>0, <2>0, <2>4, <3>1 DEF TypeOK
      <4> QED
        BY <4>1, <4>2
    <3>2. CASE i # tssd
      <4>1. cown[i] = 1
        BY <1>0, <2>0, <3>2 DEF TypeOK
      <4>2. /\ sent' + Ahead(i)' < TfdNum <=> sent + Ahead(i) < TfdNum
            /\ sent' + Ahead(i)' - TfdNum = sent + Ahead(i) - TfdNum
        BY <1>0, <2>0, <2>3, <3>2 DEF TypeOK
      <4>3. skb_ptr[i] = IF sent + Ahead(i) < TfdNum THEN NoSkb
                         ELSE sent + Ahead(i) - TfdNum
        BY <1>0, <4>1 DEF OldSlots
      <4> QED
        BY <4>2, <4>3
    <3> QED
      BY <3>1, <3>2
  <2>8. AliveInv'
    BY <1>0, <2>0 DEF AliveInv
  <2>9. (fetched => cown[tssd] = 0)'
    BY <1>6 DEF EngineDone
  <2> QED
    BY <2>9, <2>1, <2>5, <2>6, <2>7, <2>8 DEF TxInv
<1>7. CASE UNCHANGED vars
  BY <1>0, <1>7 DEF vars, driverVars, engineVars, TxInv, TypeOK, RingWindow, IndexInv,
     OldSlots, AliveInv, Ahead
<1> QED
  BY <1>1, <1>2, <1>3, <1>4, <1>5, <1>6, <1>7 DEF Next, Send, Engine

\* The inductive invariant holds in every reachable state.
THEOREM TxInvariant == Spec => []TxInv
<1> QED
  BY InitTxInv, NextTxInv, PTL DEF Spec

\* The indices, COWN bits and counters of the transmit ring keep their types.
THEOREM TxTypeCorrect == Spec => []TypeOK
<1>1. TxInv => TypeOK
  BY DEF TxInv
<1> QED
  BY <1>1, TxInvariant, PTL

\* The engine owns exactly the descriptors of the frames that are queued and
\* not sent, in order, whatever the ring size.
THEOREM TxRingWindow == Spec => []RingWindow
<1>1. TxInv => RingWindow
  BY DEF TxInv
<1> QED
  BY <1>1, TxInvariant, PTL

\* dev_kfree_skb never frees the buffer of a descriptor the engine still owns.
THEOREM TxNoUseAfterFree == Spec => []NoUseAfterFree
<1>1. TxInv => NoUseAfterFree
  <2> SUFFICES ASSUME TxInv, NEW i \in Slots, cown[i] = 0
               PROVE skb_ptr[i] \in alive
    BY DEF NoUseAfterFree
  <2>1. /\ Ahead(i) \in Nat
        /\ Ahead(i) < queued - sent
        /\ skb_ptr[i] = sent + Ahead(i)
    BY TfdNumAssumption DEF TxInv, TypeOK, RingWindow, Slots, Ahead
  <2>2. queued \in Nat /\ sent \in Nat /\ queued - sent <= TfdNum
    BY DEF TxInv, TypeOK, IndexInv
  <2>3. skb_ptr[i] < queued /\ skb_ptr[i] >= queued - TfdNum /\ skb_ptr[i] \in Nat
    BY <2>1, <2>2, TfdNumAssumption
  <2> QED
    BY <2>2, <2>3, TfdNumAssumption DEF TxInv, AliveInv
<1> QED
  BY <1>1, TxInvariant, PTL

\* dev_kfree_skb is called only on an skb that is still allocated.
THEOREM TxNoDoubleFree == Spec => []NoDoubleFree
<1>1. TxInv => NoDoubleFree
  BY TfdNumAssumption DEF TxInv, TypeOK, AliveInv, NoDoubleFree, NoSkb
<1> QED
  BY <1>1, TxInvariant, PTL

\* Every skb that is allocated is in a slot of the ring or about to be freed.
THEOREM TxNoLeak == Spec => []NoLeak
<1>1. TxInv => NoLeak
  <2> SUFFICES ASSUME TxInv, NEW n \in alive, n # skb_free
               PROVE \E i \in Slots : skb_ptr[i] = n
    BY DEF NoLeak
  <2> USE TfdNumAssumption
  <2>1. n \in Nat /\ n < queued /\ n >= queued - TfdNum
    BY DEF TxInv, TypeOK, AliveInv, NoSkb
  <2>2. CASE n >= sent
    <3> DEFINE i == IF tssd + (n - sent) < TfdNum THEN tssd + (n - sent)
                    ELSE tssd + (n - sent) - TfdNum
    <3>1. i \in Slots /\ Ahead(i) = n - sent
      BY <2>1, <2>2 DEF TxInv, TypeOK, IndexInv, Slots, Ahead
    <3>2. skb_ptr[i] = n
      BY <2>1, <2>2, <3>1 DEF TxInv, TypeOK, RingWindow
    <3> QED
      BY <3>1, <3>2
  <2>3. CASE n < sent
    <3> DEFINE i == IF tssd + (n - sent) >= 0 THEN tssd + (n - sent)
                    ELSE tssd + (n - sent) + TfdNum
    <3>1. i \in Slots /\ Ahead(i) = n - sent + TfdNum
      BY <2>1, <2>3 DEF TxInv, TypeOK, IndexInv, Slots, Ahead
    <3>2. cown[i] = 1
      BY <2>1, <2>3, <3>1 DEF TxInv, TypeOK, RingWindow
    <3>3. skb_ptr[i] = n
      BY <2>1, <2>3, <3>1, <3>2 DEF TxInv, TypeOK, OldSlots
    <3> QED
      BY <3>1, <3>3
  <2> QED
    BY <2>1, <2>2, <2>3 DEF TxInv, TypeOK
<1> QED
  BY <1>1, TxInvariant, PTL

\* The ring implements the FIFO: the driver's and the engine's steps are steps
\* of FrameFifo or leave it unchanged.
THEOREM TxImplementsFifo == Spec => FifoSpec
<1>1. Init => Fifo!FifoInit
  BY DEF Init, Fifo!FifoInit, NoSkb
<1>2. TxInv /\ [Next]_vars => [Fifo!FifoNext]_Fifo!fifoVars
  <2> SUFFICES ASSUME TxInv, [Next]_vars
               PROVE [Fifo!FifoNext]_Fifo!fifoVars
    OBVIOUS
  <2> USE TfdNumAssumption DEF Fifo!fifoVars
  <2>1. CASE SendQueue
    <3>1. queued - sent < TfdNum
      BY <2>1 DEF SendQueue, Busy, TxInv, TypeOK, RingWindow, IndexInv, Slots, Ahead
    <3> QED
      BY <2>1, <3>1 DEF SendQueue, engineVars, Fifo!FifoNext, Fifo!Enter
  <2>2. CASE EngineDone
    <3>1. sent < queued /\ skb_ptr[tssd] = sent
      BY <2>2 DEF EngineDone, TxInv, TypeOK, RingWindow, Slots, Ahead
    <3> QED
      BY <2>2, <3>1 DEF EngineDone, driverVars, Fifo!FifoNext, Fifo!Leave
  <2>3. CASE SendStop \/ SendBusy \/ SendFree \/ EngineFetch \/ UNCHANGED vars
    BY <2>3 DEF SendStop, SendBusy, SendFree, EngineFetch, vars, driverVars, engineVars
  <2> QED
    BY <2>1, <2>2, <2>3 DEF Next, Send, Engine
<1> QED
  BY <1>1, <1>2, TxInvariant, PTL DEF Spec, FifoSpec, Fifo!FifoSpec
-----------------------------------------------------------------------------
(* Stopping the engine *)

\* A call that returns 1 leaves the engine as SendStop left it: stopped.  From
\* the first frame on, an engine that is stopped while no call is running was
\* stopped by a call that found the ring full.
StoppedByFull == ~dma => queued = 0 \/ pc = "locked" \/ requeued

\* Only star_gsw_send_packet stops the engine, and the only way out of a call
\* that leaves it stopped is "This TFD is busy".
THEOREM TxStoppedByFull == Spec => []StoppedByFull
<1> DEFINE Inv == /\ dma \in BOOLEAN
                  /\ StoppedByFull
                  /\ pc = "unlocked" => dma
<1>1. Init => Inv
  BY DEF Init, StoppedByFull
<1>2. Inv /\ [Next]_vars => Inv'
  <2> SUFFICES ASSUME Inv, [Next]_vars
               PROVE Inv'
    OBVIOUS
  <2> USE DEF StoppedByFull, driverVars, engineVars
  <2>1. CASE SendStop
    BY <2>1 DEF SendStop
  <2>2. CASE SendBusy
    BY <2>2 DEF SendBusy
  <2>3. CASE SendQueue
    BY <2>3 DEF SendQueue
  <2>4. CASE SendFree
    BY <2>4 DEF SendFree
  <2>5. CASE Engine \/ UNCHANGED vars
    BY <2>5 DEF Engine, EngineFetch, EngineDone, vars
  <2> QED
    BY <2>1, <2>2, <2>3, <2>4, <2>5 DEF Next, Send
<1>3. Inv => StoppedByFull
  OBVIOUS
<1> QED
  BY <1>1, <1>2, <1>3, PTL DEF Spec

\* The state RequeuedIsQueued is refuted in: the ring is full, the frame that
\* did not fit was handed back to the stack, the engine is stopped and has
\* finished the frame it was sending.
Wedged ==
  /\ queued - sent = TfdNum
  /\ requeued
  /\ ~dma
  /\ ~fetched

\* A wedged transmitter is never freed, whatever the size of the ring: a call
\* that is offered the frame again finds the same descriptor busy, and only a
\* call that finds a free one starts the engine.
THEOREM TxWedgedForGood == Spec => [](Wedged => []Wedged)
<1>1. TxInv /\ [Next]_vars /\ Wedged => Wedged'
  <2> SUFFICES ASSUME TxInv, [Next]_vars, Wedged
               PROVE Wedged'
    OBVIOUS
  <2> USE TfdNumAssumption DEF driverVars, engineVars
  <2>1. ~SendQueue
    <3>1. Ahead(cur_index) < queued - sent
      BY DEF TxInv, TypeOK, IndexInv, Wedged
    <3> QED
      BY <3>1 DEF SendQueue, Busy, TxInv, TypeOK, RingWindow
  <2>2. CASE SendStop
    BY <2>2 DEF SendStop, Wedged
  <2>3. CASE SendBusy
    BY <2>3 DEF SendBusy, Wedged
  <2>4. CASE SendFree
    BY <2>4 DEF SendFree, Wedged
  <2>5. ~Engine
    BY DEF Engine, EngineFetch, EngineDone, Wedged
  <2>6. CASE UNCHANGED vars
    BY <2>6 DEF vars, Wedged
  <2> QED
    BY <2>1, <2>2, <2>3, <2>4, <2>5, <2>6 DEF Next, Send
<1> QED
  BY <1>1, TxInvariant, PTL DEF Spec
=============================================================================
