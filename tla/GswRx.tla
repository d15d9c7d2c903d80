------------------------------- MODULE GswRx --------------------------------
(***************************************************************************)
(* The receive half of the STAR Gigabit Switch driver                      *)
(* (drivers/net/str9100/star_gsw.c): the descriptor ring, the FSRC and     *)
(* FSQF interrupt handlers, the NAPI poll, open and close, as built for    *)
(* the WAP610N (CONFIG_STAR_GSW_NAPI, STAR_GSW_FSQF_ISR,                   *)
(* STAR_GSW_DELAYED_INTERRUPT, CONFIG_STR9100_PORT_BASE).                  *)
(*                                                                         *)
(* The actors are the FS DMA engine (hardware, modelled from the driver's  *)
(* use of it), the two interrupt handlers, the poll (softirq) and the      *)
(* process that opens and closes the interface.  There is one CPU: a       *)
(* handler preempts the poll, the poll preempts the process.               *)
(*                                                                         *)
(* A frame is represented by its arrival number.                           *)
(***************************************************************************)
EXTENDS Integers

CONSTANTS
  RfdNum,        \* STAR_GSW_MAX_RFD_NUM, descriptors in the ring
  PendCnt,       \* MAX_PEND_INT_CNT, frames one delayed FSRC may stand for
  Quota,         \* frames one call of star_gsw_poll may take
  AllocMayFail,  \* dev_alloc_skb may return NULL
  Unwatched,     \* frames arrive while the port is open without handlers
  MaxFrames,     \* bound: frames that arrive in a behaviour
  MaxCloses      \* bound: times the interface is closed

ASSUME RfdNumAssumption == RfdNum \in Nat \ {0}
ASSUME PendCntAssumption == PendCnt \in 1 .. RfdNum - 1
ASSUME QuotaAssumption == Quota \in Nat \ {0}
ASSUME BoundsAssumption == MaxFrames \in Nat /\ MaxCloses \in Nat
ASSUME SwitchesAssumption == AllocMayFail \in BOOLEAN /\ Unwatched \in BOOLEAN

VARIABLES
  \* the ring and the engine
  cown,        \* cown[i] = 1: descriptor i holds a frame for the CPU
  frame,       \* the frame in the buffer of descriptor i
  fssd,        \* FSSD, the engine's descriptor pointer
  filling,     \* FSSD has moved on, the COWN bit is not written yet
  dma,         \* the FS engine runs
  held,        \* frames received since the last FSRC, its interrupt delayed
  arrived,     \* frames received so far
  \* interrupt controller
  fsrc,        \* FSRC is latched
  fsqf,        \* FSQF is latched
  fsrcOff,     \* disable_irq(FSRC) is in force
  \* driver
  is_qf,       \* queue full flag
  sched,       \* __LINK_STATE_RX_SCHED of STAR_NAPI_DEV
  cur_index,   \* rxring.cur_index
  pc,          \* where star_gsw_poll is
  todo,        \* rxcount - i of star_gsw_receive_packet
  work_done,
  passed,      \* frames star_gsw_get_rfd_buff has given to the stack (or
               \* dropped, for a port it does not know): taken from the ring
  lastPassed,  \* the last of them
  link,        \* progress of star_gsw_open and star_gsw_close
  closes,      \* times the interface was closed
  since,       \* history: the frames that had arrived at the last open
  mishaps      \* history: "nomem", an allocation failed; "full", the ring
               \* was full before star_gsw_open installed the handlers

engineVars == <<frame, fssd, filling, held, arrived>>
pollVars == <<cur_index, pc, todo, work_done, passed, lastPassed>>
linkVars == <<link, closes, since, mishaps>>
vars == <<cown, dma, fsrc, fsqf, fsrcOff, is_qf, sched,
          engineVars, pollVars, linkVars>>

NoFrame == -1

Slots == 0 .. RfdNum - 1

\* rxring.cur_index, or the engine's pointer, moves to the next descriptor.
NextSlot(i) == IF i = RfdNum - 1 THEN 0 ELSE i + 1

PrevSlot(i) == IF i = 0 THEN RfdNum - 1 ELSE i - 1

\* The handlers are registered between star_gsw_install_isr and
\* star_gsw_uninstall_isr.
Installed == link = "up"

\* An interrupt that is latched, enabled and has a handler is taken before
\* the interrupted code goes on.
FsrcDue == Installed /\ fsrc /\ ~fsrcOff
FsqfDue == Installed /\ fsqf
CpuFree == ~FsrcDue /\ ~FsqfDue

\* star_gsw_buffer_alloc, then the interface is opened for the first time.
Init ==
  /\ cown = [i \in Slots |-> 0]
  /\ frame = [i \in Slots |-> NoFrame]
  /\ fssd = 0
  /\ filling = FALSE
  /\ dma = TRUE
  /\ held = 0
  /\ arrived = 0
  /\ fsrc = FALSE
  /\ fsqf = FALSE
  /\ fsrcOff = FALSE
  /\ is_qf = FALSE
  /\ sched = FALSE
  /\ cur_index = 0
  /\ pc = "idle"
  /\ todo = 0
  /\ work_done = 0
  /\ passed = 0
  /\ lastPassed = NoFrame
  /\ link = "up"
  /\ closes = 0
  /\ since = 0
  /\ mishaps = {}

-----------------------------------------------------------------------------
(* The FS DMA engine *)

\* The MAC port is enabled from OPEN_PORT to CLOSE_PORT, the handlers are
\* installed after the one and freed before the other.
PortOpen == link = "up" \/ (Unwatched /\ link \in {"noisr", "nopoll", "starting"})

\* A frame is written to the buffer at FSSD and FSSD moves on ("Probably FSSD
\* was updated before cown bit").  At most PendCnt frames wait for one FSRC.
EngineFill ==
  /\ dma
  /\ PortOpen
  /\ ~filling
  /\ cown[fssd] = 0
  /\ held < PendCnt
  /\ arrived < MaxFrames
  /\ frame' = [frame EXCEPT ![fssd] = arrived]
  /\ fssd' = NextSlot(fssd)
  /\ arrived' = arrived + 1
  /\ filling' = TRUE
  /\ UNCHANGED <<cown, dma, fsrc, fsqf, fsrcOff, is_qf, sched, held>>
  /\ UNCHANGED <<pollVars, linkVars>>

EngineDone ==
  /\ filling
  /\ cown' = [cown EXCEPT ![PrevSlot(fssd)] = 1]
  /\ filling' = FALSE
  /\ held' = held + 1
  /\ UNCHANGED <<dma, fsrc, fsqf, fsrcOff, is_qf, sched, frame, fssd, arrived>>
  /\ UNCHANGED <<pollVars, linkVars>>

\* The delayed interrupt: after PendCnt frames or MAX_PEND_TIME.
EngineInterrupt ==
  /\ held > 0
  /\ held' = 0
  /\ fsrc' = TRUE
  /\ UNCHANGED <<cown, dma, fsqf, fsrcOff, is_qf, sched>>
  /\ UNCHANGED <<frame, fssd, filling, arrived, pollVars, linkVars>>

\* No free descriptor: the engine stops and raises FSQF.
EngineFull ==
  /\ dma
  /\ ~filling
  /\ cown[fssd] = 1
  /\ dma' = FALSE
  /\ fsqf' = TRUE
  /\ UNCHANGED <<cown, fsrc, fsrcOff, is_qf, sched>>
  /\ UNCHANGED <<engineVars, pollVars, linkVars>>

-----------------------------------------------------------------------------
(* Interrupt handlers *)

\* star_gsw_receive_isr
ReceiveIsr ==
  /\ FsrcDue
  /\ fsrc' = FALSE
  /\ IF sched
       THEN UNCHANGED <<sched, fsrcOff>>
       ELSE sched' = TRUE /\ fsrcOff' = TRUE
  /\ UNCHANGED <<cown, dma, fsqf, is_qf, engineVars, pollVars, linkVars>>

\* star_gsw_fsqf_isr
FsqfIsr ==
  /\ FsqfDue
  /\ fsqf' = FALSE
  /\ is_qf' = TRUE
  /\ UNCHANGED <<cown, dma, fsrc, fsrcOff, sched, engineVars, pollVars, linkVars>>

-----------------------------------------------------------------------------
(* star_gsw_poll and star_gsw_receive_packet *)

\* Mutant: equal indices always mean an empty ring.
RxCountMutant ==
  IF fssd >= cur_index THEN fssd - cur_index ELSE RfdNum - cur_index + fssd

\* rxcount, from FSSD and, when the indices meet, from the COWN bit.
RxCount ==
  IF fssd > cur_index THEN fssd - cur_index
  ELSE IF fssd < cur_index THEN RfdNum - cur_index + fssd
  ELSE IF cown[cur_index] = 0 THEN 0
  ELSE RfdNum

\* net_rx_action calls the poll of a scheduled device.
PollEnter ==
  /\ CpuFree
  /\ pc = "idle"
  /\ sched
  /\ link \in {"up", "noisr"}
  /\ todo' = RxCount
  /\ work_done' = 0
  /\ pc' = "receive"
  /\ UNCHANGED <<cown, dma, fsrc, fsqf, fsrcOff, is_qf, sched>>
  /\ UNCHANGED <<cur_index, passed, lastPassed, engineVars, linkVars>>

\* Mutant: the COWN bit is not looked at.
OwnedMutant(i) == TRUE

\* rxdesc_ptr->cown != 0: the frame of descriptor i is complete.
Owned(i) == cown[i] # 0

\* star_gsw_get_rfd_buff takes the frame of descriptor i: it goes to the stack
\* as a frame of the port it came from, or is freed when its type is 802.2.
GetRfdBuff(i) == frame[i]

\* One turn of the loop: a new buffer is allocated, the full one goes to the
\* stack and the descriptor back to the engine.
ReceiveFrame ==
  /\ CpuFree
  /\ pc = "receive"
  /\ todo > 0
  /\ work_done < Quota
  /\ Owned(cur_index)
  /\ lastPassed' = GetRfdBuff(cur_index)
  /\ passed' = passed + 1
  /\ cown' = [cown EXCEPT ![cur_index] = 0]
  /\ cur_index' = NextSlot(cur_index)
  /\ work_done' = work_done + 1
  /\ todo' = todo - 1
  /\ UNCHANGED <<pc, dma, fsrc, fsqf, fsrcOff, is_qf, sched, engineVars, linkVars>>

\* star_gsw_receive_packet returns: the frames are done, the quota is used
\* up, or the COWN bit is not written yet.
ReceiveEnd ==
  /\ CpuFree
  /\ pc = "receive"
  /\ todo = 0 \/ work_done >= Quota \/ ~Owned(cur_index)
  /\ pc' = "received"
  /\ UNCHANGED <<cown, dma, fsrc, fsqf, fsrcOff, is_qf, sched>>
  /\ UNCHANGED <<cur_index, todo, work_done, passed, lastPassed>>
  /\ UNCHANGED <<engineVars, linkVars>>

\* There is no memory for the new buffer: it returns, "cown bit remains 1".
ReceiveNoMem ==
  /\ CpuFree
  /\ pc = "receive"
  /\ AllocMayFail
  /\ todo > 0
  /\ work_done < Quota
  /\ Owned(cur_index)
  /\ mishaps' = mishaps \cup {"nomem"}
  /\ pc' = "received"
  /\ UNCHANGED <<cown, dma, fsrc, fsqf, fsrcOff, is_qf, sched>>
  /\ UNCHANGED <<cur_index, todo, work_done, passed, lastPassed>>
  /\ UNCHANGED <<engineVars, link, closes, since>>

\* Work was done: poll again; a full queue was met: clear the flag first.
PollAgain ==
  /\ CpuFree
  /\ pc = "received"
  /\ work_done > 0
  /\ is_qf' = FALSE
  /\ pc' = IF is_qf THEN "restart" ELSE "idle"
  /\ UNCHANGED <<cown, dma, fsrc, fsqf, fsrcOff, sched>>
  /\ UNCHANGED <<cur_index, todo, work_done, passed, lastPassed>>
  /\ UNCHANGED <<engineVars, linkVars>>

\* Mutant: the flag is cleared and the engine is not started.
PollRestartMutant ==
  /\ CpuFree
  /\ pc = "restart"
  /\ pc' = "idle"
  /\ UNCHANGED <<cown, dma, fsrc, fsqf, fsrcOff, is_qf, sched>>
  /\ UNCHANGED <<cur_index, todo, work_done, passed, lastPassed>>
  /\ UNCHANGED <<engineVars, linkVars>>

\* HAL_GSW_FS_DMA_START
PollRestart ==
  /\ CpuFree
  /\ pc = "restart"
  /\ dma' = TRUE
  /\ pc' = "idle"
  /\ UNCHANGED <<cown, fsrc, fsqf, fsrcOff, is_qf, sched>>
  /\ UNCHANGED <<cur_index, todo, work_done, passed, lastPassed>>
  /\ UNCHANGED <<engineVars, linkVars>>

\* Mutant: enable_irq comes first.
PollCompleteMutant ==
  /\ CpuFree
  /\ pc = "received"
  /\ work_done = 0
  /\ sched' = FALSE
  /\ fsrcOff' = FALSE
  /\ pc' = "completed"
  /\ UNCHANGED <<cown, dma, fsrc, fsqf, is_qf>>
  /\ UNCHANGED <<cur_index, todo, work_done, passed, lastPassed>>
  /\ UNCHANGED <<engineVars, linkVars>>

\* No work was done: netif_rx_complete ...
PollComplete ==
  /\ CpuFree
  /\ pc = "received"
  /\ work_done = 0
  /\ sched' = FALSE
  /\ pc' = "completed"
  /\ UNCHANGED <<cown, dma, fsrc, fsqf, fsrcOff, is_qf>>
  /\ UNCHANGED <<cur_index, todo, work_done, passed, lastPassed>>
  /\ UNCHANGED <<engineVars, linkVars>>

\* Mutant: an interrupt that came while it was disabled is dropped.
PollEnableMutant ==
  /\ CpuFree
  /\ pc = "completed"
  /\ fsrcOff' = FALSE
  /\ fsrc' = FALSE
  /\ pc' = "idle"
  /\ UNCHANGED <<cown, dma, fsqf, is_qf, sched>>
  /\ UNCHANGED <<cur_index, todo, work_done, passed, lastPassed>>
  /\ UNCHANGED <<engineVars, linkVars>>

\* ... and enable_irq(FSRC).
PollEnable ==
  /\ CpuFree
  /\ pc = "completed"
  /\ fsrcOff' = FALSE
  /\ pc' = "idle"
  /\ UNCHANGED <<cown, dma, fsrc, fsqf, is_qf, sched>>
  /\ UNCHANGED <<cur_index, todo, work_done, passed, lastPassed>>
  /\ UNCHANGED <<engineVars, linkVars>>

-----------------------------------------------------------------------------
(* star_gsw_close and star_gsw_open: process context, below the softirq *)

ProcessFree == CpuFree /\ pc = "idle"

\* netif_stop_queue; star_gsw_uninstall_isr: free_irq(FSRC), free_irq(FSQF)
CloseIsr ==
  /\ ProcessFree
  /\ link = "up"
  /\ closes < MaxCloses
  /\ link' = "noisr"
  /\ closes' = closes + 1
  /\ UNCHANGED <<cown, dma, fsrc, fsqf, fsrcOff, is_qf, sched, since, mishaps>>
  /\ UNCHANGED <<engineVars, pollVars>>

\* netif_poll_disable waits for the poll to complete and takes RX_SCHED.
ClosePoll ==
  /\ ProcessFree
  /\ link = "noisr"
  /\ ~sched
  /\ sched' = TRUE
  /\ link' = "nopoll"
  /\ UNCHANGED <<cown, dma, fsrc, fsqf, fsrcOff, is_qf, closes, since, mishaps>>
  /\ UNCHANGED <<engineVars, pollVars>>

\* CLOSE_PORT
ClosePort ==
  /\ ProcessFree
  /\ link = "nopoll"
  /\ ~filling
  /\ link' = "down"
  /\ UNCHANGED <<cown, dma, fsrc, fsqf, fsrcOff, is_qf, sched, closes, since, mishaps>>
  /\ UNCHANGED <<engineVars, pollVars>>

\* star_gsw_open: OPEN_PORT, netif_poll_enable, star_gsw_enable
OpenStart ==
  /\ ProcessFree
  /\ link = "down"
  /\ sched' = FALSE
  /\ dma' = TRUE
  /\ link' = "starting"
  /\ UNCHANGED <<cown, fsrc, fsqf, fsrcOff, is_qf, closes, since, mishaps>>
  /\ UNCHANGED <<engineVars, pollVars>>

\* star_gsw_install_isr.  An interrupt without a handler is acknowledged by
\* do_edge_IRQ and forgotten by request_irq, unless it came again while masked.
OpenIsr ==
  /\ ProcessFree
  /\ link = "starting"
  /\ fsrc' \in {FALSE, fsrc}
  /\ fsqf' \in {FALSE, fsqf}
  /\ fsrcOff' = FALSE
  /\ link' = "up"
  /\ since' = arrived
  /\ mishaps' = IF arrived - passed = RfdNum THEN mishaps \cup {"full"} ELSE mishaps
  /\ UNCHANGED <<cown, dma, is_qf, sched, closes, engineVars, pollVars>>

-----------------------------------------------------------------------------
Engine == EngineFill \/ EngineDone \/ EngineInterrupt \/ EngineFull

Isr == ReceiveIsr \/ FsqfIsr

Poll ==
  \/ PollEnter \/ ReceiveFrame \/ ReceiveEnd \/ ReceiveNoMem
  \/ PollAgain \/ PollRestart \/ PollComplete \/ PollEnable

OpenClose == CloseIsr \/ ClosePoll \/ ClosePort \/ OpenStart \/ OpenIsr

Next == Engine \/ Isr \/ Poll \/ OpenClose

Spec == Init /\ [][Next]_vars

\* The hardware and the CPU go on; nothing obliges anyone to close or open.
Fairness ==
  /\ WF_vars(EngineDone)
  /\ WF_vars(EngineInterrupt)
  /\ WF_vars(EngineFull)
  /\ WF_vars(Isr)
  /\ WF_vars(Poll)

FairSpec == Spec /\ Fairness

-----------------------------------------------------------------------------
TypeOK ==
  /\ cown \in [Slots -> {0, 1}]
  /\ frame \in [Slots -> Nat \cup {NoFrame}]
  /\ fssd \in Slots
  /\ filling \in BOOLEAN
  /\ dma \in BOOLEAN
  /\ held \in Nat
  /\ arrived \in Nat
  /\ fsrc \in BOOLEAN
  /\ fsqf \in BOOLEAN
  /\ fsrcOff \in BOOLEAN
  /\ is_qf \in BOOLEAN
  /\ sched \in BOOLEAN
  /\ cur_index \in Slots
  /\ pc \in {"idle", "receive", "received", "restart", "completed"}
  /\ todo \in Nat
  /\ work_done \in Nat
  /\ passed \in Nat
  /\ lastPassed \in Nat \cup {NoFrame}
  /\ link \in {"up", "noisr", "nopoll", "down", "starting"}
  /\ closes \in Nat
  /\ since \in Nat
  /\ mishaps \subseteq {"nomem", "full"}

\* How far slot i lies ahead of rxring.cur_index, going round the ring.
Ahead(i) == IF i >= cur_index THEN i - cur_index ELSE i - cur_index + RfdNum

\* Frames whose COWN bit is written.
Complete == IF filling THEN arrived - 1 ELSE arrived

\* The CPU owns exactly the descriptors of the complete frames that were not
\* passed on; they start at cur_index, oldest first.  The driver relies on it
\* when it computes rxcount from two indices (which stay within the ring).
RingWindow ==
  /\ TypeOK
  /\ \A i \in Slots :
       /\ cown[i] = 1 <=> Ahead(i) < Complete - passed
       /\ Ahead(i) < arrived - passed => frame[i] = passed + Ahead(i)

\* The ring is a FIFO of RfdNum frames from the port to the stack.
Fifo == INSTANCE FrameFifo WITH
          Capacity <- RfdNum, entered <- arrived, left <- passed,
          last <- lastPassed

FifoSpec == Fifo!FifoSpec

\* netif_rx_complete finds RX_SCHED set (it has a BUG_ON) and enable_irq finds
\* the interrupt disabled: the poll runs only between the handler that
\* scheduled it and its own completion, whatever close does meanwhile.
PollHandshake ==
  /\ pc \in {"receive", "received", "restart"} => sched /\ fsrcOff
  /\ pc = "completed" => ~sched /\ fsrcOff

\* Something is under way that will read the ring again.
PollComing == sched \/ pc # "idle" \/ fsrc \/ held > 0 \/ filling

\* With memory available, a frame that came to an open interface is going to
\* be polled: the edge of FSRC is not lost between the last look at the ring
\* and enable_irq.  (Alone, the frames an earlier close left in the ring wait
\* for the next one to come.)
NoLostWakeup ==
  link = "up" /\ arrived > since /\ cown[cur_index] = 1 /\ mishaps = {}
    => PollComing

\* A stopped engine is going to be restarted: only a poll does it, and with
\* the engine stopped no further FSRC can come.
NoRxStall == link = "up" /\ ~dma => PollComing

\* Nothing else stops reception: a stall that no poll will end takes a failed
\* allocation, or a ring that was full before star_gsw_open had a handler for it.
StallHasCause == NoRxStall \/ mishaps # {}

\* Once a frame comes to an open interface, it and every frame before it in
\* the ring, those a close left behind too, are given to the stack, unless the
\* interface is closed first.
ArrivedIsPassed ==
  \A n \in 0 .. MaxFrames - 1 :
    (link = "up" /\ arrived > n /\ arrived > since)
      ~> (passed > n \/ link # "up" \/ mishaps # {})

=============================================================================
