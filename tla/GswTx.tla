------------------------------- MODULE GswTx --------------------------------
(***************************************************************************)
(* The transmit half of the STAR Gigabit Switch driver                     *)
(* (drivers/net/str9100/star_gsw.c, star_gsw_send_packet) as it is built   *)
(* for the WAP610N: CONFIG_STR9100_PORT_BASE, neither STAR_GSW_SG nor      *)
(* FREE_TX_SKB_MULTI, no checksum offload.                                 *)
(*                                                                         *)
(* Two actors share the ring: the kernel, which has one sender at a time   *)
(* (dev->xmit_lock and star_gsw_send_lock), and the TS DMA engine.  The    *)
(* COWN bit says who owns a descriptor: 1 the CPU, 0 the engine.           *)
(*                                                                         *)
(* An skb is represented by the number of the call that queued it.  The    *)
(* engine is hardware: it is modelled from how the driver uses it.         *)
(***************************************************************************)
EXTENDS Integers

CONSTANTS
  TfdNum,      \* STAR_GSW_MAX_TFD_NUM, descriptors in the ring
  MaxFrames    \* bound: frames the stack offers in a behaviour

ASSUME TfdNumAssumption == TfdNum \in Nat \ {0}
ASSUME MaxFramesAssumption == MaxFrames \in Nat

VARIABLES
  cown,        \* cown[i]: the ownership bit of descriptor i
  skb_ptr,     \* txring.skb_ptr[i], NoSkb while the slot was never used
  cur_index,   \* txring.cur_index
  pc,          \* where the sender is in star_gsw_send_packet
  skb_free,    \* its local skb_free
  alive,       \* skbs the driver has taken and not yet freed
  queued,      \* frames queued so far: the number of the next skb
  requeued,    \* the last call returned 1, the stack will offer the skb again
  dma,         \* GSW_TS_DMA_CONTROL: the engine may fetch descriptors
  tssd,        \* the engine's descriptor pointer (TSSD)
  fetched,     \* the engine is sending the frame of descriptor tssd
  sent,        \* frames put on the wire so far
  onWire       \* the last skb put on the wire

driverVars == <<cur_index, pc, skb_free, alive, queued, requeued>>
engineVars == <<tssd, fetched, sent, onWire>>
vars == <<cown, skb_ptr, dma, driverVars, engineVars>>

NoSkb == -1

Slots == 0 .. TfdNum - 1

\* if (txring.cur_index == (STAR_GSW_MAX_TFD_NUM - 1)) ... else cur_index++
NextSlot(i) == IF i = TfdNum - 1 THEN 0 ELSE i + 1

\* star_gsw_buffer_alloc: every descriptor belongs to the CPU, no skb is held.
Init ==
  /\ cown = [i \in Slots |-> 1]
  /\ skb_ptr = [i \in Slots |-> NoSkb]
  /\ cur_index = 0
  /\ pc = "idle"
  /\ skb_free = NoSkb
  /\ alive = {}
  /\ queued = 0
  /\ requeued = FALSE
  /\ dma = FALSE
  /\ tssd = 0
  /\ fetched = FALSE
  /\ sent = 0
  /\ onWire = NoSkb

-----------------------------------------------------------------------------
(* star_gsw_send_packet *)

\* The stack offers a frame; the engine is stopped before the lock is taken.
SendStop ==
  /\ pc = "idle"
  /\ queued < MaxFrames
  /\ dma' = FALSE
  /\ pc' = "locked"
  /\ UNCHANGED <<cown, skb_ptr, cur_index, skb_free, alive, queued, requeued>>
  /\ UNCHANGED engineVars

\* Mutant: the COWN bit is not looked at.
BusyMutant(i) == FALSE

\* txdesc_ptr->cown == 0: the engine has not sent the frame of descriptor i.
Busy(i) == cown[i] = 0

\* Mutant: the old skb is read after the slot got the new one.
OldSkbMutant(i) == queued

\* The skb that used descriptor i before, NoSkb when data_ptr is 0.
OldSkb(i) == skb_ptr[i]

\* "This TFD is busy": return 1, and the engine stays as it is.
SendBusy ==
  /\ pc = "locked"
  /\ Busy(cur_index)
  /\ requeued' = TRUE
  /\ pc' = "idle"
  /\ UNCHANGED <<cown, skb_ptr, dma, cur_index, skb_free, alive, queued>>
  /\ UNCHANGED engineVars

\* The descriptor is filled and given to the engine, which is started again.
\* The skb that used the descriptor before is remembered in skb_free.
SendQueue ==
  /\ pc = "locked"
  /\ ~Busy(cur_index)
  /\ skb_free' = OldSkb(cur_index)
  /\ skb_ptr' = [skb_ptr EXCEPT ![cur_index] = queued]
  /\ cown' = [cown EXCEPT ![cur_index] = 0]
  /\ cur_index' = NextSlot(cur_index)
  /\ alive' = alive \cup {queued}
  /\ queued' = queued + 1
  /\ requeued' = FALSE
  /\ dma' = TRUE
  /\ pc' = "unlocked"
  /\ UNCHANGED engineVars

\* Mutant: the old skb is forgotten.
SendFreeForgets ==
  /\ pc = "unlocked"
  /\ skb_free' = NoSkb
  /\ pc' = "idle"
  /\ UNCHANGED <<cown, skb_ptr, dma, cur_index, alive, queued, requeued>>
  /\ UNCHANGED engineVars

\* Mutant: skb_free keeps its value for the next call.
SendFreeKeeps ==
  /\ pc = "unlocked"
  /\ alive' = alive \ {skb_free}
  /\ pc' = "idle"
  /\ UNCHANGED <<cown, skb_ptr, dma, cur_index, skb_free, queued, requeued>>
  /\ UNCHANGED engineVars

\* Mutant: the engine is stopped at the end of the call.
SendFreeStops ==
  /\ pc = "unlocked"
  /\ alive' = alive \ {skb_free}
  /\ skb_free' = NoSkb
  /\ dma' = FALSE
  /\ pc' = "idle"
  /\ UNCHANGED <<cown, skb_ptr, cur_index, queued, requeued>>
  /\ UNCHANGED engineVars

\* After the lock is released: if (skb_free) dev_kfree_skb(skb_free);
SendFree ==
  /\ pc = "unlocked"
  /\ alive' = alive \ {skb_free}
  /\ skb_free' = NoSkb
  /\ pc' = "idle"
  /\ UNCHANGED <<cown, skb_ptr, dma, cur_index, queued, requeued>>
  /\ UNCHANGED engineVars

-----------------------------------------------------------------------------
(* The TS DMA engine *)

\* A running engine starts on the descriptor at TSSD when it owns it.
EngineFetch ==
  /\ dma
  /\ ~fetched
  /\ cown[tssd] = 0
  /\ fetched' = TRUE
  /\ UNCHANGED <<cown, skb_ptr, dma, driverVars, tssd, sent, onWire>>

\* It finishes the frame it has started even when it is stopped meanwhile,
\* and hands the descriptor back.
EngineDone ==
  /\ fetched
  /\ onWire' = skb_ptr[tssd]
  /\ cown' = [cown EXCEPT ![tssd] = 1]
  /\ tssd' = NextSlot(tssd)
  /\ sent' = sent + 1
  /\ fetched' = FALSE
  /\ UNCHANGED <<skb_ptr, dma, driverVars>>

-----------------------------------------------------------------------------
Send == SendStop \/ SendBusy \/ SendQueue \/ SendFree

Engine == EngineFetch \/ EngineDone

Next == Send \/ Engine

Spec == Init /\ [][Next]_vars

\* The sender runs to the end of the call, the stack offers a requeued frame
\* again (qdisc_requeue and netif_schedule), and a running engine works.
Fairness ==
  /\ WF_vars(Send)
  /\ WF_vars(Engine)

FairSpec == Spec /\ Fairness

-----------------------------------------------------------------------------
TypeOK ==
  /\ cown \in [Slots -> {0, 1}]
  /\ skb_ptr \in [Slots -> Nat \cup {NoSkb}]
  /\ cur_index \in Slots
  /\ pc \in {"idle", "locked", "unlocked"}
  /\ skb_free \in Nat \cup {NoSkb}
  /\ alive \in SUBSET Nat
  /\ queued \in Nat
  /\ requeued \in BOOLEAN
  /\ dma \in BOOLEAN
  /\ tssd \in Slots
  /\ fetched \in BOOLEAN
  /\ sent \in Nat
  /\ onWire \in Nat \cup {NoSkb}

\* How far slot i lies ahead of the engine's pointer, going round the ring.
Ahead(i) == IF i >= tssd THEN i - tssd ELSE i - tssd + TfdNum

\* The engine owns exactly the queued - sent descriptors that start at its
\* pointer, and the k-th of them holds the k-th skb it has still to send.
RingWindow ==
  \A i \in Slots :
    /\ cown[i] = 0 <=> Ahead(i) < queued - sent
    /\ cown[i] = 0 => skb_ptr[i] = sent + Ahead(i)

\* The memory of every frame that the engine may still read is allocated:
\* dev_kfree_skb never hits the skb of a descriptor the engine owns.
NoUseAfterFree == \A i \in Slots : cown[i] = 0 => skb_ptr[i] \in alive

\* dev_kfree_skb is called on skbs that are still allocated, each once.
NoDoubleFree == skb_free # NoSkb => skb_free \in alive

\* Every skb the driver has not freed is reachable: in a slot or about to be
\* freed.  The driver keeps at most TfdNum + 1 of them.
NoLeak == alive \subseteq {skb_ptr[i] : i \in Slots} \cup {skb_free}

\* The ring is a FIFO of TfdNum frames: nothing is sent twice, skipped or
\* overtaken, in particular when the indices wrap.
Fifo == INSTANCE FrameFifo WITH
          Capacity <- TfdNum, entered <- queued, left <- sent, last <- onWire

FifoSpec == Fifo!FifoSpec

-----------------------------------------------------------------------------
(* The inductive invariant behind RingWindow, NoUseAfterFree and FifoSpec. *)

\* The driver's index is the first slot behind the engine's window.
IndexInv ==
  /\ queued - sent \in 0 .. TfdNum
  /\ Ahead(cur_index) = IF queued - sent = TfdNum THEN 0 ELSE queued - sent

\* A slot the CPU owns keeps the skb of one round earlier, if there was one.
OldSlots ==
  \A i \in Slots : cown[i] = 1 =>
    skb_ptr[i] = IF sent + Ahead(i) < TfdNum THEN NoSkb
                 ELSE sent + Ahead(i) - TfdNum

\* The allocated skbs are those of the last TfdNum calls and, until it is
\* freed, the one before them.
AliveInv ==
  /\ alive = {n \in 0 .. queued - 1 :
                n >= queued - TfdNum - (IF pc = "unlocked" THEN 1 ELSE 0)}
  /\ skb_free = IF pc = "unlocked" /\ queued > TfdNum
                 THEN queued - TfdNum - 1 ELSE NoSkb

TxInv ==
  /\ TypeOK
  /\ RingWindow
  /\ fetched => cown[tssd] = 0
  /\ IndexInv
  /\ OldSlots
  /\ AliveInv

-----------------------------------------------------------------------------
\* Every queued frame gets on the wire, unless a later call found the ring
\* full and returned: that call leaves the engine stopped.
QueuedIsSent ==
  \A n \in 0 .. MaxFrames - 1 : (queued > n) ~> (sent > n \/ requeued)

\* "re-queue the skb": a frame that found the ring full is queued later.
RequeuedIsQueued == requeued ~> ~requeued

=============================================================================
