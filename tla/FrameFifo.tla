----------------------------- MODULE FrameFifo ------------------------------
(***************************************************************************)
(* What either direction of the Ethernet driver promises: a first-in       *)
(* first-out channel of frames with room for Capacity frames.  Frames are  *)
(* numbered in the order they enter; "last" is the frame that left most    *)
(* recently.  No frame is lost, duplicated or overtaken.                   *)
(***************************************************************************)
EXTENDS Integers

CONSTANT Capacity   \* descriptors in the ring

VARIABLES
  entered,    \* frames that have entered so far; the next one gets this number
  left,       \* frames that have left so far
  last        \* number of the frame that left last, -1 at the start

fifoVars == <<entered, left, last>>

FifoInit ==
  /\ entered = 0
  /\ left = 0
  /\ last = -1

Enter ==
  /\ entered - left < Capacity
  /\ entered' = entered + 1
  /\ UNCHANGED <<left, last>>

Leave ==
  /\ left < entered
  /\ left' = left + 1
  /\ last' = left
  /\ UNCHANGED entered

FifoNext == Enter \/ Leave

FifoSpec == FifoInit /\ [][FifoNext]_fifoVars

=============================================================================
