-------------------------- MODULE GpioButton_proofs --------------------------
(***************************************************************************)
(* Proofs about the push buttons, for any set of buttons, any waiting      *)
(* times and any number of presses.                                        *)
(***************************************************************************)
EXTENDS GpioButton, TLAPS

SoftRunning ==
  [at : {"cancel", "validate", "released", "report", "del", "add"}, b : Buttons, n : Nat]

\* The variables' types, with what keeps pbc_flag from falling below -1: the
\* reader has seen a report before it counts it down, and only pbc_cancel or
\* another report comes between.
TypeInv ==
  /\ TypeOK
  /\ timer \in [Buttons -> [does : {"none", "cancel", "validate"}, n : Nat]]
  /\ \A b \in Buttons : timer[b].does = "none" => timer[b] = NoTimer
  /\ soft \in {SoftIdle} \cup SoftRunning
  /\ up # {} => irq
  /\ down \in [Buttons -> BOOLEAN]
  /\ mod # "loaded" => \A b \in Buttons : rd[b] = "idle"
  /\ \A b \in Buttons : rd[b] = "copied" => pbc_flag[b] >= 0
  /\ \A b \in Buttons : rd[b] = "loaded" => value[b] >= 0

\* A report that was not read yet, or is being read, is not in the bytes.
BytesInv ==
  \A b \in Buttons :
    /\ bytes[b] <= reports[b]
    /\ rd[b] \in {"copied", "loaded"} \/ pbc_flag[b] = 2 => bytes[b] < reports[b]

\* An unread report has its 20 second timer, or gpio_pbc_end is about to start
\* it, or it runs, or a press has taken the timer.
ExpiryInv ==
  \A b \in Buttons :
    /\ SoftFor(b) => timer[b] # Cancel
    /\ pbc_flag[b] = 2 =>
         \/ timer[b] = Cancel
         \/ SoftFor(b) /\ soft.at \in {"cancel", "del", "add"}
         \/ taken[b]

\* gpio_cleanup leaves nothing behind for the buttons it has served.
CleanInv ==
  /\ mod = "loaded" => left = Buttons
  /\ mod # "cleanup" => half = {}
  /\ \A b, c \in half : b = c
  /\ up \subseteq left \cup late \cup half
  /\ mod = "gone" => left = {}
  /\ \A b \in Buttons \ (left \cup late) :
       ~Pending(timer[b]) /\ ~SoftFor(b) /\ (b \notin half => ~armed[b])

\* The handler runs alone, for one button at a time; a button that is not
\* armed is being sampled, about to be armed, or struck.
AliveInv ==
  /\ \A b, c \in up : b = c
  /\ half # {} => mod = "cleanup"
  /\ mod = "loaded" =>
       \A b \in Buttons \ struck :
         \/ armed[b]
         \/ timer[b].does = "validate"
         \/ SoftFor(b) /\ soft.at \in {"validate", "released", "report"}
         \/ b \in up

\* A latched edge waits for the handler or for the button to be armed; a press
\* that is not reported, sampled or latched was missed.
WatchInv ==
  mod = "loaded" =>
    \A b \in Buttons \ (missed \cup struck) : pin[b] = "on" =>
      \/ down[b]
      \/ /\ raw[b]
         /\ armed[b] \/ (SoftFor(b) /\ soft.at \in {"released", "report"})
         /\ irq => b \in gpio_intr
      \/ Sampling(b)

-----------------------------------------------------------------------------
(* Types *)

\* Every step of the handler, the timer functions, gpio_read and gpio_cleanup
\* keeps the variables in their types.
LEMMA ButtonTypes == Spec => []TypeInv
<1> USE WaitAssumption DEF TypeInv, TypeOK, SoftRunning, SoftIdle, NoTimer, Cancel, Validate
<1>1. Init => TypeInv
  <2> SUFFICES ASSUME Init PROVE TypeInv
    OBVIOUS
  <2>1. irq \in BOOLEAN
    BY DEF Init
  <2>2. /\ timer \in [Buttons -> [does : {"none", "cancel", "validate"}, n : Nat]]
        /\ \A b \in Buttons : timer[b] \in [does : {"none", "cancel", "validate"}, n : 0 .. Wait[b]]
        /\ \A b \in Buttons : timer[b].does = "none" => timer[b] = NoTimer
    BY DEF Init
  <2> QED
    BY <2>1, <2>2 DEF Init
<1>2. TypeInv /\ [Next]_vars => TypeInv'
  <2> SUFFICES ASSUME TypeInv, [Next]_vars PROVE TypeInv'
    OBVIOUS
  <2> USE DEF hwVars, irqVars, readVars, modVars, histVars
  <2>1. ASSUME NEW b \in Buttons, Press(b) PROVE TypeInv'
    BY <2>1 DEF Press
  <2>2. ASSUME NEW b \in Buttons, Release(b) PROVE TypeInv'
    BY <2>2 DEF Release
  <2>3. CASE IrqEnter
    BY <2>3 DEF IrqEnter
  <2>4. ASSUME NEW b \in Buttons, IrqStart(b) PROVE TypeInv'
    <3>1. CASE armed[b] /\ pin[b] = "on"
      <4>a. /\ timer' = [timer EXCEPT ![b] = Validate(1)]
            /\ taken' = [taken EXCEPT ![b] = @ \/ timer[b] = Cancel]
        BY <2>4, <3>1, Zenon DEF IrqStart
      <4>1. /\ timer' \in [Buttons -> [does : {"none", "cancel", "validate"}, n : Nat]]
            /\ \A c \in Buttons : timer'[c] = IF c = b THEN Validate(1) ELSE timer[c]
        BY <4>a
      <4>2. armed' \in [Buttons -> BOOLEAN]
        <5>1. Disarm(b)
          BY <2>4, <3>1, Zenon DEF IrqStart
        <5>2. armed \in [Buttons -> BOOLEAN]
          OBVIOUS
        <5> QED BY <5>1, <5>2, Zenon DEF Disarm
      <4>3. taken' \in [Buttons -> BOOLEAN]
        <5>1. taken \in [Buttons -> BOOLEAN]
          OBVIOUS
        <5> QED BY <4>a, <5>1, Zenon
      <4>4. late' \subseteq Buttons /\ gpio_intr' \subseteq Buttons /\ up' \subseteq Buttons
        BY <2>4, <3>1 DEF IrqStart
      <4>5. /\ irq
            /\ UNCHANGED <<hwVars, irq, readVars, modVars, pbc_flag, soft>>
            /\ UNCHANGED <<down, struck, reports>> /\ missed' \subseteq Buttons
        BY <2>4 DEF IrqStart
      <4>6. \A c \in Buttons :
              /\ timer'[c] \in [does : {"none", "cancel", "validate"}, n : 0 .. Wait[c]]
              /\ timer'[c].does = "none" => timer'[c] = NoTimer
        BY <4>1
      <4> QED
        BY <4>1, <4>2, <4>3, <4>4, <4>5, <4>6
    <3>2. CASE ~(armed[b] /\ pin[b] = "on")
      <4>1. UNCHANGED <<timer, taken, late>>
        BY <2>4, <3>2, Zenon DEF IrqStart
      <4>2. armed' \in [Buttons -> BOOLEAN]
        <5>1. Disarm(b) \/ armed' = armed
          BY <2>4, Zenon DEF IrqStart
        <5>2. armed \in [Buttons -> BOOLEAN]
          OBVIOUS
        <5> QED BY <5>1, <5>2, Zenon DEF Disarm
      <4>3. /\ gpio_intr' \subseteq Buttons /\ up' \subseteq Buttons /\ irq
            /\ UNCHANGED <<hwVars, irq, readVars, modVars, pbc_flag, soft>>
            /\ UNCHANGED <<down, struck, reports>> /\ missed' \subseteq Buttons
        BY <2>4 DEF IrqStart
      <4> QED
        BY <4>1, <4>2, <4>3
    <3> QED
      BY <3>1, <3>2
  <2>5. CASE IrqExit
    BY <2>5 DEF IrqExit
  <2>6. ASSUME NEW b \in Buttons, TimerFire(b) PROVE TypeInv'
    <3>1. soft' \in SoftRunning
      BY <2>6 DEF TimerFire, Pending
    <3>2. /\ timer' \in [Buttons -> [does : {"none", "cancel", "validate"}, n : Nat]]
          /\ \A c \in Buttons : timer'[c] = IF c = b THEN NoTimer ELSE timer[c]
      BY <2>6 DEF TimerFire
    <3> QED
      BY <2>6, <3>1, <3>2 DEF TimerFire
  <2>7. CASE ValidateReleased
    BY <2>7 DEF ValidateReleased, Arm
  <2>8. CASE ValidateAgain
    BY <2>8 DEF ValidateAgain
  <2>9. CASE EndReport
    <3>1. soft \in SoftRunning /\ soft' \in SoftRunning
      BY <2>9 DEF EndReport
    <3>2. armed' \in [Buttons -> BOOLEAN] /\ taken' \in [Buttons -> BOOLEAN]
      <4>1. armed \in [Buttons -> BOOLEAN] /\ taken \in [Buttons -> BOOLEAN]
        OBVIOUS
      <4> QED BY <2>9, <4>1, Zenon DEF EndReport, Arm
    <3>3. /\ pbc_flag' \in [Buttons -> -1 .. 2] /\ reports' \in [Buttons -> Nat]
          /\ \A c \in Buttons : pbc_flag'[c] \in {pbc_flag[c], 2}
      BY <2>9 DEF EndReport
    <3> QED
      BY <2>9, <3>1, <3>2, <3>3 DEF EndReport
  <2>10. CASE EndDelTimer
    <3>1. soft \in SoftRunning /\ soft' \in SoftRunning
      BY <2>10 DEF EndDelTimer
    <3>2. /\ timer' \in [Buttons -> [does : {"none", "cancel", "validate"}, n : Nat]]
          /\ \A c \in Buttons : timer'[c] = IF c = soft.b THEN NoTimer ELSE timer[c]
      BY <2>10, <3>1 DEF EndDelTimer
    <3> QED
      BY <2>10, <3>1, <3>2 DEF EndDelTimer, Strikes
  <2>11. CASE EndAddTimer
    BY <2>11 DEF EndAddTimer, Strikes
  <2>12. CASE CancelReport
    BY <2>12 DEF CancelReport
  <2>13. ASSUME NEW b \in Buttons, ReadWake(b) PROVE TypeInv'
    BY <2>13 DEF ReadWake
  <2>14. ASSUME NEW b \in Buttons, ReadTest(b) PROVE TypeInv'
    BY <2>14 DEF ReadTest
  <2>15. ASSUME NEW b \in Buttons, ReadLoad(b) PROVE TypeInv'
    BY <2>15 DEF ReadLoad
  <2>16. ASSUME NEW b \in Buttons, ReadStore(b) PROVE TypeInv'
    BY <2>16 DEF ReadStore
  <2>17. ASSUME NEW b \in Buttons, ReadEof(b) PROVE TypeInv'
    BY <2>17 DEF ReadEof
  <2>18. CASE CleanStart
    BY <2>18 DEF CleanStart
  <2>19. ASSUME NEW b \in Buttons, CleanTimer(b) PROVE TypeInv'
    BY <2>19 DEF CleanTimer
  <2>20. ASSUME NEW b \in Buttons, CleanIntr(b) PROVE TypeInv'
    BY <2>20 DEF CleanIntr, Disarm
  <2>21. CASE CleanEnd
    BY <2>21 DEF CleanEnd
  <2>22. CASE UNCHANGED vars
    BY <2>22 DEF vars
  <2>23. ASSUME NEW b \in Buttons, IrqRearm(b) PROVE TypeInv'
    BY <2>23 DEF IrqRearm, Arm
  <2>24. CASE Rearm
    BY <2>24 DEF Rearm, Arm
  <2>25. CASE ValidateLast
    BY <2>25 DEF ValidateLast
  <2> QED
    BY <2>1, <2>2, <2>3, <2>4, <2>5, <2>6, <2>7, <2>8, <2>9, <2>10, <2>11, <2>12, <2>13,
       <2>14, <2>15, <2>16, <2>17, <2>18, <2>19, <2>20, <2>21, <2>22, <2>23, <2>24, <2>25
    DEF Next, Pins, Irq, TimerFunction, Read, Cleanup
<1> QED
  BY <1>1, <1>2, PTL DEF Spec

-----------------------------------------------------------------------------
(* Reports *)

\* Every byte gpio_read returns stands for a report of its own.
LEMMA ButtonBytes == Spec => []BytesInv
<1> USE DEF BytesInv
<1>1. Init => BytesInv
  <2> SUFFICES ASSUME Init, NEW b \in Buttons
               PROVE  /\ bytes[b] <= reports[b]
                      /\ rd[b] \notin {"copied", "loaded"} /\ pbc_flag[b] # 2
    OBVIOUS
  <2>1. bytes[b] = 0 /\ reports[b] = 0 /\ rd[b] = "idle" /\ pbc_flag[b] = 0
    BY DEF Init
  <2> QED
    BY <2>1
<1>2. TypeInv /\ BytesInv /\ [Next]_vars => BytesInv'
  <2> SUFFICES ASSUME TypeInv, BytesInv, [Next]_vars PROVE BytesInv'
    OBVIOUS
  <2> USE DEF hwVars, irqVars, readVars, modVars, histVars
  <2>1. ASSUME NEW b \in Buttons, Press(b) PROVE BytesInv'
    BY <2>1 DEF Press
  <2>2. ASSUME NEW b \in Buttons, Release(b) PROVE BytesInv'
    BY <2>2 DEF Release
  <2>3. CASE IrqEnter
    BY <2>3 DEF IrqEnter
  <2>4. ASSUME NEW b \in Buttons, IrqStart(b) PROVE BytesInv'
    BY <2>4 DEF IrqStart
  <2>5. CASE IrqExit
    BY <2>5 DEF IrqExit
  <2>6. ASSUME NEW b \in Buttons, TimerFire(b) PROVE BytesInv'
    BY <2>6 DEF TimerFire
  <2>7. CASE ValidateReleased
    BY <2>7 DEF ValidateReleased
  <2>8. CASE ValidateAgain
    BY <2>8 DEF ValidateAgain
  <2>9. CASE EndReport
    BY <2>9 DEF EndReport, TypeInv, TypeOK
  <2>10. CASE EndDelTimer
    BY <2>10 DEF EndDelTimer
  <2>11. CASE EndAddTimer
    BY <2>11 DEF EndAddTimer
  <2>12. CASE CancelReport
    BY <2>12 DEF CancelReport
  <2>13. ASSUME NEW b \in Buttons, ReadWake(b) PROVE BytesInv'
    BY <2>13 DEF ReadWake
  <2>14. ASSUME NEW b \in Buttons, ReadTest(b) PROVE BytesInv'
    BY <2>14 DEF ReadTest, TypeInv, TypeOK
  <2>15. ASSUME NEW b \in Buttons, ReadLoad(b) PROVE BytesInv'
    BY <2>15 DEF ReadLoad
  <2>16. ASSUME NEW b \in Buttons, ReadStore(b) PROVE BytesInv'
    BY <2>16 DEF ReadStore, TypeInv, TypeOK
  <2>17. ASSUME NEW b \in Buttons, ReadEof(b) PROVE BytesInv'
    BY <2>17 DEF ReadEof
  <2>18. CASE CleanStart
    BY <2>18 DEF CleanStart
  <2>19. ASSUME NEW b \in Buttons, CleanTimer(b) PROVE BytesInv'
    BY <2>19 DEF CleanTimer
  <2>20. ASSUME NEW b \in Buttons, CleanIntr(b) PROVE BytesInv'
    BY <2>20 DEF CleanIntr
  <2>21. CASE CleanEnd
    BY <2>21 DEF CleanEnd
  <2>22. CASE UNCHANGED vars
    BY <2>22 DEF vars
  <2>23. ASSUME NEW b \in Buttons, IrqRearm(b) PROVE BytesInv'
    BY <2>23 DEF IrqRearm
  <2>24. CASE Rearm
    BY <2>24 DEF Rearm
  <2>25. CASE ValidateLast
    BY <2>25 DEF ValidateLast
  <2> QED
    BY <2>1, <2>2, <2>3, <2>4, <2>5, <2>6, <2>7, <2>8, <2>9, <2>10, <2>11, <2>12, <2>13,
       <2>14, <2>15, <2>16, <2>17, <2>18, <2>19, <2>20, <2>21, <2>22, <2>23, <2>24, <2>25
    DEF Next, Pins, Irq, TimerFunction, Read, Cleanup
<1> QED
  BY <1>1, <1>2, ButtonTypes, PTL DEF Spec

\* A reader gets at most one byte for each press that was held long enough,
\* whatever presses and cancellations come between the steps of gpio_read.
THEOREM ButtonOneBytePerReport == Spec => []OneBytePerReport
<1>1. BytesInv => OneBytePerReport
  BY DEF BytesInv, OneBytePerReport
<1> QED
  BY <1>1, ButtonBytes, PTL

\* The 20 second timer follows the report through every step.
LEMMA ButtonExpiry == Spec => []ExpiryInv
<1> USE DEF ExpiryInv, SoftFor, SoftIdle, Cancel
<1>1. Init => ExpiryInv
  <2> SUFFICES ASSUME Init, NEW b \in Buttons PROVE soft = SoftIdle /\ pbc_flag[b] # 2
    OBVIOUS
  <2>1. soft = SoftIdle /\ pbc_flag[b] = 0
    BY DEF Init
  <2> QED
    BY <2>1
<1>2. TypeInv /\ ExpiryInv /\ [Next]_vars => ExpiryInv'
  <2> SUFFICES ASSUME TypeInv, ExpiryInv, [Next]_vars PROVE ExpiryInv'
    OBVIOUS
  <2> USE DEF hwVars, irqVars, readVars, modVars, histVars
  <2>1. ASSUME NEW b \in Buttons, Press(b) PROVE ExpiryInv'
    BY <2>1 DEF Press
  <2>2. ASSUME NEW b \in Buttons, Release(b) PROVE ExpiryInv'
    BY <2>2 DEF Release
  <2>3. CASE IrqEnter
    BY <2>3 DEF IrqEnter
  <2>4. ASSUME NEW b \in Buttons, IrqStart(b) PROVE ExpiryInv'
    <3>1. CASE armed[b] /\ pin[b] = "on"
      <4>1. /\ timer' = [timer EXCEPT ![b] = Validate(1)]
            /\ taken' = [taken EXCEPT ![b] = @ \/ timer[b] = Cancel]
            /\ UNCHANGED <<pbc_flag, soft>>
        BY <2>4, <3>1, Zenon DEF IrqStart
      <4>2. \A c \in Buttons : timer'[c] = IF c = b THEN Validate(1) ELSE timer[c]
        BY <4>1 DEF TypeInv
      <4>a. taken \in [Buttons -> BOOLEAN]
        BY DEF TypeInv, TypeOK
      <4>3. taken'[b] = (taken[b] \/ timer[b] = Cancel)
        BY <4>1, <4>a, Zenon
      <4>4. \A c \in Buttons : c # b => taken'[c] = taken[c]
        BY <4>1, <4>a, Zenon
      <4>5. timer[b] = Cancel => taken'[b]
        BY <4>3, Zenon
      <4>6. \A c \in Buttons : taken[c] => taken'[c]
        BY <4>3, <4>4, Zenon
      <4> QED
        BY <4>1, <4>2, <4>5, <4>6 DEF Validate
    <3>2. CASE ~(armed[b] /\ pin[b] = "on")
      BY <2>4, <3>2 DEF IrqStart
    <3> QED
      BY <3>1, <3>2
  <2>5. CASE IrqExit
    BY <2>5 DEF IrqExit
  <2>6. ASSUME NEW b \in Buttons, TimerFire(b) PROVE ExpiryInv'
    <3>1. /\ soft = SoftIdle
          /\ soft' = [at |-> timer[b].does, b |-> b, n |-> timer[b].n]
          /\ soft'.at # "idle" /\ soft'.b = b /\ soft' # SoftIdle
      BY <2>6 DEF TimerFire, ProcessFree, TypeInv
    <3>2. \A c \in Buttons : timer'[c] = IF c = b THEN NoTimer ELSE timer[c]
      BY <2>6 DEF TimerFire, TypeInv
    <3>3. UNCHANGED <<pbc_flag, taken>>
      BY <2>6 DEF TimerFire
    <3>4. timer[b] = Cancel => soft'.at = "cancel"
      BY <3>1
    <3> SUFFICES ASSUME NEW c \in Buttons
                 PROVE  /\ SoftFor(c)' => timer'[c] # Cancel
                        /\ pbc_flag'[c] = 2 =>
                             \/ timer'[c] = Cancel
                             \/ SoftFor(c)' /\ soft'.at \in {"cancel", "del", "add"}
                             \/ taken'[c]
      OBVIOUS
    <3>5. CASE c = b
      BY <3>1, <3>2, <3>3, <3>4, <3>5 DEF NoTimer
    <3>6. CASE c # b
      BY <3>1, <3>2, <3>3, <3>6
    <3> QED
      BY <3>5, <3>6
  <2>7. CASE ValidateReleased
    BY <2>7 DEF ValidateReleased
  <2>8. CASE ValidateAgain
    BY <2>8 DEF ValidateAgain
  <2>9. CASE EndReport
    BY <2>9 DEF EndReport
  <2>10. CASE EndDelTimer
    BY <2>10 DEF EndDelTimer, NoTimer
  <2>11. CASE EndAddTimer
    BY <2>11 DEF EndAddTimer, TypeInv
  <2>12. CASE CancelReport
    BY <2>12 DEF CancelReport, TypeInv, TypeOK
  <2>13. ASSUME NEW b \in Buttons, ReadWake(b) PROVE ExpiryInv'
    BY <2>13 DEF ReadWake
  <2>14. ASSUME NEW b \in Buttons, ReadTest(b) PROVE ExpiryInv'
    BY <2>14 DEF ReadTest
  <2>15. ASSUME NEW b \in Buttons, ReadLoad(b) PROVE ExpiryInv'
    BY <2>15 DEF ReadLoad
  <2>16. ASSUME NEW b \in Buttons, ReadStore(b) PROVE ExpiryInv'
    BY <2>16 DEF ReadStore, TypeInv, TypeOK
  <2>17. ASSUME NEW b \in Buttons, ReadEof(b) PROVE ExpiryInv'
    BY <2>17 DEF ReadEof
  <2>18. CASE CleanStart
    BY <2>18 DEF CleanStart
  <2>19. ASSUME NEW b \in Buttons, CleanTimer(b) PROVE ExpiryInv'
    BY <2>19 DEF CleanTimer, TypeInv, TypeOK, NoTimer
  <2>20. ASSUME NEW b \in Buttons, CleanIntr(b) PROVE ExpiryInv'
    BY <2>20 DEF CleanIntr
  <2>21. CASE CleanEnd
    BY <2>21 DEF CleanEnd
  <2>22. CASE UNCHANGED vars
    BY <2>22 DEF vars
  <2>23. ASSUME NEW b \in Buttons, IrqRearm(b) PROVE ExpiryInv'
    BY <2>23 DEF IrqRearm
  <2>24. CASE Rearm
    BY <2>24 DEF Rearm
  <2>25. CASE ValidateLast
    BY <2>25 DEF ValidateLast
  <2> QED
    BY <2>1, <2>2, <2>3, <2>4, <2>5, <2>6, <2>7, <2>8, <2>9, <2>10, <2>11, <2>12, <2>13,
       <2>14, <2>15, <2>16, <2>17, <2>18, <2>19, <2>20, <2>21, <2>22, <2>23, <2>24, <2>25
    DEF Next, Pins, Irq, TimerFunction, Read, Cleanup
<1> QED
  BY <1>1, <1>2, ButtonTypes, PTL DEF Spec

\* An unread report has a timer that ends it, unless the first sample of a
\* later press has taken the timer.
THEOREM ButtonReportExpires == Spec => []ReportExpires
<1>1. TypeInv /\ ExpiryInv => ReportExpires
  BY DEF ExpiryInv, ReportExpires, Pending, NoTimer, Cancel
<1> QED
  BY <1>1, ButtonTypes, ButtonExpiry, PTL

-----------------------------------------------------------------------------
(* rmmod *)

\* A button that gpio_cleanup has served stays quiet, unless it was pressed
\* between the two halves of its clean-up.
LEMMA ButtonClean == Spec => []CleanInv
<1> USE DEF CleanInv, SoftFor, SoftIdle, Pending
<1>1. Init => CleanInv
  BY DEF Init
<1>2. TypeInv /\ CleanInv /\ [Next]_vars => CleanInv'
  <2> SUFFICES ASSUME TypeInv, CleanInv, [Next]_vars PROVE CleanInv'
    OBVIOUS
  <2> USE DEF hwVars, irqVars, readVars, modVars, histVars
  <2>1. ASSUME NEW b \in Buttons, Press(b) PROVE CleanInv'
    BY <2>1 DEF Press
  <2>2. ASSUME NEW b \in Buttons, Release(b) PROVE CleanInv'
    BY <2>2 DEF Release
  <2>3. CASE IrqEnter
    BY <2>3 DEF IrqEnter
  <2>4. ASSUME NEW b \in Buttons, IrqStart(b) PROVE CleanInv'
    <3>1. /\ UNCHANGED <<modVars, soft>>
          /\ late \subseteq late'
          /\ \A c \in Buttons : c # b => armed'[c] = armed[c] /\ timer'[c] = timer[c]
      BY <2>4 DEF IrqStart, Disarm, TypeInv, TypeOK
    <3>2. CASE armed[b] /\ pin[b] = "on"
      <4>1. b \in left \cup late' /\ up' = {}
        BY <2>4, <3>2 DEF IrqStart
      <4> QED
        BY <3>1, <4>1
    <3>3. CASE ~(armed[b] /\ pin[b] = "on")
      <4>1. UNCHANGED <<timer, late>>
        BY <2>4, <3>3, Zenon DEF IrqStart
      <4>2. armed'[b] => armed[b]
        BY <2>4 DEF IrqStart, Disarm, TypeInv, TypeOK
      <4>3. up' = {} \/ (up' = {b} /\ armed[b])
        BY <2>4, Zenon DEF IrqStart
      <4> QED
        BY <3>1, <4>1, <4>2, <4>3
    <3> QED
      BY <3>2, <3>3
  <2>5. CASE IrqExit
    BY <2>5 DEF IrqExit
  <2>6. ASSUME NEW b \in Buttons, TimerFire(b) PROVE CleanInv'
    BY <2>6 DEF TimerFire
  <2>7. CASE ValidateReleased
    BY <2>7 DEF ValidateReleased, Arm
  <2>8. CASE ValidateAgain
    BY <2>8 DEF ValidateAgain
  <2>9. CASE EndReport
    BY <2>9 DEF EndReport, Arm
  <2>10. CASE EndDelTimer
    BY <2>10 DEF EndDelTimer
  <2>11. CASE EndAddTimer
    BY <2>11 DEF EndAddTimer
  <2>12. CASE CancelReport
    BY <2>12 DEF CancelReport
  <2>13. ASSUME NEW b \in Buttons, ReadWake(b) PROVE CleanInv'
    BY <2>13 DEF ReadWake
  <2>14. ASSUME NEW b \in Buttons, ReadTest(b) PROVE CleanInv'
    BY <2>14 DEF ReadTest
  <2>15. ASSUME NEW b \in Buttons, ReadLoad(b) PROVE CleanInv'
    BY <2>15 DEF ReadLoad
  <2>16. ASSUME NEW b \in Buttons, ReadStore(b) PROVE CleanInv'
    BY <2>16 DEF ReadStore
  <2>17. ASSUME NEW b \in Buttons, ReadEof(b) PROVE CleanInv'
    BY <2>17 DEF ReadEof
  <2>18. CASE CleanStart
    BY <2>18 DEF CleanStart
  <2>19. ASSUME NEW b \in Buttons, CleanTimer(b) PROVE CleanInv'
    <3>1. /\ mod = "cleanup" /\ half = {} /\ soft = SoftIdle
          /\ left' = left \ {b} /\ half' = {b}
          /\ UNCHANGED <<armed, up, mod, soft, late>>
      BY <2>19 DEF CleanTimer, ProcessFree
    <3>2. \A c \in Buttons : timer'[c] = IF c = b THEN NoTimer ELSE timer[c]
      BY <2>19 DEF CleanTimer, TypeInv
    <3> QED
      BY <3>1, <3>2
  <2>20. ASSUME NEW b \in Buttons, CleanIntr(b) PROVE CleanInv'
    BY <2>20 DEF CleanIntr, ProcessFree, SoftFree, TypeInv, TypeOK, Disarm
  <2>21. CASE CleanEnd
    BY <2>21 DEF CleanEnd
  <2>22. CASE UNCHANGED vars
    BY <2>22 DEF vars
  <2>23. ASSUME NEW b \in Buttons, IrqRearm(b) PROVE CleanInv'
    <3>1. b \in left \cup late \cup half /\ up' = {} /\ UNCHANGED <<timer, soft, late, modVars>>
      BY <2>23 DEF IrqRearm
    <3>2. \A c \in Buttons : c # b => armed'[c] = armed[c]
      BY <2>23 DEF IrqRearm, Arm, TypeInv, TypeOK
    <3>3. \A c \in Buttons \ (left \cup late) :
            ~Pending(timer[c]) /\ ~SoftFor(c) /\ (c \notin half => ~armed'[c])
      BY <3>1, <3>2
    <3> QED
      BY <3>1, <3>3
  <2>24. CASE Rearm
    BY <2>24 DEF Rearm, Arm
  <2>25. CASE ValidateLast
    BY <2>25 DEF ValidateLast
  <2> QED
    BY <2>1, <2>2, <2>3, <2>4, <2>5, <2>6, <2>7, <2>8, <2>9, <2>10, <2>11, <2>12, <2>13,
       <2>14, <2>15, <2>16, <2>17, <2>18, <2>19, <2>20, <2>21, <2>22, <2>23, <2>24, <2>25
    DEF Next, Pins, Irq, TimerFunction, Read, Cleanup
<1> QED
  BY <1>1, <1>2, ButtonTypes, PTL DEF Spec

\* Whatever the buttons, timers and readers were doing when rmmod began,
\* nothing calls into the module once it is gone, but for a button that was
\* pressed between del_timer and str9100_gpio_clear_intr.
THEOREM ButtonUnloadedIsQuiet == Spec => []UnloadedIsQuiet
<1>1. CleanInv => UnloadedIsQuiet
  BY DEF CleanInv, UnloadedIsQuiet
<1> QED
  BY <1>1, ButtonClean, PTL

-----------------------------------------------------------------------------
(* Presses *)

\* Whoever disarms a button leaves it to a timer or arms it again.
LEMMA ButtonAliveInvariant == Spec => []AliveInv
<1> USE DEF AliveInv, SoftFor, SoftIdle
<1>1. Init => AliveInv
  BY DEF Init
<1>2. TypeInv /\ AliveInv /\ [Next]_vars => AliveInv'
  <2> SUFFICES ASSUME TypeInv, AliveInv, [Next]_vars PROVE AliveInv'
    OBVIOUS
  <2> USE DEF hwVars, irqVars, readVars, modVars, histVars
  <2>1. ASSUME NEW b \in Buttons, Press(b) PROVE AliveInv'
    BY <2>1 DEF Press, TypeInv, TypeOK, ProcessFree, EdgeAllowed
  <2>2. ASSUME NEW b \in Buttons, Release(b) PROVE AliveInv'
    BY <2>2 DEF Release, TypeInv, TypeOK
  <2>3. CASE IrqEnter
    BY <2>3 DEF IrqEnter, IrqDue
  <2>4. ASSUME NEW b \in Buttons, IrqStart(b) PROVE AliveInv'
    <3>1. up = {} /\ UNCHANGED <<modVars, soft, struck>> /\ (up' = {} \/ up' = {b})
      BY <2>4 DEF IrqStart
    <3>2. \A c \in Buttons : c # b => armed'[c] = armed[c] /\ timer'[c] = timer[c]
      BY <2>4 DEF IrqStart, Disarm, TypeInv, TypeOK
    <3>3. \/ timer'[b].does = "validate"
          \/ up' = {b}
          \/ armed'[b] = armed[b] /\ timer'[b] = timer[b]
      <4>1. CASE armed[b] /\ pin[b] = "on"
        <5>1. timer' = [timer EXCEPT ![b] = Validate(1)]
          BY <2>4, <4>1, Zenon DEF IrqStart
        <5> QED BY <5>1 DEF Validate, TypeInv
      <4>2. CASE ~armed[b]
        BY <2>4, <4>2, Zenon DEF IrqStart
      <4>3. CASE armed[b] /\ pin[b] = "off"
        BY <2>4, <4>3, Zenon DEF IrqStart
      <4> QED
        BY <4>1, <4>2, <4>3 DEF TypeInv, TypeOK
    <3> QED
      BY <3>1, <3>2, <3>3
  <2>5. CASE IrqExit
    BY <2>5 DEF IrqExit
  <2>6. ASSUME NEW b \in Buttons, TimerFire(b) PROVE AliveInv'
    BY <2>6 DEF TimerFire, TypeInv, ProcessFree, SoftFree, IrqDue
  <2>7. CASE ValidateReleased
    BY <2>7 DEF ValidateReleased, TypeInv, TypeOK, Arm
  <2>8. CASE ValidateAgain
    BY <2>8 DEF ValidateAgain, TypeInv, Validate
  <2>9. CASE EndReport
    BY <2>9 DEF EndReport, TypeInv, TypeOK, SoftRunning, Arm
  <2>10. CASE EndDelTimer
    BY <2>10 DEF EndDelTimer, Strikes, TypeInv, SoftRunning
  <2>11. CASE EndAddTimer
    BY <2>11 DEF EndAddTimer, Strikes, TypeInv, SoftRunning
  <2>12. CASE CancelReport
    BY <2>12 DEF CancelReport
  <2>13. ASSUME NEW b \in Buttons, ReadWake(b) PROVE AliveInv'
    BY <2>13 DEF ReadWake
  <2>14. ASSUME NEW b \in Buttons, ReadTest(b) PROVE AliveInv'
    BY <2>14 DEF ReadTest
  <2>15. ASSUME NEW b \in Buttons, ReadLoad(b) PROVE AliveInv'
    BY <2>15 DEF ReadLoad
  <2>16. ASSUME NEW b \in Buttons, ReadStore(b) PROVE AliveInv'
    BY <2>16 DEF ReadStore
  <2>17. ASSUME NEW b \in Buttons, ReadEof(b) PROVE AliveInv'
    BY <2>17 DEF ReadEof
  <2>18. CASE CleanStart
    BY <2>18 DEF CleanStart
  <2>19. ASSUME NEW b \in Buttons, CleanTimer(b) PROVE AliveInv'
    BY <2>19 DEF CleanTimer
  <2>20. ASSUME NEW b \in Buttons, CleanIntr(b) PROVE AliveInv'
    BY <2>20 DEF CleanIntr, ProcessFree, SoftFree, IrqDue
  <2>21. CASE CleanEnd
    BY <2>21 DEF CleanEnd
  <2>22. CASE UNCHANGED vars
    BY <2>22 DEF vars
  <2>23. ASSUME NEW b \in Buttons, IrqRearm(b) PROVE AliveInv'
    BY <2>23 DEF IrqRearm, Arm, TypeInv, TypeOK
  <2>24. CASE Rearm
    BY <2>24 DEF Rearm, Arm, TypeInv, TypeOK, SoftRunning
  <2>25. CASE ValidateLast
    BY <2>25 DEF ValidateLast, TypeInv, SoftRunning
  <2> QED
    BY <2>1, <2>2, <2>3, <2>4, <2>5, <2>6, <2>7, <2>8, <2>9, <2>10, <2>11, <2>12, <2>13,
       <2>14, <2>15, <2>16, <2>17, <2>18, <2>19, <2>20, <2>21, <2>22, <2>23, <2>24, <2>25
    DEF Next, Pins, Irq, TimerFunction, Read, Cleanup
<1> QED
  BY <1>1, <1>2, ButtonTypes, PTL DEF Spec

\* "Restart interrupt to be ready next press of PB": whenever the pins change,
\* a button goes dead only through a press that is served between set_edgeintr
\* and add_timer of gpio_pbc_end.
THEOREM ButtonStaysAlive == Spec => []ButtonAlive
<1>1. TypeInv /\ AliveInv => ButtonAlive
  BY DEF TypeInv, AliveInv, ButtonAlive
<1> QED
  BY <1>1, ButtonTypes, ButtonAliveInvariant, PTL

\* A press is followed from its edge to its report.
LEMMA ButtonWatchInvariant == Spec => []WatchInv
<1> USE DEF WatchInv, Unwatched, Sampling, SoftFor, SoftIdle
<1>1. Init => WatchInv
  BY DEF Init
<1>2. TypeInv /\ AliveInv /\ WatchInv /\ [Next]_vars => WatchInv'
  <2> SUFFICES ASSUME TypeInv, AliveInv, WatchInv, [Next]_vars PROVE WatchInv'
    OBVIOUS
  <2> USE DEF hwVars, irqVars, readVars, modVars, histVars
  <2>1. ASSUME NEW b \in Buttons, Press(b) PROVE WatchInv'
    <3>1. /\ UNCHANGED <<irqVars, readVars, modVars, pbc_flag, timer, soft>>
          /\ UNCHANGED <<down, struck>>
          /\ missed \subseteq missed'
      BY <2>1 DEF Press
    <3>2. \A c \in Buttons : c # b => pin'[c] = pin[c] /\ raw'[c] = raw[c]
      BY <2>1 DEF Press, TypeInv, TypeOK
    <3>3. /\ armed[b] => raw'[b]
          /\ irq /\ ~Sampling(b) /\ b \notin missed' => b \in gpio_intr /\ armed[b]
      BY <2>1 DEF Press, Lost, TypeInv, TypeOK
    <3>4. ~irq /\ Unwatched(b) /\ b \notin missed' => raw'[b]
      BY <2>1 DEF Press, Lost, TypeInv, TypeOK
    <3>5. mod = "loaded" => b \in struck \/ armed[b] \/ Sampling(b) \/ Unwatched(b)
      BY DEF AliveInv, TypeInv, SoftRunning
    <3>6. up # {} => irq
      BY DEF TypeInv
    <3> QED
      BY <3>1, <3>2, <3>3, <3>4, <3>5, <3>6
  <2>2. ASSUME NEW b \in Buttons, Release(b) PROVE WatchInv'
    BY <2>2 DEF Release, TypeInv, TypeOK
  <2>3. CASE IrqEnter
    BY <2>3 DEF IrqEnter
  <2>4. ASSUME NEW b \in Buttons, IrqStart(b) PROVE WatchInv'
    BY <2>4 DEF IrqStart, TypeInv, TypeOK, Validate, Disarm
  <2>5. CASE IrqExit
    BY <2>5 DEF IrqExit
  <2>6. ASSUME NEW b \in Buttons, TimerFire(b) PROVE WatchInv'
    BY <2>6 DEF TimerFire, ProcessFree
  <2>7. CASE ValidateReleased
    BY <2>7 DEF ValidateReleased, Arm
  <2>8. CASE ValidateAgain
    BY <2>8 DEF ValidateAgain, TypeInv, Validate
  <2>9. CASE EndReport
    BY <2>9 DEF EndReport, TypeInv, TypeOK, SoftRunning, Arm
  <2>10. CASE EndDelTimer
    BY <2>10 DEF EndDelTimer, Strikes, TypeInv, SoftRunning
  <2>11. CASE EndAddTimer
    BY <2>11 DEF EndAddTimer, Strikes, TypeInv, SoftRunning
  <2>12. CASE CancelReport
    BY <2>12 DEF CancelReport
  <2>13. ASSUME NEW b \in Buttons, ReadWake(b) PROVE WatchInv'
    BY <2>13 DEF ReadWake
  <2>14. ASSUME NEW b \in Buttons, ReadTest(b) PROVE WatchInv'
    BY <2>14 DEF ReadTest
  <2>15. ASSUME NEW b \in Buttons, ReadLoad(b) PROVE WatchInv'
    BY <2>15 DEF ReadLoad
  <2>16. ASSUME NEW b \in Buttons, ReadStore(b) PROVE WatchInv'
    BY <2>16 DEF ReadStore
  <2>17. ASSUME NEW b \in Buttons, ReadEof(b) PROVE WatchInv'
    BY <2>17 DEF ReadEof
  <2>18. CASE CleanStart
    BY <2>18 DEF CleanStart
  <2>19. ASSUME NEW b \in Buttons, CleanTimer(b) PROVE WatchInv'
    BY <2>19 DEF CleanTimer
  <2>20. ASSUME NEW b \in Buttons, CleanIntr(b) PROVE WatchInv'
    BY <2>20 DEF CleanIntr, ProcessFree, SoftFree, IrqDue
  <2>21. CASE CleanEnd
    BY <2>21 DEF CleanEnd
  <2>22. CASE UNCHANGED vars
    BY <2>22 DEF vars
  <2>23. ASSUME NEW b \in Buttons, IrqRearm(b) PROVE WatchInv'
    BY <2>23 DEF IrqRearm, Arm, AliveInv, TypeInv, TypeOK
  <2>24. CASE Rearm
    BY <2>24 DEF Rearm, Arm, TypeInv, TypeOK, SoftRunning
  <2>25. CASE ValidateLast
    BY <2>25 DEF ValidateLast, TypeInv, TypeOK, SoftRunning
  <2> QED
    BY <2>1, <2>2, <2>3, <2>4, <2>5, <2>6, <2>7, <2>8, <2>9, <2>10, <2>11, <2>12, <2>13,
       <2>14, <2>15, <2>16, <2>17, <2>18, <2>19, <2>20, <2>21, <2>22, <2>23, <2>24, <2>25
    DEF Next, Pins, Irq, TimerFunction, Read, Cleanup
<1> QED
  BY <1>1, <1>2, ButtonTypes, ButtonAliveInvariant, PTL DEF Spec

\* A button that is down was reported, is being sampled, or its edge waits for
\* the handler, but for the two windows in which an edge leaves no trace and for
\* a dead button.
THEOREM ButtonPressIsWatched == Spec => []PressIsWatched
<1>1. TypeInv /\ WatchInv => PressIsWatched
  BY DEF WatchInv, PressIsWatched, Sampling, SoftFor, SoftIdle
<1> QED
  BY <1>1, ButtonTypes, ButtonWatchInvariant, PTL

\* A button that nothing will arm: its interrupt is off, and no timer samples it.
Dead(b) ==
  /\ ~armed[b]
  /\ timer[b].does # "validate"
  /\ ~(SoftFor(b) /\ soft.at \in {"validate", "released", "report"})
  /\ b \notin up

\* Where a press between "restart interrupt" and add_timer of gpio_pbc_end
\* leaves a button, it stays: no edge, timer or reader revives a dead button.
THEOREM ButtonDeadForGood == ASSUME NEW b \in Buttons PROVE Spec => [](Dead(b) => []Dead(b))
<1> USE DEF Dead, SoftFor, SoftIdle
<1>1. TypeInv /\ Dead(b) /\ [Next]_vars => Dead(b)'
  <2> SUFFICES ASSUME TypeInv, Dead(b), [Next]_vars PROVE Dead(b)'
    OBVIOUS
  <2> USE DEF hwVars, irqVars, readVars, modVars, histVars
  <2>1. ASSUME NEW c \in Buttons, Press(c) \/ Release(c) PROVE Dead(b)'
    BY <2>1 DEF Press, Release
  <2>2. CASE IrqEnter \/ IrqExit
    BY <2>2 DEF IrqEnter, IrqExit
  <2>3. ASSUME NEW c \in Buttons, IrqStart(c) PROVE Dead(b)'
    <3>1. c = b => UNCHANGED <<armed, timer>> /\ up' = {}
      BY <2>3 DEF IrqStart
    <3>2. c # b => armed'[b] = armed[b] /\ timer'[b] = timer[b] /\ b \notin up'
      BY <2>3 DEF IrqStart, Disarm, TypeInv, TypeOK
    <3> QED
      BY <2>3, <3>1, <3>2 DEF IrqStart
  <2>4. ASSUME NEW c \in Buttons, TimerFire(c) PROVE Dead(b)'
    BY <2>4 DEF TimerFire, TypeInv, NoTimer
  <2>5. CASE ValidateReleased \/ Rearm \/ ValidateLast \/ EndReport
    <3>1. soft \in SoftRunning /\ soft.b # b
      BY <2>5 DEF ValidateReleased, Rearm, ValidateLast, EndReport, TypeInv, SoftRunning
    <3>2. armed'[b] = armed[b] /\ timer' = timer /\ up' = up
      BY <2>5, <3>1 DEF ValidateReleased, Rearm, ValidateLast, EndReport, Arm, TypeInv, TypeOK
    <3>3. soft' = SoftIdle \/ soft'.b = soft.b
      BY <2>5, <3>1 DEF ValidateReleased, Rearm, ValidateLast, EndReport, SoftRunning
    <3> QED
      BY <3>1, <3>2, <3>3
  <2>14. ASSUME NEW c \in Buttons, IrqRearm(c) PROVE Dead(b)'
    BY <2>14 DEF IrqRearm, Arm, TypeInv, TypeOK
  <2>6. CASE ValidateAgain
    BY <2>6 DEF ValidateAgain, TypeInv, SoftRunning
  <2>7. CASE EndDelTimer \/ EndAddTimer
    <3>1. soft \in SoftRunning /\ armed' = armed /\ up' = up
      BY <2>7 DEF EndDelTimer, EndAddTimer, TypeInv, SoftRunning
    <3>2. soft' = SoftIdle \/ soft'.at = "add"
      BY <2>7, <3>1 DEF EndDelTimer, EndAddTimer, SoftRunning
    <3>3. timer'[b].does # "validate"
      BY <2>7, <3>1 DEF EndDelTimer, EndAddTimer, SoftRunning, TypeInv, NoTimer, Cancel
    <3> QED
      BY <3>1, <3>2, <3>3
  <2>8. CASE CancelReport
    BY <2>8 DEF CancelReport
  <2>9. ASSUME NEW c \in Buttons, Read(c) PROVE Dead(b)'
    BY <2>9 DEF Read, ReadWake, ReadTest, ReadLoad, ReadStore, ReadEof
  <2>10. CASE CleanStart \/ CleanEnd
    BY <2>10 DEF CleanStart, CleanEnd
  <2>11. ASSUME NEW c \in Buttons, CleanTimer(c) PROVE Dead(b)'
    BY <2>11 DEF CleanTimer, TypeInv, NoTimer
  <2>12. ASSUME NEW c \in Buttons, CleanIntr(c) PROVE Dead(b)'
    BY <2>12 DEF CleanIntr, Disarm, TypeInv, TypeOK
  <2>13. CASE UNCHANGED vars
    BY <2>13 DEF vars
  <2> QED
    BY <2>1, <2>2, <2>3, <2>4, <2>5, <2>6, <2>7, <2>8, <2>9, <2>10, <2>11, <2>12, <2>13, <2>14
    DEF Next, Pins, Irq, TimerFunction, Cleanup
<1> QED
  BY <1>1, ButtonTypes, PTL DEF Spec

-----------------------------------------------------------------------------
(* The samples of a press *)

\* pbc_validate_push works on b, up to the arming of its interrupt.
Validating(b) == SoftFor(b) /\ soft.at \in {"validate", "released", "report"}

\* A button that is being sampled is disarmed, by one timer.
SampleInv ==
  \A b \in Buttons :
    /\ timer[b].does = "validate" => ~armed[b] /\ ~Validating(b)
    /\ Validating(b) => ~armed[b]
    /\ b \in up => ~armed[b] /\ timer[b].does # "validate" /\ ~Validating(b)

\* How far the sampling of b has come: two steps for each 75 ms timer.
Sampled(b) ==
  IF timer[b].does = "validate" THEN 2 * timer[b].n
  ELSE IF SoftFor(b) /\ soft.at = "validate" THEN 2 * soft.n + 1
  ELSE 0

\* A step while b is held, not yet reported: b is released or reported, its
\* sampling comes nearer the last sample, the step leaves b's timer alone while
\* it is sampled, or it is the step of gpio_pbc_end that kills the button.
HeldRises ==
  \A b \in Buttons :
    pin[b] = "on" /\ ~down[b] /\ mod' = "loaded" =>
      \/ pin'[b] = "off"
      \/ down'[b]
      \/ Sampled(b) < Sampled(b)' /\ Sampled(b)' <= 2 * Wait[b] + 1
      \/ /\ Sampled(b)' = Sampled(b)
         /\ Sampled(b) > 0 => timer'[b] = timer[b] /\ (Validating(b) => soft' = soft)
      \/ b \in struck'

\* The 75 ms timer takes over from the interrupt, and gives way to it again.
LEMMA ButtonSampleInvariant == Spec => []SampleInv
<1> USE DEF SampleInv, Validating, SoftFor, SoftIdle
<1>1. Init => SampleInv
  <2> SUFFICES ASSUME Init, NEW b \in Buttons
               PROVE  soft = SoftIdle /\ timer[b].does # "validate" /\ b \notin up
    BY Zenon DEF SampleInv, Validating, SoftFor
  <2> QED
    BY DEF Init, NoTimer
<1>2. TypeInv /\ SampleInv /\ [Next]_vars => SampleInv'
  <2> SUFFICES ASSUME TypeInv, SampleInv, [Next]_vars PROVE SampleInv'
    OBVIOUS
  <2> USE DEF hwVars, irqVars, readVars, modVars, histVars
  <2>1. ASSUME NEW c \in Buttons, Press(c) \/ Release(c) PROVE SampleInv'
    BY <2>1 DEF Press, Release
  <2>2. CASE IrqEnter \/ IrqExit
    BY <2>2 DEF IrqEnter, IrqExit
  <2>3. ASSUME NEW c \in Buttons, IrqStart(c) PROVE SampleInv'
    <3>1. soft' = soft /\ up = {}
      BY <2>3 DEF IrqStart
    <3>2. \A b \in Buttons : b # c => armed'[b] = armed[b] /\ timer'[b] = timer[b] /\ b \notin up'
      BY <2>3 DEF IrqStart, Disarm, TypeInv, TypeOK
    <3>3. CASE armed[c]
      <4>1. timer[c].does # "validate" /\ ~Validating(c)
        BY <3>3
      <4>2. ~armed'[c]
        BY <2>3, <3>3 DEF IrqStart, Disarm, TypeInv, TypeOK
      <4>3. c \in up' => timer' = timer
        BY <2>3, <3>3 DEF IrqStart
      <4> QED
        BY <3>1, <3>2, <4>1, <4>2, <4>3
    <3>4. CASE ~armed[c]
      BY <2>3, <3>4 DEF IrqStart
    <3> QED
      BY <3>3, <3>4
  <2>4. ASSUME NEW c \in Buttons, TimerFire(c) PROVE SampleInv'
    <3>1. up = {} /\ up' = {} /\ soft = SoftIdle /\ armed' = armed
      BY <2>4 DEF TimerFire, ProcessFree, SoftFree, TypeInv
    <3>2. soft' = [at |-> timer[c].does, b |-> c, n |-> timer[c].n]
      BY <2>4 DEF TimerFire
    <3>3. timer[c].does \in {"cancel", "validate"}
      BY <2>4 DEF TimerFire, TypeInv, Pending
    <3>4. \A b \in Buttons : timer'[b] = IF b = c THEN NoTimer ELSE timer[b]
      BY <2>4 DEF TimerFire, TypeInv
    <3> QED
      BY <3>1, <3>2, <3>3, <3>4 DEF NoTimer
  <2>5. CASE ValidateReleased \/ ValidateLast
    <3>1. soft \in SoftRunning /\ UNCHANGED <<timer, armed, up>> /\ soft.at = "validate"
      BY <2>5 DEF ValidateReleased, ValidateLast, TypeInv, SoftRunning
    <3>2. soft'.b = soft.b /\ soft' # SoftIdle
      BY <2>5, <3>1 DEF ValidateReleased, ValidateLast, SoftRunning
    <3> QED
      BY <3>1, <3>2
  <2>6. CASE ValidateAgain
    <3>1. up = {} /\ up' = {} /\ armed' = armed /\ soft \in SoftRunning /\ soft' = SoftIdle
      BY <2>6 DEF ValidateAgain, SoftFree, TypeInv, SoftRunning
    <3>2. \A b \in Buttons : b # soft.b => timer'[b] = timer[b]
      BY <2>6 DEF ValidateAgain, TypeInv
    <3>3. ~armed[soft.b]
      BY <2>6, <3>1 DEF ValidateAgain, SoftRunning
    <3> QED
      BY <3>1, <3>2, <3>3
  <2>7. CASE EndReport \/ Rearm
    <3>1. soft \in SoftRunning /\ UNCHANGED <<timer, up>> /\ soft.at \in {"report", "released"}
      BY <2>7 DEF EndReport, Rearm, TypeInv, SoftRunning
    <3>2. soft' = SoftIdle \/ (soft'.at = "del" /\ soft'.b = soft.b)
      BY <2>7, <3>1 DEF EndReport, Rearm, SoftRunning
    <3>3. \A b \in Buttons : b # soft.b => armed'[b] = armed[b]
      BY <2>7, <3>1 DEF EndReport, Rearm, Arm, TypeInv, TypeOK
    <3>4. timer[soft.b].does # "validate" /\ soft.b \notin up
      BY <2>7, <3>1 DEF SoftRunning
    <3> QED
      BY <3>1, <3>2, <3>3, <3>4
  <2>8. CASE EndDelTimer \/ EndAddTimer
    <3>1. soft \in SoftRunning /\ UNCHANGED <<armed, up>>
      BY <2>8 DEF EndDelTimer, EndAddTimer, TypeInv, SoftRunning
    <3>2. soft' = SoftIdle \/ (soft'.at = "add" /\ soft'.b = soft.b)
      BY <2>8, <3>1 DEF EndDelTimer, EndAddTimer, SoftRunning
    <3>3. \A b \in Buttons : timer'[b].does = "validate" => b # soft.b /\ timer'[b] = timer[b]
      BY <2>8, <3>1 DEF EndDelTimer, EndAddTimer, SoftRunning, TypeInv, NoTimer, Cancel
    <3> QED
      BY <3>1, <3>2, <3>3
  <2>9. CASE CancelReport
    BY <2>9 DEF CancelReport
  <2>10. ASSUME NEW c \in Buttons, Read(c) PROVE SampleInv'
    BY <2>10 DEF Read, ReadWake, ReadTest, ReadLoad, ReadStore, ReadEof
  <2>11. CASE CleanStart \/ CleanEnd
    BY <2>11 DEF CleanStart, CleanEnd
  <2>12. ASSUME NEW c \in Buttons, CleanTimer(c) PROVE SampleInv'
    BY <2>12 DEF CleanTimer, TypeInv, NoTimer
  <2>13. ASSUME NEW c \in Buttons, CleanIntr(c) PROVE SampleInv'
    BY <2>13 DEF CleanIntr, Disarm, TypeInv, TypeOK
  <2>14. CASE UNCHANGED vars
    BY <2>14 DEF vars
  <2>15. ASSUME NEW c \in Buttons, IrqRearm(c) PROVE SampleInv'
    <3>1. UNCHANGED <<soft, timer>> /\ up' = {} /\ c \in up
      BY <2>15 DEF IrqRearm
    <3>2. \A b \in Buttons : b # c => armed'[b] = armed[b]
      BY <2>15 DEF IrqRearm, Arm, TypeInv, TypeOK
    <3> QED
      BY <3>1, <3>2
  <2> QED
    BY <2>1, <2>2, <2>3, <2>4, <2>5, <2>6, <2>7, <2>8, <2>9, <2>10, <2>11, <2>12, <2>13, <2>14,
       <2>15
    DEF Next, Pins, Irq, TimerFunction, Cleanup
<1> QED
  BY <1>1, <1>2, ButtonTypes, PTL DEF Spec

\* The safety half of "a button that is held down is reported": wherever the
\* edges fall, each step of its timer brings a held button nearer its report,
\* at most 2 * Wait[b] + 1 of them, and nothing starts the count again; only
\* gpio_pbc_end of the press before can end it, and then the button is dead.
THEOREM ButtonHeldRises == Spec => [][HeldRises]_vars
<1> USE DEF SoftFor, SoftIdle, Validating
<1>1. TypeInv /\ TypeInv' /\ SampleInv /\ [Next]_vars => [HeldRises]_vars
  <2> SUFFICES ASSUME TypeInv, TypeInv', SampleInv, [Next]_vars,
                      NEW b \in Buttons, pin[b] = "on", ~down[b], mod' = "loaded",
                      pin'[b] # "off", ~down'[b], b \notin struck'
               PROVE \/ Sampled(b) < Sampled(b)' /\ Sampled(b)' <= 2 * Wait[b] + 1
                     \/ /\ Sampled(b)' = Sampled(b)
                        /\ Sampled(b) > 0 =>
                             timer'[b] = timer[b] /\ (Validating(b) => soft' = soft)
    BY DEF HeldRises
  <2> USE DEF hwVars, irqVars, readVars, modVars, histVars
  <2>a. /\ Wait[b] \in Nat /\ timer[b].n \in Nat /\ timer'[b].n \in 0 .. Wait[b]
        /\ timer[b].n \in 0 .. Wait[b]
        /\ soft # SoftIdle => soft \in SoftRunning /\ soft.n \in Nat
    BY WaitAssumption DEF TypeInv, TypeOK, SoftRunning
  <2>b. timer'[b] = timer[b] /\ soft' = soft => Sampled(b)' = Sampled(b)
    BY DEF Sampled
  <2>c. timer'[b] = timer[b] /\ ~Validating(b) /\ ~Validating(b)' => Sampled(b)' = Sampled(b)
    BY DEF Sampled
  <2>d. mod' = "loaded" => mod = "loaded"
    BY DEF Next, Pins, Irq, TimerFunction, Read, Cleanup, Press, Release, IrqEnter, IrqStart,
           IrqRearm, IrqExit, ValidateReleased, Rearm, ValidateAgain, ValidateLast, EndReport,
           EndDelTimer, EndAddTimer, CancelReport, TimerFire, ReadWake, ReadTest, ReadLoad,
           ReadStore, ReadEof, CleanStart, CleanTimer, CleanIntr, CleanEnd, vars
  <2>1. ASSUME NEW c \in Buttons, Press(c) \/ Release(c) PROVE timer' = timer /\ soft' = soft
    BY <2>1 DEF Press, Release
  <2>2. CASE IrqEnter \/ IrqExit
    BY <2>2, <2>b DEF IrqEnter, IrqExit
  <2>3. ASSUME NEW c \in Buttons, IrqStart(c)
        PROVE \/ timer'[b] = timer[b] /\ soft' = soft
              \/ Sampled(b) < Sampled(b)' /\ Sampled(b)' <= 2 * Wait[b] + 1
    <3>1. soft' = soft
      BY <2>3 DEF IrqStart
    <3>2. CASE c # b
      BY <2>3, <3>1, <3>2 DEF IrqStart, TypeInv
    <3>3. CASE c = b /\ ~(armed[b] /\ pin[b] = "on")
      BY <2>3, <3>1, <3>3 DEF IrqStart
    <3>4. CASE c = b /\ armed[b] /\ pin[b] = "on"
      <4>1. timer[b].does # "validate" /\ ~Validating(b)
        BY <3>4 DEF SampleInv
      <4>2. timer'[b] = Validate(1)
        BY <2>3, <3>4 DEF IrqStart, TypeInv
      <4>3. Sampled(b) = 0 /\ Sampled(b)' = 2
        BY <3>1, <4>1, <4>2 DEF Sampled, Validate
      <4>4. Wait[b] > 0
        BY WaitAssumption
      <4> QED
        BY <4>3, <4>4, <2>a
    <3> QED
      BY <3>2, <3>3, <3>4
  <2>4. ASSUME NEW c \in Buttons, TimerFire(c)
        PROVE \/ timer'[b] = timer[b] /\ ~Validating(b) /\ ~Validating(b)'
              \/ Sampled(b) = 0 /\ Sampled(b)' = 0
              \/ Sampled(b) < Sampled(b)' /\ Sampled(b)' <= 2 * Wait[b] + 1
    <3>1. soft = SoftIdle
      BY <2>4 DEF TimerFire, ProcessFree
    <3>2. CASE c # b
      BY <2>4, <3>1, <3>2 DEF TimerFire, TypeInv
    <3>3. CASE c = b /\ timer[b].does # "validate"
      <4>1. timer'[b] = NoTimer /\ soft' = [at |-> timer[b].does, b |-> b, n |-> timer[b].n]
        BY <2>4, <3>3 DEF TimerFire, TypeInv
      <4> QED
        BY <3>1, <3>3, <4>1 DEF Sampled, NoTimer
    <3>4. CASE c = b /\ timer[b].does = "validate"
      <4>1. timer'[b] = NoTimer /\ soft' = [at |-> "validate", b |-> b, n |-> timer[b].n]
        BY <2>4, <3>4 DEF TimerFire, TypeInv
      <4>2. Sampled(b) = 2 * timer[b].n /\ Sampled(b)' = 2 * timer[b].n + 1
        BY <3>4, <4>1 DEF Sampled, NoTimer
      <4> QED
        BY <4>2, <2>a
    <3> QED
      BY <3>2, <3>3, <3>4
  <2>5. CASE ValidateReleased \/ ValidateLast
    <3>1. soft \in SoftRunning /\ soft.b # b /\ timer' = timer
      BY <2>5, <2>a DEF ValidateReleased, ValidateLast, TypeInv
    <3>2. soft'.b = soft.b
      BY <2>5, <3>1 DEF ValidateReleased, ValidateLast, SoftRunning
    <3> QED
      BY <3>1, <3>2, <2>c
  <2>6. CASE ValidateAgain
    <3>1. soft \in SoftRunning /\ soft' = SoftIdle /\ soft.at = "validate"
      BY <2>6, <2>a DEF ValidateAgain
    <3>2. CASE soft.b # b
      BY <2>6, <3>1, <3>2, <2>c DEF ValidateAgain, TypeInv
    <3>3. CASE soft.b = b
      <4>1. timer'[b] = Validate(soft.n + 1) /\ timer[b].does # "validate"
        BY <2>6, <3>1, <3>3 DEF ValidateAgain, TypeInv, SampleInv
      <4>2. Sampled(b) = 2 * soft.n + 1 /\ Sampled(b)' = 2 * (soft.n + 1)
        BY <3>1, <3>3, <4>1 DEF Sampled, Validate
      <4>3. soft.n \in Nat /\ soft.n + 1 <= Wait[b]
        BY <2>6, <3>1, <3>3, <2>a DEF ValidateAgain
      <4> QED
        BY <4>2, <4>3, <2>a
    <3> QED
      BY <3>2, <3>3
  <2>7. CASE EndReport \/ Rearm
    <3>1. /\ soft \in SoftRunning /\ timer' = timer
          /\ soft.at \in {"report", "released"}
          /\ soft' = SoftIdle \/ soft'.at = "del"
      BY <2>7, <2>a DEF EndReport, Rearm, SoftRunning
    <3>2. Sampled(b)' = Sampled(b)
      BY <3>1 DEF Sampled
    <3>3. Sampled(b) > 0 => timer[b].does = "validate"
      BY <3>1 DEF Sampled
    <3> QED
      BY <3>1, <3>2, <3>3 DEF SampleInv
  <2>8. CASE EndDelTimer \/ EndAddTimer
    <3>1. soft \in SoftRunning /\ soft.at \in {"del", "add"}
      BY <2>8, <2>a DEF EndDelTimer, EndAddTimer
    <3>2. soft' = SoftIdle \/ (soft'.at = "add" /\ soft'.b = soft.b)
      BY <2>8, <3>1 DEF EndDelTimer, EndAddTimer, SoftRunning
    <3>3. CASE soft.b # b
      <4>1. timer'[b] = timer[b]
        BY <2>8, <3>1, <3>3 DEF EndDelTimer, EndAddTimer, SoftRunning, TypeInv
      <4> QED
        BY <3>1, <3>2, <4>1, <2>c
    <3>4. CASE soft.b = b
      <4>1. timer[b].does # "validate"
        BY <2>8, <3>4 DEF EndDelTimer, EndAddTimer, Strikes
      <4>2. timer'[b] \in {NoTimer, Cancel}
        BY <2>8, <3>1, <3>4 DEF EndDelTimer, EndAddTimer, SoftRunning, TypeInv
      <4>3. Sampled(b) = 0 /\ Sampled(b)' = 0
        BY <3>1, <3>2, <4>1, <4>2 DEF Sampled, NoTimer, Cancel
      <4> QED
        BY <4>3
    <3> QED
      BY <3>3, <3>4
  <2>9. CASE CancelReport
    <3>1. soft' = SoftIdle /\ timer' = timer /\ soft.at = "cancel"
      BY <2>9 DEF CancelReport
    <3> QED
      BY <3>1, <2>c
  <2>10. ASSUME NEW c \in Buttons, Read(c) PROVE timer' = timer /\ soft' = soft
    BY <2>10 DEF Read, ReadWake, ReadTest, ReadLoad, ReadStore, ReadEof
  <2>11. CASE CleanStart \/ CleanEnd
    BY <2>11 DEF CleanStart, CleanEnd
  <2>12. ASSUME NEW c \in Buttons, CleanTimer(c) PROVE FALSE
    BY <2>12, <2>d DEF CleanTimer
  <2>13. ASSUME NEW c \in Buttons, CleanIntr(c) PROVE timer' = timer /\ soft' = soft
    BY <2>13 DEF CleanIntr
  <2>14. CASE UNCHANGED vars
    BY <2>14, <2>b DEF vars
  <2>15. ASSUME NEW c \in Buttons, IrqRearm(c) PROVE timer' = timer /\ soft' = soft
    BY <2>15 DEF IrqRearm
  <2> QED
    BY <2>b, <2>c, <2>1, <2>2, <2>3, <2>4, <2>5, <2>6, <2>7, <2>8, <2>9, <2>10, <2>11,
       <2>12, <2>13, <2>14, <2>15
    DEF Next, Pins, Irq, TimerFunction, Cleanup
<1> QED
  BY <1>1, ButtonTypes, ButtonSampleInvariant, PTL DEF Spec
=============================================================================
