----------------------------- MODULE GpioButton -----------------------------
(***************************************************************************)
(* The push buttons of apps/gpio_driver/gpioDevice.c on top of the GPIO    *)
(* interrupt handler of drivers/char/str9100_gpio.c.                       *)
(*                                                                         *)
(* A press is an edge that starts a chain of 75 ms timers; each of them    *)
(* samples the pin, and a button that is down in all samples is reported   *)
(* to the process that reads /dev/gpioN.  An unread report is cancelled    *)
(* after 20 seconds.  One timer per button serves both purposes.           *)
(*                                                                         *)
(* There is one CPU and no preemption of kernel code: the interrupt        *)
(* handler interrupts a timer function, a timer function interrupts a      *)
(* process (a reader, rmmod).  Pins change at any time, also while kernel   *)
(* code runs: contacts bounce.                                             *)
(***************************************************************************)
EXTENDS Integers

CONSTANTS
  Buttons,      \* pushButtons, the pins the module was loaded for
  Wait,         \* Wait[b]: pb_waiting_time, 36 for RESET_DFT_GPIO, otherwise 2
  MaxEdges      \* bound: changes of the pins

ASSUME WaitAssumption == Wait \in [Buttons -> Nat \ {0}]
ASSUME EdgesAssumption == MaxEdges \in Nat

VARIABLES
  \* hardware
  pin,       \* "on" while the button is down (GPIO_ON, low level)
  raw,       \* raw interrupt state: a falling edge was seen
  edges,     \* changes of the pins so far
  \* str9100_gpio.c
  armed,     \* gpio_isr[b] is gpio_pbc_start and the interrupt is enabled
  gpio_intr, \* buttons the running interrupt handler still has to serve
  irq,       \* the interrupt handler runs
  up,        \* the button it has found up and has still to arm again
  \* gpioDevice.c
  pbc_flag,
  timer,     \* pbc_timer[b]: what is pending, and pbc_wait_flag
  soft,      \* the timer function that runs, where it is, for which button
  rd,        \* where the reader of button b is in gpio_read
  value,     \* the value of pbc_flag[b] it has loaded
  left,      \* buttons gpio_cleanup has still to serve
  half,      \* the one whose timer it has deleted, its interrupt not yet
  mod,       \* progress of rmmod
  \* history
  down,      \* the press that is under way was sampled to the end
  missed,    \* buttons whose press that is under way left no trace
  struck,    \* buttons whose sampling gpio_pbc_end has stopped
  reports,   \* times gpio_pbc_end ran for b
  taken,     \* a later press has taken the timer that ends the report of b
  late,      \* buttons pressed after rmmod had deleted their timer
  bytes      \* times gpio_read returned the byte "1"

hwVars == <<pin, raw, edges>>
histVars == <<down, missed, struck, reports, taken, late>>
irqVars == <<armed, gpio_intr, irq, up>>
readVars == <<rd, value, bytes>>
modVars == <<left, half, mod>>
vars == <<hwVars, irqVars, readVars, modVars, pbc_flag, timer, soft, histVars>>

NoTimer == [does |-> "none", n |-> 0]
Cancel == [does |-> "cancel", n |-> 0]

\* Mutant: the wait flag is not kept.
ValidateForgets(n) == [does |-> "validate", n |-> 0]

Validate(n) == [does |-> "validate", n |-> n]

Pending(t) == t # NoTimer

SoftIdle == [at |-> "idle"]

\* gpio_init: str9100_gpio_set_edgeintr for every push button.  A button may
\* be down already: its edge has passed.
Init ==
  /\ pin \in [Buttons -> {"on", "off"}]
  /\ raw = [b \in Buttons |-> FALSE]
  /\ edges = 0
  /\ armed = [b \in Buttons |-> TRUE]
  /\ gpio_intr = {}
  /\ irq = FALSE
  /\ up = {}
  /\ pbc_flag = [b \in Buttons |-> 0]
  /\ timer = [b \in Buttons |-> NoTimer]
  /\ soft = SoftIdle
  /\ rd = [b \in Buttons |-> "idle"]
  /\ value = [b \in Buttons |-> 0]
  /\ left = Buttons
  /\ half = {}
  /\ mod = "loaded"
  /\ down = [b \in Buttons |-> FALSE]
  /\ missed = {b \in Buttons : pin[b] = "on"}
  /\ struck = {}
  /\ reports = [b \in Buttons |-> 0]
  /\ taken = [b \in Buttons |-> FALSE]
  /\ late = {}
  /\ bytes = [b \in Buttons |-> 0]

\* Mutant: the interrupt is not enabled.
ArmMutant(b) == armed' = armed

\* str9100_gpio_set_edgeintr(&gpio_pbc_start, ..., gpio)
Arm(b) == armed' = [armed EXCEPT ![b] = TRUE]

\* str9100_gpio_clear_intr(gpio)
Disarm(b) == armed' = [armed EXCEPT ![b] = FALSE]

IrqDue == \E b \in Buttons : raw[b] /\ armed[b]
SoftFree == ~irq /\ ~IrqDue
ProcessFree == SoftFree /\ soft = SoftIdle

-----------------------------------------------------------------------------
(* The pins *)

EdgeAllowed == edges < MaxEdges

\* pbc_validate_push has had its last look at the pin and the interrupt is
\* not armed yet.
Unwatched(b) == b \in up \/ (soft.at \in {"released", "report"} /\ soft.b = b)

\* A button that is sampled, now or by a timer.
Sampling(b) == timer[b].does = "validate" \/ (soft.at = "validate" /\ soft.b = b)

\* A press of b would leave no trace: nobody looks at the pin before the
\* interrupt is armed and the edge is not latched, or the interrupt handler
\* will wipe it without having served it.
Lost(b, latched) ==
  IF irq THEN ~Sampling(b) /\ ~(b \in gpio_intr /\ armed[b])
         ELSE Unwatched(b) /\ ~latched

\* The falling edge, PIN_TRIG_FAILING, is latched.  Whether the raw state also
\* latches the edge of a pin that is not armed is up to the hardware.
Press(b) ==
  /\ EdgeAllowed
  /\ pin[b] = "off"
  /\ pin' = [pin EXCEPT ![b] = "on"]
  /\ \E latched \in {TRUE, armed[b]} :
       /\ raw' = [raw EXCEPT ![b] = @ \/ latched]
       /\ missed' = IF Lost(b, raw[b] \/ latched) THEN missed \cup {b} ELSE missed
  /\ edges' = edges + 1
  /\ UNCHANGED <<irqVars, readVars, modVars, pbc_flag, timer, soft>>
  /\ UNCHANGED <<down, struck, reports, taken, late>>

Release(b) ==
  /\ EdgeAllowed
  /\ pin[b] = "on"
  /\ pin' = [pin EXCEPT ![b] = "off"]
  /\ down' = [down EXCEPT ![b] = FALSE]
  /\ missed' = missed \ {b}
  /\ edges' = edges + 1
  /\ UNCHANGED <<raw, irqVars, readVars, modVars, pbc_flag, timer, soft>>
  /\ UNCHANGED <<struck, reports, taken, late>>

-----------------------------------------------------------------------------
(* str9100_gpio_irq_handler *)

\* The raw state of all pins is read once.
IrqEnter ==
  /\ ~irq
  /\ IrqDue
  /\ irq' = TRUE
  /\ gpio_intr' = {b \in Buttons : raw[b]}
  /\ UNCHANGED <<hwVars, armed, up, readVars, modVars, pbc_flag, timer, soft, histVars>>

\* Mutant: a pending timer makes the handler return.
IrqStartMutant(b) ==
  /\ irq
  /\ up = {}
  /\ b \in gpio_intr
  /\ gpio_intr' = gpio_intr \ {b}
  /\ IF armed[b] /\ pin[b] = "on" /\ ~Pending(timer[b])
       THEN /\ Disarm(b)
            /\ timer' = [timer EXCEPT ![b] = Validate(1)]
       ELSE UNCHANGED <<armed, timer>>
  /\ UNCHANGED <<hwVars, irq, up, readVars, modVars, pbc_flag, soft, histVars>>

\* gpio_pbc_start: disarm, then pbc_validate_push with a wait flag of 0.  A
\* button that is up has to be armed again; otherwise a pending timer is
\* replaced by the first 75 ms timer.  A pin without a handler is passed over,
\* and its edge will be wiped.
IrqStart(b) ==
  /\ irq
  /\ up = {}
  /\ b \in gpio_intr
  /\ gpio_intr' = gpio_intr \ {b}
  /\ IF armed[b] THEN Disarm(b) ELSE UNCHANGED armed
  /\ up' = IF armed[b] /\ pin[b] = "off" THEN {b} ELSE {}
  /\ IF armed[b] /\ pin[b] = "on"
       THEN /\ timer' = [timer EXCEPT ![b] = Validate(1)]
            /\ taken' = [taken EXCEPT ![b] = @ \/ timer[b] = Cancel]
            /\ late' = late \cup ({b} \cap half)
       ELSE UNCHANGED <<timer, taken, late>>
  /\ missed' = IF pin[b] = "on" /\ ~down[b] /\ ~armed[b] /\ Unwatched(b)
                 THEN missed \cup {b} ELSE missed
  /\ UNCHANGED <<hwVars, irq, readVars, modVars, pbc_flag, soft>>
  /\ UNCHANGED <<down, struck, reports>>

\* pbc_validate_push in the handler, the button was up: wait for the next press.
IrqRearm(b) ==
  /\ irq
  /\ b \in up
  /\ Arm(b)
  /\ up' = {}
  /\ UNCHANGED <<hwVars, gpio_intr, irq, readVars, modVars, pbc_flag, timer, soft, histVars>>

\* "Clear All Interrupt Status": str9100_gpio_write_intrclear(0x1FFFFF).
IrqExit ==
  /\ irq
  /\ gpio_intr = {}
  /\ up = {}
  /\ raw' = [b \in Buttons |-> FALSE]
  /\ irq' = FALSE
  /\ UNCHANGED <<pin, edges, armed, gpio_intr, up, readVars, modVars>>
  /\ UNCHANGED <<pbc_flag, timer, soft, histVars>>

-----------------------------------------------------------------------------
(* Timer functions *)

\* The kernel detaches a timer before it calls it.  What a call into the
\* memory of a module that is gone does is not modelled.
TimerFire(b) ==
  /\ ProcessFree
  /\ mod # "gone"
  /\ Pending(timer[b])
  /\ soft' = [at |-> timer[b].does, b |-> b, n |-> timer[b].n]
  /\ timer' = [timer EXCEPT ![b] = NoTimer]
  /\ UNCHANGED <<hwVars, irqVars, readVars, modVars, pbc_flag, histVars>>

\* pbc_validate_push, the button is up ...
ValidateReleased ==
  /\ SoftFree
  /\ soft.at = "validate"
  /\ pin[soft.b] = "off"
  /\ soft' = [soft EXCEPT !.at = "released"]
  /\ UNCHANGED <<hwVars, irqVars, readVars, modVars, pbc_flag, timer, histVars>>

\* ... wait for the next press.
Rearm ==
  /\ SoftFree
  /\ soft.at = "released"
  /\ Arm(soft.b)
  /\ soft' = SoftIdle
  /\ UNCHANGED <<hwVars, gpio_intr, irq, up, readVars, modVars, pbc_flag, timer, histVars>>

\* pbc_validate_push, the button is down and has to be sampled again.
ValidateAgain ==
  /\ SoftFree
  /\ soft.at = "validate"
  /\ pin[soft.b] = "on"
  /\ soft.n + 1 <= Wait[soft.b]
  /\ timer' = [timer EXCEPT ![soft.b] = Validate(soft.n + 1)]
  /\ soft' = SoftIdle
  /\ UNCHANGED <<hwVars, irqVars, readVars, modVars, pbc_flag, histVars>>

\* pbc_validate_push, the button is down in the last sample: gpio_pbc_end
\* will report it.
ValidateLast ==
  /\ SoftFree
  /\ soft.at = "validate"
  /\ pin[soft.b] = "on"
  /\ soft.n + 1 > Wait[soft.b]
  /\ down' = [down EXCEPT ![soft.b] = TRUE]
  /\ soft' = [soft EXCEPT !.at = "report"]
  /\ UNCHANGED <<hwVars, irqVars, readVars, modVars, pbc_flag, timer>>
  /\ UNCHANGED <<missed, struck, reports, taken, late>>

\* gpio_pbc_end sets the flag, wakes the readers and arms the interrupt ...
EndReport ==
  /\ SoftFree
  /\ soft.at = "report"
  /\ pbc_flag' = [pbc_flag EXCEPT ![soft.b] = 2]
  /\ reports' = [reports EXCEPT ![soft.b] = @ + 1]
  /\ taken' = [taken EXCEPT ![soft.b] = FALSE]
  /\ Arm(soft.b)
  /\ soft' = [soft EXCEPT !.at = "del"]
  /\ UNCHANGED <<hwVars, gpio_intr, irq, up, readVars, modVars, timer>>
  /\ UNCHANGED <<down, missed, struck, late>>

\* gpio_pbc_end stops the sampling of a press that came after it had armed
\* the interrupt.
Strikes == struck' = IF timer[soft.b].does = "validate" THEN struck \cup {soft.b} ELSE struck

\* ... deletes a timer that is pending ...
EndDelTimer ==
  /\ SoftFree
  /\ soft.at = "del"
  /\ timer' = [timer EXCEPT ![soft.b] = NoTimer]
  /\ Strikes
  /\ soft' = [soft EXCEPT !.at = "add"]
  /\ UNCHANGED <<hwVars, irqVars, readVars, modVars, pbc_flag>>
  /\ UNCHANGED <<down, missed, reports, taken, late>>

\* Mutant: the timer is set up and not added.
EndAddTimerMutant ==
  /\ SoftFree
  /\ soft.at = "add"
  /\ soft' = SoftIdle
  /\ UNCHANGED <<hwVars, irqVars, readVars, modVars, pbc_flag, timer, histVars>>

\* ... and starts the 20 second timer.  (What init_timer on a timer that has
\* become pending does to the kernel's list is not modelled.)
EndAddTimer ==
  /\ SoftFree
  /\ soft.at = "add"
  /\ timer' = [timer EXCEPT ![soft.b] = Cancel]
  /\ Strikes
  /\ soft' = SoftIdle
  /\ UNCHANGED <<hwVars, irqVars, readVars, modVars, pbc_flag>>
  /\ UNCHANGED <<down, missed, reports, taken, late>>

\* pbc_cancel
CancelReport ==
  /\ SoftFree
  /\ soft.at = "cancel"
  /\ pbc_flag' = [pbc_flag EXCEPT ![soft.b] = 0]
  /\ soft' = SoftIdle
  /\ UNCHANGED <<hwVars, irqVars, readVars, modVars, timer, histVars>>

-----------------------------------------------------------------------------
(* gpio_read *)

\* wait_event_interruptible(wq, pbc_flag[gpio] != 0) returns.
ReadWake(b) ==
  /\ ProcessFree
  /\ mod = "loaded"
  /\ rd[b] = "idle"
  /\ pbc_flag[b] # 0
  /\ rd' = [rd EXCEPT ![b] = "test"]
  /\ UNCHANGED <<hwVars, irqVars, modVars, value, bytes, pbc_flag, timer, soft, histVars>>

\* The byte is due, or EOF, or (-EAGAIN) neither.
ReadTest(b) ==
  /\ ProcessFree
  /\ rd[b] = "test"
  /\ rd' = [rd EXCEPT ![b] = CASE pbc_flag[b] > 1 -> "copied"
                               [] pbc_flag[b] = 1 -> "eof"
                               [] OTHER           -> "idle"]
  /\ UNCHANGED <<hwVars, irqVars, modVars, value, bytes, pbc_flag, timer, soft, histVars>>

\* pbc_flag[gpio]--: load ...
ReadLoad(b) ==
  /\ ProcessFree
  /\ rd[b] = "copied"
  /\ value' = [value EXCEPT ![b] = pbc_flag[b]]
  /\ rd' = [rd EXCEPT ![b] = "loaded"]
  /\ UNCHANGED <<hwVars, irqVars, modVars, bytes, pbc_flag, timer, soft, histVars>>

\* Mutant: the report is not counted down.
ReadStoreMutant(b) ==
  /\ ProcessFree
  /\ rd[b] = "loaded"
  /\ value' = [value EXCEPT ![b] = 0]
  /\ bytes' = [bytes EXCEPT ![b] = @ + 1]
  /\ rd' = [rd EXCEPT ![b] = "idle"]
  /\ UNCHANGED <<hwVars, irqVars, modVars, pbc_flag, timer, soft, histVars>>

\* ... and store; return 1.
ReadStore(b) ==
  /\ ProcessFree
  /\ rd[b] = "loaded"
  /\ pbc_flag' = [pbc_flag EXCEPT ![b] = value[b] - 1]
  /\ value' = [value EXCEPT ![b] = 0]
  /\ bytes' = [bytes EXCEPT ![b] = @ + 1]
  /\ rd' = [rd EXCEPT ![b] = "idle"]
  /\ UNCHANGED <<hwVars, irqVars, modVars, timer, soft, histVars>>

\* pbc_flag[gpio] = 0; return 0.
ReadEof(b) ==
  /\ ProcessFree
  /\ rd[b] = "eof"
  /\ pbc_flag' = [pbc_flag EXCEPT ![b] = 0]
  /\ rd' = [rd EXCEPT ![b] = "idle"]
  /\ UNCHANGED <<hwVars, irqVars, modVars, value, bytes, timer, soft, histVars>>

-----------------------------------------------------------------------------
(* rmmod: gpio_cleanup.  An open device keeps the module in use. *)

CleanStart ==
  /\ ProcessFree
  /\ mod = "loaded"
  /\ \A b \in Buttons : rd[b] = "idle"
  /\ mod' = "cleanup"
  /\ UNCHANGED <<hwVars, irqVars, readVars, left, half, pbc_flag, timer, soft, histVars>>

\* For one button after the other: pbc_flag[gpio] = 0 and del_timer ...
CleanTimer(b) ==
  /\ ProcessFree
  /\ mod = "cleanup"
  /\ b \in left
  /\ half = {}
  /\ left' = left \ {b}
  /\ half' = {b}
  /\ pbc_flag' = [pbc_flag EXCEPT ![b] = 0]
  /\ timer' = [timer EXCEPT ![b] = NoTimer]
  /\ UNCHANGED <<hwVars, irqVars, readVars, mod, soft, histVars>>

\* Mutant: the last button keeps its interrupt.
CleanIntrMutant(b) ==
  /\ ProcessFree
  /\ b \in half
  /\ half' = {}
  /\ IF left = {} THEN UNCHANGED armed ELSE Disarm(b)
  /\ UNCHANGED <<hwVars, gpio_intr, irq, up, readVars, left, mod, pbc_flag, timer, soft, histVars>>

\* ... then str9100_gpio_clear_intr.
CleanIntr(b) ==
  /\ ProcessFree
  /\ b \in half
  /\ half' = {}
  /\ Disarm(b)
  /\ UNCHANGED <<hwVars, gpio_intr, irq, up, readVars, left, mod, pbc_flag, timer, soft, histVars>>

\* unregister_chrdev; the module's memory is freed.
CleanEnd ==
  /\ ProcessFree
  /\ mod = "cleanup"
  /\ left = {}
  /\ half = {}
  /\ mod' = "gone"
  /\ UNCHANGED <<hwVars, irqVars, readVars, left, half, pbc_flag, timer, soft, histVars>>

-----------------------------------------------------------------------------
Pins == \E b \in Buttons : Press(b) \/ Release(b)

Irq == IrqEnter \/ (\E b \in Buttons : IrqStart(b) \/ IrqRearm(b)) \/ IrqExit

TimerFunction ==
  \/ ValidateReleased \/ Rearm \/ ValidateAgain \/ ValidateLast
  \/ EndReport \/ EndDelTimer \/ EndAddTimer
  \/ CancelReport

Read(b) == ReadWake(b) \/ ReadTest(b) \/ ReadLoad(b) \/ ReadStore(b) \/ ReadEof(b)

Cleanup ==
  \/ CleanStart
  \/ \E b \in Buttons : CleanTimer(b) \/ CleanIntr(b)
  \/ CleanEnd

Next ==
  \/ Pins
  \/ Irq
  \/ TimerFunction
  \/ \E b \in Buttons : TimerFire(b) \/ Read(b)
  \/ Cleanup

Spec == Init /\ [][Next]_vars

\* The kernel serves interrupts and timers; nobody has to press, read or unload.
Fairness ==
  /\ WF_vars(Irq)
  /\ WF_vars(TimerFunction)
  /\ \A b \in Buttons : WF_vars(TimerFire(b))

FairSpec == Spec /\ Fairness

-----------------------------------------------------------------------------
TypeOK ==
  /\ pin \in [Buttons -> {"on", "off"}]
  /\ raw \in [Buttons -> BOOLEAN]
  /\ edges \in Nat
  /\ armed \in [Buttons -> BOOLEAN]
  /\ gpio_intr \subseteq Buttons
  /\ irq \in BOOLEAN
  /\ pbc_flag \in [Buttons -> -1 .. 2]
  /\ \A b \in Buttons : timer[b] \in [does : {"none", "cancel", "validate"}, n : 0 .. Wait[b]]
  /\ up \subseteq Buttons
  /\ soft.at \in {"idle", "cancel", "validate", "released", "report", "del", "add"}
  /\ rd \in [Buttons -> {"idle", "test", "copied", "loaded", "eof"}]
  /\ value \in [Buttons -> -1 .. 2]
  /\ left \subseteq Buttons
  /\ half \subseteq Buttons
  /\ mod \in {"loaded", "cleanup", "gone"}
  /\ missed \subseteq Buttons
  /\ struck \subseteq Buttons
  /\ reports \in [Buttons -> Nat]
  /\ taken \in [Buttons -> BOOLEAN]
  /\ late \subseteq Buttons
  /\ bytes \in [Buttons -> Nat]

\* The timer function that runs works on button b.
SoftFor(b) == soft # SoftIdle /\ soft.b = b

\* "Restart interrupt to be ready next press of PB": a button is armed, or it
\* is being sampled by a timer that will arm it or sample it again, or about to
\* be armed.  A button that is none of them is dead until the module is loaded
\* again; the one way to get there is a press that is served while gpio_pbc_end,
\* for the press before, is between set_edgeintr and add_timer.  (With it every
\* variable keeps its type: no wait flag passes its limit.)
ButtonAlive ==
  /\ TypeOK
  /\ mod = "loaded" =>
       \A b \in Buttons \ struck :
         armed[b] \/ timer[b].does = "validate" \/ SoftFor(b) \/ b \in up

\* A button that is down was reported, is being sampled, or its edge is
\* waiting for the interrupt handler; wherever the pin changes.  The
\* exceptions are the edge that falls between the last look at the pin and
\* set_edgeintr and is not latched, the edge wiped by "Clear All Interrupt
\* Status" that was not in the raw state read or had no handler (both in
\* missed), and a dead button.
PressIsWatched ==
  mod = "loaded" =>
    \A b \in Buttons \ (missed \cup struck) : pin[b] = "on" =>
      \/ down[b]
      \/ raw[b] /\ armed[b] /\ (irq => b \in gpio_intr)
      \/ timer[b].does = "validate"
      \/ SoftFor(b)

\* "The flag will be set back to is default value after 20 seconds, if the
\* user space didn't take care of the push button": an unread report has a
\* timer that ends it, unless the first sample of a later press has taken it.
ReportExpires ==
  \A b \in Buttons :
    pbc_flag[b] = 2 => Pending(timer[b]) \/ SoftFor(b) \/ taken[b]

\* A reader gets at most one byte for each press that was held long enough.
OneBytePerReport == \A b \in Buttons : bytes[b] <= reports[b]

\* A button that is held down is reported, unless its press was missed or
\* gpio_pbc_end has stopped its sampling.
HeldIsReported ==
  \A b \in Buttons :
    (pin[b] = "on" /\ mod = "loaded") ~>
      (pin[b] = "off" \/ down[b] \/ b \in missed \cup struck \/ mod # "loaded")

\* "Release the blocked reads, timers and interrupts": whatever the buttons were
\* doing when rmmod began, nothing will call into the module once it is gone.
\* A press between the two halves of a button's clean-up is the exception: its
\* timer is left running.
UnloadedIsQuiet ==
  mod = "gone" =>
    \A b \in Buttons \ late : ~armed[b] /\ ~Pending(timer[b]) /\ ~SoftFor(b)
=============================================================================
