-------------------------------- MODULE Leds --------------------------------
(***************************************************************************)
(* The LEDs of apps/gpio_driver/gpioDevice.c and the blinking system LED   *)
(* of drivers/char/str9100_gpio.c.                                         *)
(*                                                                         *)
(* A process writes 0 (off), 1 (on) or the number of a blink pattern to    *)
(* /dev/gpioN; a pattern is played by a chain of timers.  From boot on the *)
(* kernel blinks the system LED by a timer of its own, until a 0 is        *)
(* written to it.                                                          *)
(*                                                                         *)
(* There is one CPU and no preemption of kernel code: the writer is alone, *)
(* a timer function may interrupt it between any two steps and runs to its *)
(* end.  All LEDs share one output register, and str9100_gpio_out_bit      *)
(* reads it, changes one bit and writes it back.                           *)
(***************************************************************************)
EXTENDS Integers

CONSTANTS
  Leds,         \* outputLeds, the pins the module was loaded for
  SystemLed,    \* SYSTEM_LED_GPIO
  LedPatterns,  \* ledPatterns by the number that is written for a pattern (its
                \* index + 2): how many timer_vals it has, repetition_count
  BadPatterns,  \* numbers beyond the table that are written
  MaxWrites     \* bound: calls of gpio_write

ASSUME SystemLedAssumption == SystemLed \in Leds
ASSUME PatternsAssumption ==
  /\ DOMAIN LedPatterns \subseteq Nat \ {0, 1}
  /\ BadPatterns \subseteq Nat \ ({0, 1} \cup DOMAIN LedPatterns)
  /\ \A p \in DOMAIN LedPatterns :
       /\ LedPatterns[p].steps \in Nat \ {0}
       /\ LedPatterns[p].repetition_count \in Nat \cup {-1}
ASSUME MaxWritesAssumption == MaxWrites \in Nat

VARIABLES
  out,            \* the output register: what each LED shows (GPIO_ON is low)
  \* gpioDevice.c
  pulse_timers,   \* pulse_timers[l] is pending
  used,           \* ledPatternsUsed
  pulse_pattern,
  writer,         \* where the process is, in gpio_write or gpio_cleanup
  gpio,           \* the LED it works on
  gpioval,        \* the value it writes to it
  temp,           \* what it has read from the register
  dirty,          \* LEDs gpio_cleanup has still to serve
  mod,            \* progress of rmmod
  \* str9100_gpio.c
  sysled_timer,   \* pending with this value, NoTimer when it is not
  sys_blinking_flag,
  \* history
  written,        \* the value last written to l, NoRequest before, when
                  \* gpio_write refused it and when the kernel still blinks l
  writes

kernelVars == <<sysled_timer, sys_blinking_flag>>
pulseVars == <<pulse_timers, used>>
callVars == <<writer, gpio, gpioval, temp>>
unloadVars == <<dirty, mod>>
histVars == <<written, writes>>
vars == <<out, pulse_pattern, kernelVars, pulseVars, callVars, unloadVars, histVars>>

ON == 1
OFF == 0
NoTimer == -1
NoPattern == -1
NoRequest == -1

Patterns == DOMAIN LedPatterns
Values == {OFF, ON} \cup Patterns \cup BadPatterns

\* gpio_init turns every LED off.  The kernel has been blinking the system LED
\* since str9100_gpio_init, so its timer is pending with either value.
Init ==
  /\ out = [l \in Leds |-> OFF]
  /\ pulse_timers = [l \in Leds |-> FALSE]
  /\ used = [l \in Leds |-> [pattern |-> NoPattern, index |-> 0, repetition |-> 0]]
  /\ pulse_pattern = NoPattern
  /\ writer = "idle"
  /\ gpio = SystemLed
  /\ gpioval = OFF
  /\ temp = out
  /\ dirty = Leds
  /\ mod = "loaded"
  /\ sysled_timer \in {ON, OFF}
  /\ sys_blinking_flag = TRUE
  /\ written = [l \in Leds |-> NoRequest]
  /\ writes = 0

-----------------------------------------------------------------------------
(* led_pulse *)

\* The first call for a LED takes the pattern that was asked for.
Started(u) ==
  IF u.pattern = NoPattern
    THEN [pattern |-> pulse_pattern, index |-> 0, repetition |-> 0]
    ELSE u

\* At the end of the pattern the next repetition starts.  Repetitions count
\* only where there is a limit to compare them with.
Wrapped(u) ==
  LET p == LedPatterns[u.pattern]
  IN IF u.index # p.steps THEN u
     ELSE [u EXCEPT !.index = 0,
                    !.repetition = IF p.repetition_count = -1 THEN 0 ELSE @ + 1]

Ended(u) == u.repetition = LedPatterns[u.pattern].repetition_count

\* "on even index LED is on, on odd index it is off"; off at the end
LedStatus(u) == IF ~Ended(u) /\ u.index % 2 = 0 THEN ON ELSE OFF

\* Mutant: the timer is not started again after the first step.
PulseStepOnce(l, u) ==
  /\ pulse_timers' = [pulse_timers EXCEPT ![l] = ~Ended(u) /\ u.index = 0]
  /\ used' = [used EXCEPT ![l] = IF Ended(u) THEN [u EXCEPT !.pattern = NoPattern]
                                             ELSE [u EXCEPT !.index = @ + 1]]

\* The next timer, or none and no pattern when all repetitions are done.
PulseStep(l, u) ==
  /\ pulse_timers' = [pulse_timers EXCEPT ![l] = ~Ended(u)]
  /\ used' = [used EXCEPT ![l] = IF Ended(u) THEN [u EXCEPT !.pattern = NoPattern]
                                             ELSE [u EXCEPT !.index = @ + 1]]

\* The LED the process is starting a pattern on: its first timer takes at
\* least 100 ms, the process is back in user space by then.
Starting(l) == writer = "store" /\ gpio = l /\ gpioval \in Patterns

\* led_pulse as a timer function, never interrupted by a writer
PulseFire(l) ==
  /\ pulse_timers[l]
  /\ ~Starting(l)
  /\ LET u == Wrapped(Started(used[l]))
     IN PulseStep(l, u) /\ out' = [out EXCEPT ![l] = LedStatus(u)]
  /\ UNCHANGED <<pulse_pattern, kernelVars, callVars, unloadVars, histVars>>

\* blinking_system_led, the kernel's timer function
BlinkFire ==
  /\ sysled_timer # NoTimer
  /\ IF sys_blinking_flag
       THEN /\ out' = [out EXCEPT ![SystemLed] = sysled_timer]
            /\ sysled_timer' = 1 - sysled_timer
       ELSE /\ out' = [out EXCEPT ![SystemLed] = OFF]
            /\ sysled_timer' = NoTimer
  /\ UNCHANGED <<pulse_pattern, sys_blinking_flag>>
  /\ UNCHANGED <<pulseVars, callVars, unloadVars, histVars>>

-----------------------------------------------------------------------------
(* str9100_gpio_out_bit, called by a process: read ... *)

OutLoad == temp' = out

\* ... and write, whatever a timer function has written since.
OutStore(bit) == out' = [temp EXCEPT ![gpio] = bit]

-----------------------------------------------------------------------------
(* gpio_write *)

\* The value is copied and parsed, then the LED's timer is looked at.
WriteStart(l, v) ==
  /\ writer = "idle"
  /\ mod = "loaded"
  /\ writes < MaxWrites
  /\ writes' = writes + 1
  /\ gpio' = l
  /\ gpioval' = v
  /\ written' = [written EXCEPT ![l] =
                   IF v \in BadPatterns \/ (l = SystemLed /\ sysled_timer # NoTimer)
                     THEN NoRequest ELSE v]
  /\ writer' = IF pulse_timers[l] THEN "del" ELSE "act"
  /\ UNCHANGED <<out, pulse_pattern, kernelVars, pulseVars, temp, unloadVars>>

\* Mutant: the pattern that was played is not forgotten.
WriteDelMutant ==
  /\ writer = "del"
  /\ pulse_timers' = [pulse_timers EXCEPT ![gpio] = FALSE]
  /\ writer' = "act"
  /\ UNCHANGED <<out, pulse_pattern, used, kernelVars, gpio, gpioval, temp>>
  /\ UNCHANGED <<unloadVars, histVars>>

\* "First disable any pending timer": the timer may have fired since it was
\* looked at, and is pending again then.
WriteDel ==
  /\ writer = "del"
  /\ pulse_timers' = [pulse_timers EXCEPT ![gpio] = FALSE]
  /\ used' = [used EXCEPT ![gpio].pattern = NoPattern]
  /\ writer' = "act"
  /\ UNCHANGED <<out, pulse_pattern, kernelVars, gpio, gpioval, temp>>
  /\ UNCHANGED <<unloadVars, histVars>>

\* 0 or 1: gpio_set_off, gpio_set_on
WriteLevel ==
  /\ writer = "act"
  /\ gpioval \in {OFF, ON}
  /\ OutLoad
  /\ writer' = "store"
  /\ UNCHANGED <<out, pulse_pattern, kernelVars, pulseVars, gpio, gpioval>>
  /\ UNCHANGED <<unloadVars, histVars>>

\* A pattern: pulse_pattern is set before the number is checked, a bad one
\* makes gpio_write return -EINVAL.  (A number of 2^31 or more becomes negative
\* and passes the check; what lies before the table is not modelled.)
WritePattern ==
  /\ writer = "act"
  /\ gpioval \notin {OFF, ON}
  /\ pulse_pattern' = gpioval
  /\ writer' = IF gpioval \in Patterns THEN "pulse" ELSE "idle"
  /\ UNCHANGED <<out, kernelVars, pulseVars, gpio, gpioval, temp>>
  /\ UNCHANGED <<unloadVars, histVars>>

\* led_pulse called by gpio_write: the timer is started before the LED is set.
WritePulse ==
  /\ writer = "pulse"
  /\ PulseStep(gpio, Wrapped(Started(used[gpio])))
  /\ OutLoad
  /\ writer' = "store"
  /\ UNCHANGED <<out, pulse_pattern, kernelVars, gpio, gpioval>>
  /\ UNCHANGED <<unloadVars, histVars>>

\* The bit gpio_write sets; the first step of a pattern that is played is on.
WriteBit ==
  IF gpioval \in {OFF, ON} THEN gpioval
  ELSE IF pulse_timers[gpio] THEN ON ELSE OFF

WriteStore ==
  /\ writer = "store"
  /\ mod = "loaded"
  /\ OutStore(WriteBit)
  /\ writer' = IF gpioval = OFF /\ gpio = SystemLed THEN "stop" ELSE "idle"
  /\ UNCHANGED <<pulse_pattern, kernelVars, pulseVars, gpio, gpioval, temp>>
  /\ UNCHANGED <<unloadVars, histVars>>

\* stop_blinking_SYS_LED(1): the kernel's timer is left to end by itself.
WriteStop ==
  /\ writer = "stop"
  /\ sys_blinking_flag' = FALSE
  /\ writer' = "idle"
  /\ UNCHANGED <<out, pulse_pattern, sysled_timer, pulseVars, gpio, gpioval, temp>>
  /\ UNCHANGED <<unloadVars, histVars>>

Write ==
  \/ \E l \in Leds, v \in Values : WriteStart(l, v)
  \/ WriteDel \/ WriteLevel \/ WritePattern \/ WritePulse \/ WriteStore \/ WriteStop

-----------------------------------------------------------------------------
(* rmmod: the LEDs' part of gpio_cleanup *)

\* Mutant: a pending timer is left alone.
CleanTimerMutant(l) ==
  /\ writer = "idle"
  /\ l \in dirty
  /\ mod' = "cleanup"
  /\ dirty' = dirty \ {l}
  /\ gpio' = l
  /\ OutLoad
  /\ writer' = "store"
  /\ UNCHANGED <<out, pulse_pattern, kernelVars, pulseVars, gpioval, histVars>>

\* For one LED after the other: del_timer, then gpio_set(..., GPIO_OFF) ...
CleanTimer(l) ==
  /\ writer = "idle"
  /\ l \in dirty
  /\ mod' = "cleanup"
  /\ dirty' = dirty \ {l}
  /\ gpio' = l
  /\ pulse_timers' = [pulse_timers EXCEPT ![l] = FALSE]
  /\ OutLoad
  /\ writer' = "store"
  /\ UNCHANGED <<out, pulse_pattern, kernelVars, used, gpioval, histVars>>

CleanStore ==
  /\ writer = "store"
  /\ mod = "cleanup"
  /\ OutStore(OFF)
  /\ writer' = "idle"
  /\ mod' = IF dirty = {} THEN "gone" ELSE mod
  /\ UNCHANGED <<pulse_pattern, kernelVars, pulseVars, gpio, gpioval, temp>>
  /\ UNCHANGED <<dirty, histVars>>

Cleanup == (\E l \in Leds : CleanTimer(l)) \/ CleanStore

-----------------------------------------------------------------------------
Next ==
  \/ \E l \in Leds : PulseFire(l)
  \/ BlinkFire
  \/ Write
  \/ Cleanup

Spec == Init /\ [][Next]_vars

-----------------------------------------------------------------------------
TypeOK ==
  /\ out \in [Leds -> {ON, OFF}]
  /\ pulse_timers \in [Leds -> BOOLEAN]
  /\ \A l \in Leds :
       /\ used[l].pattern \in Patterns \cup {NoPattern}
       /\ used[l].pattern # NoPattern =>
            used[l].index \in 1 .. LedPatterns[used[l].pattern].steps
  /\ pulse_pattern \in Patterns \cup BadPatterns \cup {NoPattern}
  /\ writer \in {"idle", "del", "act", "pulse", "store", "stop"}
  /\ gpio \in Leds
  /\ gpioval \in Values
  /\ temp \in [Leds -> {ON, OFF}]
  /\ dirty \subseteq Leds
  /\ mod \in {"loaded", "cleanup", "gone"}
  /\ sysled_timer \in {ON, OFF, NoTimer}
  /\ sys_blinking_flag \in BOOLEAN
  /\ written \in [Leds -> Values \cup {NoRequest}]

\* The process is not working on LED l.
Settled(l) == mod = "loaded" /\ (writer = "idle" \/ gpio # l)

\* LED l does what was last written to it: it is steadily on or off, or plays
\* that pattern until all its repetitions are done.
Shows(l) ==
  CASE written[l] \in {OFF, ON} -> out[l] = written[l] /\ ~pulse_timers[l]
    [] written[l] \in Patterns  -> IF pulse_timers[l]
                                     THEN used[l].pattern = written[l]
                                     ELSE /\ LedPatterns[written[l]].repetition_count # -1
                                          /\ used[l].pattern = NoPattern
    [] OTHER                    -> TRUE

\* "Write the value to GPIO, using the device minor number": the last write to
\* a LED decides what it does, although the timers of all LEDs change the same
\* register at any time and all writes share pulse_pattern.  The system LED
\* obeys once the kernel's last blink is over, not when it is told to end.
LastWriteCounts == \A l \in Leds : Settled(l) => Shows(l)

\* A LED has a pattern exactly while its timer is pending, so a timer function
\* never takes its pattern from the shared pulse_pattern, nor a step from
\* beyond the end of its pattern.
PatternHasTimer ==
  /\ TypeOK
  /\ mod = "loaded" => \A l \in Leds : pulse_timers[l] <=> used[l].pattern # NoPattern

\* "turn all leds off": when the module is gone no timer calls into it and no
\* LED it was loaded for is left on, the kernel's own excepted.
UnloadedIsDark ==
  mod = "gone" =>
    \A l \in Leds : ~pulse_timers[l] /\ (l # SystemLed => out[l] = OFF)

=============================================================================
