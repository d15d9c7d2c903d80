---------------------------- MODULE Leds_proofs -----------------------------
(***************************************************************************)
(* Proofs about the LEDs, for any set of LEDs, any table of patterns with  *)
(* any lengths and repetition counts, any numbers written from beyond it   *)
(* and any number of writes.                                               *)
(***************************************************************************)
EXTENDS Leds, TLAPS

UsedRecord == [pattern : Patterns \cup {NoPattern}, index : Nat, repetition : Nat]

\* The step a LED's pattern is at exists.
InPattern(u) == u.pattern # NoPattern => u.index \in 1 .. LedPatterns[u.pattern].steps

\* The variables' types, and which timers can be pending: a LED's timer belongs
\* to a pattern that is in the table, and the LED the process works on has
\* none from the time it was deleted until the pattern is started.
TypeInv ==
  /\ TypeOK
  /\ used \in [Leds -> UsedRecord]
  /\ \A l \in Leds : InPattern(used[l])
  /\ \A l \in Leds : pulse_timers[l] => used[l].pattern # NoPattern
  /\ mod = "loaded" => \A l \in Leds : used[l].pattern # NoPattern => pulse_timers[l]
  /\ mod = "loaded" => dirty = Leds
  /\ mod # "loaded" => writer \in {"idle", "store"}
  /\ mod = "gone" => writer = "idle" /\ dirty = {}
  /\ writer \in {"act", "pulse"} => ~pulse_timers[gpio]
  /\ writer = "pulse" => pulse_pattern \in Patterns /\ pulse_pattern = gpioval

\* LED l plays pattern p, or has played it as often as it says.
Plays(l, p) ==
  IF pulse_timers[l]
    THEN used[l].pattern = p
    ELSE LedPatterns[p].repetition_count # -1 /\ used[l].pattern = NoPattern

\* What the write under way has done so far: no timer changes the LED it works
\* on, and what it read from the register is still true of every LED that is
\* to stay as it is.  Only the kernel's blinking, which ends for good, changes
\* a LED without a pattern.
WriteInv ==
  /\ \A l \in Leds : Settled(l) => Shows(l)
  /\ sysled_timer # NoTimer => written[SystemLed] = NoRequest
  /\ mod = "loaded" /\ writer # "idle" => written[gpio] \in {gpioval, NoRequest}
  /\ mod = "loaded" /\ writer = "store" =>
       /\ gpioval \in {OFF, ON} \cup Patterns
       /\ gpioval \in {OFF, ON} => ~pulse_timers[gpio]
       /\ gpioval \in Patterns => Plays(gpio, gpioval)
       /\ \A l \in Leds \ {gpio} : written[l] \in {OFF, ON} => temp[l] = out[l]
  /\ writer = "stop" =>
       /\ gpioval = OFF /\ ~pulse_timers[gpio]
       /\ written[gpio] = OFF => out[gpio] = OFF

\* The LEDs gpio_cleanup has served are dark and stay so: what it read from
\* the register for the next one has them off.
DarkInv ==
  mod # "loaded" =>
    \A l \in Leds \ dirty :
      /\ ~pulse_timers[l]
      /\ l # SystemLed /\ (writer = "idle" \/ l # gpio) => out[l] = OFF
      /\ l # SystemLed /\ writer = "store" /\ l # gpio => temp[l] = OFF

-----------------------------------------------------------------------------
(* One step of a pattern *)

\* A LED that plays a pattern of the table, or starts one, is at a step of that
\* pattern with its timer pending afterwards, or it has no pattern and no timer
\* and the pattern is not an endless one.
LEMMA PulseStepEffect ==
  ASSUME NEW l \in Leds, used \in [Leds -> UsedRecord], InPattern(used[l]),
         pulse_timers \in [Leds -> BOOLEAN],
         NEW p \in Patterns,
         p = IF used[l].pattern = NoPattern THEN pulse_pattern ELSE used[l].pattern,
         PulseStep(l, Wrapped(Started(used[l])))
  PROVE  /\ used' \in [Leds -> UsedRecord] /\ InPattern(used'[l])
         /\ pulse_timers' \in [Leds -> BOOLEAN]
         /\ \A m \in Leds \ {l} : used'[m] = used[m] /\ pulse_timers'[m] = pulse_timers[m]
         /\ IF pulse_timers'[l]
              THEN used'[l].pattern = p
              ELSE LedPatterns[p].repetition_count # -1 /\ used'[l].pattern = NoPattern
<1> DEFINE u == Started(used[l])
           w == Wrapped(u)
           v == IF Ended(w) THEN [w EXCEPT !.pattern = NoPattern] ELSE [w EXCEPT !.index = @ + 1]
<1>p. /\ p \in Nat \ {0, 1} /\ p # NoPattern /\ LedPatterns[p].steps \in Nat \ {0}
      /\ LedPatterns[p].repetition_count \in Nat \cup {-1}
  BY PatternsAssumption DEF Patterns, NoPattern
<1>1. u \in UsedRecord /\ u.pattern = p /\ u.index \in 0 .. LedPatterns[p].steps
  BY <1>p DEF Started, UsedRecord, InPattern
<1>2. w \in UsedRecord /\ w.pattern = p /\ w.index \in 0 .. LedPatterns[p].steps - 1
  <2> HIDE DEF u
  <2>1. CASE u.index # LedPatterns[p].steps
    BY <1>1, <1>p, <2>1 DEF Wrapped
  <2>2. CASE u.index = LedPatterns[p].steps
    <3> DEFINE r == IF LedPatterns[p].repetition_count = -1 THEN 0 ELSE u.repetition + 1
    <3>1. r \in Nat
      BY <1>1 DEF UsedRecord
    <3>2. w = [u EXCEPT !.index = 0, !.repetition = r]
      BY <1>1, <2>2 DEF Wrapped
    <3> HIDE DEF w, r
    <3>3. u.pattern \in Patterns \cup {NoPattern} /\ w.pattern = u.pattern
          /\ w.index = 0 /\ w \in UsedRecord
      BY <1>1, <3>1, <3>2 DEF UsedRecord
    <3> QED BY <1>1, <1>p, <3>3
  <2> QED BY <2>1, <2>2
<1>3. Ended(w) => LedPatterns[p].repetition_count # -1
  BY <1>2 DEF Ended, UsedRecord
<1>4. /\ v \in UsedRecord /\ InPattern(v)
      /\ v.pattern = IF Ended(w) THEN NoPattern ELSE p
  BY <1>2, <1>p DEF UsedRecord, InPattern, NoPattern
<1>5. used' = [used EXCEPT ![l] = v]
  BY DEF PulseStep
<1>6. pulse_timers' = [pulse_timers EXCEPT ![l] = ~Ended(w)]
  BY DEF PulseStep
<1>7. Ended(w) \in BOOLEAN
  BY DEF Ended
<1> HIDE DEF u, w, v
<1>8. pulse_timers' \in [Leds -> BOOLEAN] /\ (pulse_timers'[l] <=> ~Ended(w))
      /\ \A m \in Leds \ {l} : pulse_timers'[m] = pulse_timers[m]
  BY <1>6, <1>7, Zenon
<1>9. used' \in [Leds -> UsedRecord] /\ used'[l] = v
      /\ \A m \in Leds \ {l} : used'[m] = used[m]
  BY <1>4, <1>5
<1> QED BY <1>3, <1>4, <1>8, <1>9, <1>p

-----------------------------------------------------------------------------
(* Types and timers *)

\* The first state has them.
LEMMA InitTypeInv == Init => TypeInv
<1> SUFFICES ASSUME Init PROVE TypeInv
  OBVIOUS
<1>1. used \in [Leds -> UsedRecord] /\ \A l \in Leds : used[l].pattern = NoPattern
  BY DEF Init, UsedRecord
<1>2. \A l \in Leds : InPattern(used[l])
  BY <1>1 DEF InPattern
<1>3. \A l \in Leds : pulse_timers[l] = FALSE
  BY DEF Init
<1>4. TypeOK
  <2>1. \A l \in Leds : used[l].pattern \in Patterns \cup {NoPattern} /\ InPattern(used[l])
    BY <1>1, <1>2
  <2> QED BY <2>1, SystemLedAssumption DEF Init, TypeOK, InPattern, Values, ON, OFF
<1> QED BY <1>1, <1>2, <1>3, <1>4 DEF TypeInv, Init

\* A step that leaves the patterns alone keeps what they say.
LEMMA UsedKept ==
  ASSUME TypeInv, UNCHANGED used
  PROVE  /\ used' \in [Leds -> UsedRecord]
         /\ \A l \in Leds : InPattern(used'[l])
BY DEF TypeInv

\* Every step of the writer, of the timers and of rmmod keeps them.
LEMMA NextTypeInv == TypeInv /\ [Next]_vars => TypeInv'
<1> SUFFICES ASSUME TypeInv, [Next]_vars PROVE TypeInv'
  OBVIOUS
<1> USE DEF TypeInv
<1>a. UNCHANGED used =>
        /\ used' \in [Leds -> UsedRecord]
        /\ \A l \in Leds : InPattern(used'[l])
  BY UsedKept
<1>b. ASSUME used' \in [Leds -> UsedRecord], \A l \in Leds : InPattern(used'[l])
      PROVE  \A l \in Leds :
               /\ used'[l].pattern \in Patterns \cup {NoPattern}
               /\ used'[l].pattern # NoPattern =>
                    used'[l].index \in 1 .. LedPatterns[used'[l].pattern].steps
  BY <1>b DEF UsedRecord, InPattern
<1>1. ASSUME NEW l \in Leds, PulseFire(l) PROVE TypeInv'
  <2> DEFINE w == Wrapped(Started(used[l]))
  <2>1. /\ PulseStep(l, w) /\ out' = [out EXCEPT ![l] = LedStatus(w)]
        /\ pulse_timers[l] /\ ~Starting(l)
        /\ UNCHANGED <<pulse_pattern, kernelVars, callVars, unloadVars, histVars>>
    BY <1>1 DEF PulseFire
  <2>2. used[l].pattern \in Patterns /\ used[l].pattern # NoPattern
    BY <2>1 DEF UsedRecord
  <2>3. /\ used' \in [Leds -> UsedRecord] /\ InPattern(used'[l])
        /\ pulse_timers' \in [Leds -> BOOLEAN]
        /\ \A m \in Leds \ {l} : used'[m] = used[m] /\ pulse_timers'[m] = pulse_timers[m]
        /\ pulse_timers'[l] => used'[l].pattern # NoPattern
        /\ ~pulse_timers'[l] => used'[l].pattern = NoPattern
    BY <2>1, <2>2, PulseStepEffect DEF TypeOK
  <2>4. \A m \in Leds : InPattern(used'[m])
    BY <2>3
  <2>5. LedStatus(w) \in {ON, OFF}
    BY DEF LedStatus
  <2> HIDE DEF w
  <2>6. out' \in [Leds -> {ON, OFF}]
    BY <2>1, <2>5 DEF TypeOK
  <2>7. TypeOK'
    BY <1>b, <2>1, <2>3, <2>4, <2>6 DEF TypeOK, kernelVars, callVars, unloadVars, histVars
  <2>8. writer \in {"act", "pulse"} => l # gpio
    BY <2>1
  <2> QED BY <2>1, <2>3, <2>4, <2>7, <2>8 DEF callVars, unloadVars, TypeOK
<1>2. CASE BlinkFire
  <2>1. out' \in [Leds -> {ON, OFF}] /\ sysled_timer' \in {ON, OFF, NoTimer}
    BY <1>2 DEF BlinkFire, TypeOK, ON, OFF, NoTimer
  <2>2. UNCHANGED <<pulse_pattern, sys_blinking_flag, pulseVars, callVars, unloadVars, histVars>>
    BY <1>2 DEF BlinkFire
  <2> QED BY <1>a, <1>b, <2>1, <2>2 DEF TypeOK, pulseVars, callVars, unloadVars, histVars
<1>3. ASSUME NEW l \in Leds, NEW v \in Values, WriteStart(l, v) PROVE TypeInv'
  <2>1. written' \in [Leds -> Values \cup {NoRequest}]
    BY <1>3 DEF WriteStart, TypeOK
  <2>2. /\ writer = "idle" /\ mod = "loaded" /\ gpio' = l /\ gpioval' = v
        /\ writer' = IF pulse_timers[l] THEN "del" ELSE "act"
        /\ UNCHANGED <<out, pulse_pattern, kernelVars, pulseVars, temp, unloadVars>>
    BY <1>3 DEF WriteStart
  <2>3. TypeOK'
    BY <1>a, <1>b, <2>1, <2>2 DEF TypeOK, kernelVars, pulseVars, unloadVars
  <2> QED BY <1>a, <2>2, <2>3 DEF pulseVars, unloadVars
<1>4. CASE WriteDel
  <2>1. /\ pulse_timers' = [pulse_timers EXCEPT ![gpio] = FALSE]
        /\ used' = [used EXCEPT ![gpio].pattern = NoPattern]
        /\ writer = "del" /\ writer' = "act"
        /\ UNCHANGED <<out, pulse_pattern, kernelVars, gpio, gpioval, temp, unloadVars, histVars>>
    BY <1>4 DEF WriteDel
  <2>2. gpio \in Leds /\ pulse_timers \in [Leds -> BOOLEAN]
    BY DEF TypeOK
  <2>3. /\ pulse_timers' \in [Leds -> BOOLEAN] /\ ~pulse_timers'[gpio]
        /\ \A m \in Leds \ {gpio} : pulse_timers'[m] = pulse_timers[m]
    BY <2>1, <2>2, Zenon
  <2>4. /\ used' \in [Leds -> UsedRecord] /\ used'[gpio].pattern = NoPattern
        /\ \A m \in Leds \ {gpio} : used'[m] = used[m]
    BY <2>1, <2>2 DEF UsedRecord
  <2>5. \A m \in Leds : InPattern(used'[m])
    BY <2>4 DEF InPattern
  <2>6. TypeOK'
    BY <1>b, <2>1, <2>3, <2>4, <2>5 DEF TypeOK, kernelVars, unloadVars, histVars
  <2>7. mod = "loaded" /\ mod' = mod /\ dirty' = dirty /\ writer' = "act" /\ gpio' = gpio
    BY <2>1 DEF unloadVars
  <2> QED BY <2>3, <2>4, <2>5, <2>6, <2>7
<1>5. CASE WriteLevel
  <2>1. /\ writer = "act" /\ writer' = "store" /\ temp' = out
        /\ UNCHANGED <<out, pulse_pattern, kernelVars, pulseVars, gpio, gpioval>>
        /\ UNCHANGED <<unloadVars, histVars>>
    BY <1>5 DEF WriteLevel, OutLoad
  <2> QED BY <1>a, <1>b, <2>1 DEF TypeOK, kernelVars, pulseVars, unloadVars, histVars
<1>6. CASE WritePattern
  <2>1. /\ writer = "act" /\ writer' = IF gpioval \in Patterns THEN "pulse" ELSE "idle"
        /\ gpioval \notin {OFF, ON} /\ pulse_pattern' = gpioval
        /\ UNCHANGED <<out, kernelVars, pulseVars, gpio, gpioval, temp, unloadVars, histVars>>
    BY <1>6 DEF WritePattern
  <2> QED BY <1>a, <1>b, <2>1 DEF TypeOK, Values, kernelVars, pulseVars, unloadVars, histVars
<1>7. CASE WritePulse
  <2>1. /\ PulseStep(gpio, Wrapped(Started(used[gpio])))
        /\ writer = "pulse" /\ writer' = "store" /\ temp' = out
        /\ UNCHANGED <<out, pulse_pattern, kernelVars, gpio, gpioval, unloadVars, histVars>>
    BY <1>7 DEF WritePulse, OutLoad
  <2>2. gpio \in Leds /\ mod = "loaded" /\ used[gpio].pattern = NoPattern
        /\ pulse_pattern \in Patterns
    BY <2>1 DEF TypeOK
  <2>3. /\ used' \in [Leds -> UsedRecord] /\ InPattern(used'[gpio])
        /\ pulse_timers' \in [Leds -> BOOLEAN]
        /\ \A m \in Leds \ {gpio} : used'[m] = used[m] /\ pulse_timers'[m] = pulse_timers[m]
        /\ pulse_timers'[gpio] => used'[gpio].pattern = pulse_pattern
        /\ ~pulse_timers'[gpio] => used'[gpio].pattern = NoPattern
    BY <2>1, <2>2, PulseStepEffect DEF TypeOK
  <2>4. pulse_pattern # NoPattern
    BY <2>2, PatternsAssumption DEF Patterns, NoPattern
  <2>5. \A m \in Leds : InPattern(used'[m])
    BY <2>3
  <2>6. TypeOK'
    BY <1>b, <2>1, <2>3, <2>5 DEF TypeOK, kernelVars, unloadVars, histVars
  <2>7. mod' = mod /\ dirty' = dirty /\ writer' = "store" /\ gpio' = gpio
    BY <2>1 DEF unloadVars
  <2> QED BY <2>2, <2>3, <2>4, <2>5, <2>6, <2>7
<1>8. CASE WriteStore
  <2>1. /\ out' = [temp EXCEPT ![gpio] = WriteBit]
        /\ writer = "store" /\ mod = "loaded" /\ writer' \in {"idle", "stop"}
        /\ UNCHANGED <<pulse_pattern, kernelVars, pulseVars, gpio, gpioval, temp>>
        /\ UNCHANGED <<unloadVars, histVars>>
    BY <1>8 DEF WriteStore, OutStore
  <2>2. out' \in [Leds -> {ON, OFF}]
    BY <2>1 DEF TypeOK, WriteBit
  <2> QED BY <1>a, <1>b, <2>1, <2>2 DEF TypeOK, kernelVars, pulseVars, unloadVars, histVars
<1>9. CASE WriteStop
  <2>1. /\ sys_blinking_flag' \in BOOLEAN /\ writer = "stop" /\ writer' = "idle"
        /\ UNCHANGED <<out, pulse_pattern, sysled_timer, pulseVars, gpio, gpioval, temp>>
        /\ UNCHANGED <<unloadVars, histVars>>
    BY <1>9 DEF WriteStop
  <2> QED BY <1>a, <1>b, <2>1 DEF TypeOK, pulseVars, unloadVars, histVars
<1>10. ASSUME NEW l \in Leds, CleanTimer(l) PROVE TypeInv'
  <2>1. /\ pulse_timers' = [pulse_timers EXCEPT ![l] = FALSE]
        /\ mod' = "cleanup" /\ dirty' = dirty \ {l} /\ l \in dirty /\ gpio' = l
        /\ writer = "idle" /\ writer' = "store" /\ temp' = out
        /\ UNCHANGED <<out, pulse_pattern, kernelVars, used, gpioval, histVars>>
    BY <1>10 DEF CleanTimer, OutLoad
  <2>2. pulse_timers \in [Leds -> BOOLEAN]
    BY DEF TypeOK
  <2>3. /\ pulse_timers' \in [Leds -> BOOLEAN] /\ ~pulse_timers'[l]
        /\ \A m \in Leds \ {l} : pulse_timers'[m] = pulse_timers[m]
    BY <2>1, <2>2, Zenon
  <2>4. TypeOK'
    BY <1>a, <1>b, <2>1, <2>3 DEF TypeOK, kernelVars, histVars
  <2>5. mod' = "cleanup" /\ writer' = "store" /\ used' = used
    BY <2>1
  <2> QED BY <1>a, <2>3, <2>4, <2>5
<1>11. CASE CleanStore
  <2>1. /\ out' = [temp EXCEPT ![gpio] = OFF]
        /\ writer = "store" /\ mod = "cleanup" /\ writer' = "idle"
        /\ mod' = IF dirty = {} THEN "gone" ELSE mod
        /\ UNCHANGED <<pulse_pattern, kernelVars, pulseVars, gpio, gpioval, temp, dirty, histVars>>
    BY <1>11 DEF CleanStore, OutStore
  <2>2. out' \in [Leds -> {ON, OFF}]
    BY <2>1 DEF TypeOK
  <2> QED BY <1>a, <1>b, <2>1, <2>2 DEF TypeOK, kernelVars, pulseVars, histVars
<1>12. CASE UNCHANGED vars
  BY <1>12 DEF vars, TypeOK, kernelVars, pulseVars, callVars, unloadVars, histVars
<1> QED BY <1>1, <1>2, <1>3, <1>4, <1>5, <1>6, <1>7, <1>8, <1>9, <1>10, <1>11, <1>12
        DEF Next, Write, Cleanup

\* They hold from gpio_init on, whatever is written and whenever timers fire.
LEMMA LedsTypes == Spec => []TypeInv
BY InitTypeInv, NextTypeInv, PTL DEF Spec

-----------------------------------------------------------------------------
(* What is written is what is shown *)

\* A value is a level, a pattern or neither.
LEMMA ValuesDiffer ==
  /\ OFF \notin Patterns /\ ON \notin Patterns /\ NoRequest \notin Patterns
  /\ NoRequest \notin {OFF, ON} /\ BadPatterns \cap Patterns = {}
  /\ OFF \notin BadPatterns /\ ON \notin BadPatterns
BY PatternsAssumption DEF Patterns, OFF, ON, NoRequest

\* Before the first write nothing was asked of a LED.
LEMMA InitWriteInv == Init => WriteInv
<1> SUFFICES ASSUME Init PROVE WriteInv
  OBVIOUS
<1>1. \A l \in Leds : written[l] = NoRequest
  BY DEF Init
<1>2. \A l \in Leds : Shows(l)
  BY <1>1, ValuesDiffer DEF Shows
<1> QED BY <1>1, <1>2, SystemLedAssumption DEF Init, WriteInv

\* Every step of gpio_write, of the timer functions and of rmmod keeps it.
LEMMA NextWriteInv == TypeInv /\ TypeInv' /\ WriteInv /\ [Next]_vars => WriteInv'
<1> SUFFICES ASSUME TypeInv, TypeInv', WriteInv, [Next]_vars PROVE WriteInv'
  OBVIOUS
<1> USE ValuesDiffer, SystemLedAssumption DEF WriteInv
<1>a. \A l \in Leds : Shows(l) <=>
        /\ written[l] \in {OFF, ON} => out[l] = written[l] /\ ~pulse_timers[l]
        /\ written[l] \in Patterns => Plays(l, written[l])
  BY DEF Shows, Plays
<1>b. \A l \in Leds : Shows(l)' <=>
        /\ written'[l] \in {OFF, ON} => out'[l] = written'[l] /\ ~pulse_timers'[l]
        /\ written'[l] \in Patterns =>
             IF pulse_timers'[l]
               THEN used'[l].pattern = written'[l]
               ELSE /\ LedPatterns[written'[l]].repetition_count # -1
                    /\ used'[l].pattern = NoPattern
  BY DEF Shows
<1>t. gpio \in Leds /\ gpioval \in Values /\ out \in [Leds -> {ON, OFF}]
      /\ temp \in [Leds -> {ON, OFF}] /\ written \in [Leds -> Values \cup {NoRequest}]
  BY DEF TypeInv, TypeOK
<1>1. ASSUME NEW l \in Leds, PulseFire(l) PROVE WriteInv'
  <2> DEFINE w == Wrapped(Started(used[l]))
  <2>1. /\ PulseStep(l, w) /\ out' = [out EXCEPT ![l] = LedStatus(w)]
        /\ pulse_timers[l] /\ ~Starting(l)
        /\ UNCHANGED <<pulse_pattern, kernelVars, callVars, unloadVars, histVars>>
    BY <1>1 DEF PulseFire
  <2>2. used[l].pattern \in Patterns /\ used[l].pattern # NoPattern
    BY <2>1 DEF UsedRecord, TypeInv
  <2>3. /\ \A m \in Leds \ {l} : used'[m] = used[m] /\ pulse_timers'[m] = pulse_timers[m]
        /\ IF pulse_timers'[l]
             THEN used'[l].pattern = used[l].pattern
             ELSE /\ LedPatterns[used[l].pattern].repetition_count # -1
                  /\ used'[l].pattern = NoPattern
    BY <2>1, <2>2, PulseStepEffect DEF TypeInv, TypeOK
  <2> HIDE DEF w
  <2>4. \A m \in Leds \ {l} : out'[m] = out[m]
    BY <2>1, <1>t
  <2>5. \A m \in Leds : Settled(m)' => Settled(m)
    BY <2>1 DEF Settled, callVars, unloadVars
  <2>6. \A m \in Leds : Shows(m) => Shows(m)'
    BY <1>a, <1>b, <2>1, <2>2, <2>3, <2>4 DEF Plays, histVars
  <2>7. mod = "loaded" /\ writer = "store" => l # gpio \/ gpioval \notin {OFF, ON} \cup Patterns
    BY <2>1 DEF Starting
  <2>8. \A m \in Leds : written[m] \in {OFF, ON} /\ mod = "loaded"
                         /\ (m # gpio \/ writer = "idle") => m # l
    BY <1>a, <2>1 DEF Settled
  <2>9. writer = "stop" => l # gpio
    BY <2>1
  <2>10. (gpioval \in Patterns => Plays(gpio, gpioval)) /\ l # gpio =>
           (gpioval' \in Patterns => Plays(gpio, gpioval)')
    BY <1>t, <2>1, <2>3 DEF Plays, callVars
  <2> QED BY <1>t, <2>1, <2>3, <2>4, <2>5, <2>6, <2>7, <2>8, <2>9, <2>10
          DEF callVars, kernelVars, unloadVars, histVars
<1>2. CASE BlinkFire
  <2>1. /\ sysled_timer # NoTimer
        /\ \A m \in Leds \ {SystemLed} : out'[m] = out[m]
        /\ UNCHANGED <<pulse_pattern, pulseVars, callVars, unloadVars, histVars>>
    BY <1>2, <1>t DEF BlinkFire
  <2>2. \A m \in Leds : written[m] # NoRequest => out'[m] = out[m]
    BY <2>1
  <2>3. \A m \in Leds : Shows(m) => Shows(m)'
    BY <1>a, <1>b, <2>1, <2>2 DEF Plays, histVars, pulseVars
  <2>4. \A m \in Leds : Settled(m)' => Settled(m)
    BY <2>1 DEF Settled, callVars, unloadVars
  <2>5. (gpioval \in Patterns => Plays(gpio, gpioval)) =>
          (gpioval' \in Patterns => Plays(gpio, gpioval)')
    BY <2>1 DEF Plays, callVars, pulseVars
  <2> QED BY <1>t, <2>1, <2>2, <2>3, <2>4, <2>5 DEF callVars, unloadVars, histVars, pulseVars
<1>3. ASSUME NEW l \in Leds, NEW v \in Values, WriteStart(l, v) PROVE WriteInv'
  <2>1. /\ writer = "idle" /\ mod = "loaded" /\ gpio' = l /\ gpioval' = v
        /\ writer' \in {"del", "act"}
        /\ UNCHANGED <<out, pulse_pattern, kernelVars, pulseVars, temp, unloadVars>>
    BY <1>3 DEF WriteStart
  <2>2. /\ written'[l] \in {v, NoRequest}
        /\ l = SystemLed /\ sysled_timer # NoTimer => written'[l] = NoRequest
        /\ \A m \in Leds \ {l} : written'[m] = written[m]
    BY <1>3, <1>t DEF WriteStart
  <2>3. \A m \in Leds : m # l => Shows(m)'
    BY <1>a, <1>b, <2>1, <2>2 DEF Settled, Plays, pulseVars
  <2>4. \A m \in Leds : Settled(m)' => m # l
    BY <2>1 DEF Settled
  <2> QED BY <2>1, <2>2, <2>3, <2>4 DEF kernelVars, unloadVars
<1>4. CASE WriteDel
  <2>1. /\ pulse_timers' = [pulse_timers EXCEPT ![gpio] = FALSE]
        /\ used' = [used EXCEPT ![gpio].pattern = NoPattern]
        /\ writer = "del" /\ writer' = "act"
        /\ UNCHANGED <<out, pulse_pattern, kernelVars, gpio, gpioval, temp, unloadVars, histVars>>
    BY <1>4 DEF WriteDel
  <2>2. \A m \in Leds \ {gpio} : pulse_timers'[m] = pulse_timers[m] /\ used'[m] = used[m]
    BY <2>1 DEF TypeInv, TypeOK
  <2>3. \A m \in Leds : Settled(m)' => Settled(m) /\ m # gpio
    BY <2>1 DEF Settled, unloadVars
  <2>4. \A m \in Leds : m # gpio /\ Shows(m) => Shows(m)'
    BY <1>a, <1>b, <2>1, <2>2 DEF Plays, histVars
  <2>5. UNCHANGED <<sysled_timer, gpio, gpioval, mod, written>> /\ writer = "del" /\ writer' = "act"
    BY <2>1 DEF kernelVars, unloadVars, histVars
  <2> QED BY <2>3, <2>4, <2>5
<1>5. CASE WriteLevel
  <2>1. /\ writer = "act" /\ writer' = "store" /\ temp' = out /\ gpioval \in {OFF, ON}
        /\ UNCHANGED <<out, pulse_pattern, kernelVars, pulseVars, gpio, gpioval>>
        /\ UNCHANGED <<unloadVars, histVars>>
    BY <1>5 DEF WriteLevel, OutLoad
  <2>2. \A m \in Leds : Settled(m)' => Settled(m)
    BY <2>1 DEF Settled, unloadVars
  <2>3. \A m \in Leds : Shows(m) => Shows(m)'
    BY <1>a, <1>b, <2>1 DEF Plays, histVars, pulseVars
  <2>4. ~pulse_timers[gpio]
    BY <2>1 DEF TypeInv
  <2> QED BY <2>1, <2>2, <2>3, <2>4 DEF kernelVars, unloadVars, histVars, pulseVars
<1>6. CASE WritePattern
  <2>1. /\ writer = "act" /\ writer' = IF gpioval \in Patterns THEN "pulse" ELSE "idle"
        /\ gpioval \notin {OFF, ON} /\ pulse_pattern' = gpioval
        /\ UNCHANGED <<out, kernelVars, pulseVars, gpio, gpioval, temp, unloadVars, histVars>>
    BY <1>6 DEF WritePattern
  <2>2. \A m \in Leds : Settled(m)' => Settled(m) \/ (m = gpio /\ writer' = "idle")
    BY <2>1 DEF Settled, unloadVars
  <2>3. \A m \in Leds : Shows(m) => Shows(m)'
    BY <1>a, <1>b, <2>1 DEF Plays, histVars, pulseVars
  <2>4. mod = "loaded"
    BY <2>1 DEF TypeInv, TypeOK
  <2>5. writer' = "idle" => Shows(gpio)'
    BY <1>b, <1>t, <2>1, <2>4 DEF histVars
  <2> QED BY <2>1, <2>2, <2>3, <2>5 DEF kernelVars, unloadVars, histVars, pulseVars
<1>7. CASE WritePulse
  <2>1. /\ PulseStep(gpio, Wrapped(Started(used[gpio])))
        /\ writer = "pulse" /\ writer' = "store" /\ temp' = out
        /\ UNCHANGED <<out, pulse_pattern, kernelVars, gpio, gpioval, unloadVars, histVars>>
    BY <1>7 DEF WritePulse, OutLoad
  <2>2. mod = "loaded" /\ used[gpio].pattern = NoPattern
        /\ pulse_pattern \in Patterns /\ pulse_pattern = gpioval
    BY <1>t, <2>1 DEF TypeInv
  <2>3. /\ \A m \in Leds \ {gpio} : used'[m] = used[m] /\ pulse_timers'[m] = pulse_timers[m]
        /\ IF pulse_timers'[gpio]
             THEN used'[gpio].pattern = gpioval
             ELSE LedPatterns[gpioval].repetition_count # -1 /\ used'[gpio].pattern = NoPattern
    BY <1>t, <2>1, <2>2, PulseStepEffect DEF TypeInv, TypeOK
  <2>4. Plays(gpio, gpioval)'
    BY <2>1, <2>3 DEF Plays
  <2>5. \A m \in Leds : Settled(m)' => Settled(m) /\ m # gpio
    BY <2>1 DEF Settled, unloadVars
  <2>6. \A m \in Leds : m # gpio /\ Shows(m) => Shows(m)'
    BY <1>a, <1>b, <2>1, <2>3 DEF Plays, histVars
  <2>7. /\ UNCHANGED <<sysled_timer, gpio, gpioval, mod, written, out>>
        /\ writer = "pulse" /\ writer' = "store" /\ temp' = out
    BY <2>1 DEF kernelVars, unloadVars, histVars
  <2> QED BY <2>2, <2>4, <2>5, <2>6, <2>7
<1>8. CASE WriteStore
  <2>1. /\ out' = [temp EXCEPT ![gpio] = WriteBit]
        /\ writer = "store" /\ mod = "loaded"
        /\ writer' = IF gpioval = OFF /\ gpio = SystemLed THEN "stop" ELSE "idle"
        /\ UNCHANGED <<pulse_pattern, kernelVars, pulseVars, gpio, gpioval, temp>>
        /\ UNCHANGED <<unloadVars, histVars>>
    BY <1>8 DEF WriteStore, OutStore
  <2>2. /\ \A m \in Leds \ {gpio} : written[m] \in {OFF, ON} => out'[m] = out[m]
        /\ gpioval \in {OFF, ON} => out'[gpio] = gpioval
    BY <1>t, <2>1 DEF WriteBit
  <2>3. \A m \in Leds : m # gpio /\ Shows(m) => Shows(m)'
    BY <1>a, <1>b, <2>1, <2>2 DEF Plays, histVars, pulseVars
  <2>4. Shows(gpio)'
    BY <1>b, <1>t, <2>1, <2>2 DEF Plays, histVars, pulseVars
  <2>5. \A m \in Leds : m # gpio => Settled(m)
    BY <2>1 DEF Settled
  <2> QED BY <2>1, <2>2, <2>3, <2>4, <2>5 DEF kernelVars, unloadVars, histVars, pulseVars
<1>9. CASE WriteStop
  <2>1. /\ writer = "stop" /\ writer' = "idle"
        /\ UNCHANGED <<out, pulse_pattern, sysled_timer, pulseVars, gpio, gpioval, temp>>
        /\ UNCHANGED <<unloadVars, histVars>>
    BY <1>9 DEF WriteStop
  <2>2. mod = "loaded"
    BY <2>1 DEF TypeInv, TypeOK
  <2>3. Shows(gpio)'
    BY <1>b, <1>t, <2>1, <2>2 DEF histVars, pulseVars
  <2>4. \A m \in Leds : m # gpio => Settled(m)
    BY <2>2 DEF Settled
  <2>5. \A m \in Leds : Shows(m) => Shows(m)'
    BY <1>a, <1>b, <2>1 DEF Plays, histVars, pulseVars
  <2> QED BY <2>1, <2>3, <2>4, <2>5 DEF unloadVars, histVars, pulseVars
<1>10. ASSUME NEW l \in Leds, CleanTimer(l) PROVE WriteInv'
  <2>1. mod' = "cleanup" /\ writer' = "store" /\ UNCHANGED <<kernelVars, histVars>>
    BY <1>10 DEF CleanTimer
  <2> QED BY <2>1 DEF Settled, kernelVars, histVars
<1>11. CASE CleanStore
  <2>1. mod' # "loaded" /\ writer' = "idle" /\ UNCHANGED <<kernelVars, histVars>>
    BY <1>11 DEF CleanStore
  <2> QED BY <2>1 DEF Settled, kernelVars, histVars
<1>12. CASE UNCHANGED vars
  <2>1. \A m \in Leds : (Settled(m)' <=> Settled(m)) /\ (Shows(m) => Shows(m)')
    BY <1>a, <1>b, <1>12 DEF Settled, Plays, vars, pulseVars, callVars, unloadVars, histVars
  <2>2. (gpioval \in Patterns => Plays(gpio, gpioval)) =>
          (gpioval' \in Patterns => Plays(gpio, gpioval)')
    BY <1>12 DEF Plays, vars, callVars, pulseVars
  <2> QED BY <1>12, <2>1, <2>2 DEF vars, kernelVars, pulseVars, callVars, unloadVars, histVars
<1> QED BY <1>1, <1>2, <1>3, <1>4, <1>5, <1>6, <1>7, <1>8, <1>9, <1>10, <1>11, <1>12
        DEF Next, Write, Cleanup

\* It holds in every reachable state.
LEMMA LedsWriteInvariant == Spec => []WriteInv
<1>1. TypeInv /\ TypeInv' /\ WriteInv /\ [Next]_vars => WriteInv'
  BY NextWriteInv
<1> QED BY InitWriteInv, LedsTypes, <1>1, PTL DEF Spec

-----------------------------------------------------------------------------
(* What rmmod leaves behind *)

\* Every step keeps the LEDs that gpio_cleanup has served dark.
LEMMA NextDarkInv == TypeInv /\ DarkInv /\ [Next]_vars => DarkInv'
<1> SUFFICES ASSUME TypeInv, DarkInv, [Next]_vars PROVE DarkInv'
  OBVIOUS
<1> USE DEF DarkInv
<1>t. gpio \in Leds /\ out \in [Leds -> {ON, OFF}] /\ temp \in [Leds -> {ON, OFF}]
      /\ pulse_timers \in [Leds -> BOOLEAN]
  BY DEF TypeInv, TypeOK
<1>1. ASSUME NEW l \in Leds, PulseFire(l) PROVE DarkInv'
  <2>1. \A m \in Leds \ {l} : out'[m] = out[m] /\ pulse_timers'[m] = pulse_timers[m]
    BY <1>1, <1>t DEF PulseFire, PulseStep
  <2>2. pulse_timers[l] /\ UNCHANGED <<callVars, unloadVars>>
    BY <1>1 DEF PulseFire
  <2> QED BY <2>1, <2>2 DEF callVars, unloadVars
<1>2. CASE BlinkFire
  <2>1. \A m \in Leds \ {SystemLed} : out'[m] = out[m]
    BY <1>2, <1>t DEF BlinkFire
  <2>2. UNCHANGED <<pulseVars, callVars, unloadVars>>
    BY <1>2 DEF BlinkFire
  <2> QED BY <2>1, <2>2 DEF pulseVars, callVars, unloadVars
<1>3. CASE Write
  \* gpio_write runs only while the module is loaded.
  <2>1. mod = "loaded" /\ mod' = mod
    BY <1>3 DEF Write, WriteStart, WriteDel, WriteLevel, WritePattern, WritePulse,
       WriteStore, WriteStop, unloadVars, TypeInv, TypeOK
  <2> QED BY <2>1
<1>4. ASSUME NEW l \in Leds, CleanTimer(l) PROVE DarkInv'
  <2>1. /\ writer = "idle" /\ writer' = "store" /\ gpio' = l /\ temp' = out /\ out' = out
        /\ l \in dirty /\ dirty' = dirty \ {l}
        /\ pulse_timers' = [pulse_timers EXCEPT ![l] = FALSE]
    BY <1>4 DEF CleanTimer, OutLoad
  <2>2. ~pulse_timers'[l] /\ \A m \in Leds \ {l} : pulse_timers'[m] = pulse_timers[m]
    BY <1>t, <2>1, Zenon
  <2>3. mod = "loaded" => Leds \ dirty = {}
    BY DEF TypeInv
  <2>4. \A m \in Leds \ dirty' : m = l \/ (m \notin dirty /\ mod # "loaded")
    BY <2>1, <2>3
  <2> HIDE DEF DarkInv
  <2>5. \A m \in Leds \ dirty' : ~pulse_timers'[m]
    BY <2>2, <2>4 DEF DarkInv
  <2>6. \A m \in Leds \ dirty' : m # SystemLed /\ m # l => out[m] = OFF
    BY <2>1, <2>4 DEF DarkInv
  <2> QED BY <2>1, <2>5, <2>6 DEF DarkInv
<1>5. CASE CleanStore
  <2>1. /\ writer = "store" /\ mod = "cleanup" /\ writer' = "idle"
        /\ out' = [temp EXCEPT ![gpio] = OFF]
        /\ UNCHANGED <<pulseVars, gpio, temp, dirty>>
    BY <1>5 DEF CleanStore, OutStore
  <2>2. out'[gpio] = OFF /\ \A m \in Leds \ {gpio} : out'[m] = temp[m]
    BY <1>t, <2>1
  <2> QED BY <2>1, <2>2 DEF pulseVars
<1>6. CASE UNCHANGED vars
  BY <1>6 DEF vars, pulseVars, callVars, unloadVars
<1> QED BY <1>1, <1>2, <1>3, <1>4, <1>5, <1>6 DEF Next, Cleanup

\* They are dark in every reachable state.
LEMMA LedsDarkInvariant == Spec => []DarkInv
<1>1. Init => DarkInv
  BY DEF Init, DarkInv
<1>2. TypeInv /\ DarkInv /\ [Next]_vars => DarkInv'
  BY NextDarkInv
<1> QED BY LedsTypes, <1>1, <1>2, PTL DEF Spec

-----------------------------------------------------------------------------
(* Theorems *)

\* A LED has a pattern exactly while its timer is pending, however timers fire
\* inside gpio_write: led_pulse as a timer function never reads the shared
\* pulse_pattern and never runs past the end of its pattern.
THEOREM LedsPatternHasTimer == Spec => []PatternHasTimer
<1>1. TypeInv => PatternHasTimer
  BY DEF TypeInv, PatternHasTimer
<1> QED BY <1>1, LedsTypes, PTL

\* The last value written to a LED decides what it shows, although every
\* gpio_write stores the whole register as it read it before the timers of
\* other LEDs fired.
THEOREM LedsLastWriteCounts == Spec => []LastWriteCounts
<1>1. WriteInv => LastWriteCounts
  BY DEF WriteInv, LastWriteCounts
<1> QED BY <1>1, LedsWriteInvariant, PTL

\* After gpio_cleanup no timer of the module is pending and its LEDs are off.
THEOREM LedsUnloadedIsDark == Spec => []UnloadedIsDark
<1>1. TypeInv /\ DarkInv => UnloadedIsDark
  BY DEF TypeInv, DarkInv, UnloadedIsDark
<1> QED BY <1>1, LedsTypes, LedsDarkInvariant, PTL

=============================================================================
