------------------------------- MODULE MCLeds -------------------------------
(* Leds with the system LED and two more, and the two lengths of pattern that
   ledPatterns has, two steps and (cut to four) ten. *)
EXTENDS Leds

CONSTANTS sys, power, radio   \* the LEDs

shortPatterns ==
  [p \in 2 .. 3 |-> [steps |-> IF p = 2 THEN 2 ELSE 4, repetition_count |-> -1]]

=============================================================================
