---------------------------- MODULE MCGpioButton ----------------------------
(* GpioButton with the reset button and the WPS button, waiting times cut. *)
EXTENDS GpioButton

CONSTANTS reset, wps   \* the two pins

ShortWait == [b \in Buttons |-> IF b = reset THEN 2 ELSE 1]

=============================================================================
