------------------------------ MODULE MCBrLoop ------------------------------
(* BrLoop with a short aging time; the four ports are those of the switch. *)
EXTENDS BrLoop

onlyWpa == {"wpa"}
someModes == {"plain", "wpa"}
twoPorts == {1, 3}
=============================================================================
