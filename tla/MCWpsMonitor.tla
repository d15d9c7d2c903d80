---------------------------- MODULE MCWpsMonitor ----------------------------
(* Instances of WpsMonitor for TLC. *)
EXTENDS WpsMonitor

\* searching, registering, success and one of the errors
someCodes == {Searching, Registering, Connecting, 13}

\* time out, no reason
someLastCodes == {0, 4}
=============================================================================
