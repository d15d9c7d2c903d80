------------------------------ MODULE MCUdhcpc ------------------------------
(* An instance of Udhcpc for TLC. *)
EXTENDS Udhcpc

\* A lease that a slow script outlasts and one with requests in both phases.
someLeases == {3, 10}
=============================================================================
