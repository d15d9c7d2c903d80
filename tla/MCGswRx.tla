------------------------------ MODULE MCGswRx -------------------------------
(* GswRx on a small ring. *)
EXTENDS GswRx
=============================================================================
