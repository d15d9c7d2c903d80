------------------------------ MODULE MCGswTx -------------------------------
(* GswTx on a small ring. *)
EXTENDS GswTx
=============================================================================
