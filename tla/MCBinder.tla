------------------------------ MODULE MCBinder ------------------------------
(* One account that opens and confirms an order, and nobody else uses it.      *)
EXTENDS Binder
=============================================================================
