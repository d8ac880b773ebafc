---------------------------- MODULE MCOrderbook -----------------------------
(* One order with a fragment for either epoch, or three orders without.     *)
EXTENDS Orderbook

BothDepths == Orders \X {0, 1}
=============================================================================
