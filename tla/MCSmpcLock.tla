----------------------------- MODULE MCSmpcLock -----------------------------
(* Two receivers against the writer of an epoch change, with callbacks that  *)
(* join the next stage.                                                      *)
EXTENDS SmpcLock
=============================================================================
