------------------------------ MODULE MCStream ------------------------------
(* Streams between two nodes of which one breaks: the client reconnects and    *)
(* its handlers overtake each other.  Goroutines go on while they can, and      *)
(* Listen is called in the end.                                               *)
EXTENDS Stream

ReconnectSpec ==
  /\ StreamInit /\ [][StreamNext]_streamVars
  /\ WF_streamVars(StreamStep) /\ WF_streamVars(Listen)
=============================================================================
