------------------------------- MODULE Recycler -------------------------------
(* The stream recycler (stream/stream.go) for one address: calls of Open share*)
(* a stream, count their references, and the last context to end closes it.   *)
(* A call holds a mutex of the address while it opens; recycler.mu guards the *)
(* maps and is released only around the Open of the wrapped streamer, so each *)
(* section between is one step.                                               *)
EXTENDS Integers, FiniteSets

CONSTANTS Callers,    \* calls of Open, each with a context of its own
          None

VARIABLES pc,         \* where each call is
          mu,         \* the mutex a call got from streamsMu
          using,      \* the stream a call returned
          streamsMu,  \* the mutex of the address in the map, or None
          owner,      \* for every mutex ever made, the call that holds it, or None
          streams,    \* the stream in the map, or None
          streamsRc,  \* its count of references
          open        \* the streams opened and not cancelled

vars == <<pc, mu, using, streamsMu, owner, streams, streamsRc, open>>

(* Mutexes and streams are named after the call that made them, as a call     *)
(* makes at most one of each.                                                 *)
Init ==
    /\ pc = [c \in Callers |-> "idle"]
    /\ mu = [c \in Callers |-> None]
    /\ using = [c \in Callers |-> None]
    /\ streamsMu = None
    /\ owner = [c \in Callers |-> None]
    /\ streams = None
    /\ streamsRc = 0
    /\ open = {}

(* Take the mutex of the address from the map, or make it.                    *)
GetMutex(c) ==
    /\ pc[c] = "idle"
    /\ streamsMu' = IF streamsMu = None THEN c ELSE streamsMu
    /\ mu' = [mu EXCEPT ![c] = streamsMu']
    /\ pc' = [pc EXCEPT ![c] = "got"]
    /\ UNCHANGED <<using, owner, streams, streamsRc, open>>

Lock(c) ==
    /\ pc[c] = "got"
    /\ owner[mu[c]] = None
    /\ owner' = [owner EXCEPT ![mu[c]] = c]
    /\ pc' = [pc EXCEPT ![c] = "locked"]
    /\ UNCHANGED <<mu, using, streamsMu, streams, streamsRc, open>>

Unlock(c) == owner' = [owner EXCEPT ![mu[c]] = None]

(* Nobody has a stream: leave recycler.mu and open one.                       *)
StartOpen(c) ==
    /\ pc[c] = "locked"
    /\ streamsRc = 0
    /\ pc' = [pc EXCEPT ![c] = "opening"]
    /\ UNCHANGED <<mu, using, streamsMu, owner, streams, streamsRc, open>>

(* Mutant of Reuse: the reference is not counted.                             *)
ReuseUncounted(c) ==
    /\ pc[c] = "locked"
    /\ streamsRc > 0
    /\ using' = [using EXCEPT ![c] = streams]
    /\ pc' = [pc EXCEPT ![c] = "using"]
    /\ Unlock(c)
    /\ UNCHANGED <<mu, streamsMu, streams, streamsRc, open>>

(* A stream is there: count one more reference and return it.                 *)
Reuse(c) ==
    /\ pc[c] = "locked"
    /\ streamsRc > 0
    /\ streamsRc' = streamsRc + 1
    /\ using' = [using EXCEPT ![c] = streams]
    /\ pc' = [pc EXCEPT ![c] = "using"]
    /\ Unlock(c)
    /\ UNCHANGED <<mu, streamsMu, streams, open>>

(* The wrapped streamer opened a stream: it goes into the map, over whatever  *)
(* is there.                                                                  *)
Opened(c) ==
    /\ pc[c] = "opening"
    /\ open' = open \cup {c}
    /\ streams' = c
    /\ streamsRc' = streamsRc + 1
    /\ using' = [using EXCEPT ![c] = c]
    /\ pc' = [pc EXCEPT ![c] = "using"]
    /\ Unlock(c)
    /\ UNCHANGED <<mu, streamsMu>>

OpenFailed(c) ==
    /\ pc[c] = "opening"
    /\ pc' = [pc EXCEPT ![c] = "done"]
    /\ Unlock(c)
    /\ UNCHANGED <<mu, using, streamsMu, streams, streamsRc, open>>

(* Mutant of Release: the last but one reference closes the stream.           *)
ReleaseEarly(c) ==
    /\ pc[c] = "using"
    /\ pc' = [pc EXCEPT ![c] = "done"]
    /\ using' = [using EXCEPT ![c] = None]
    /\ streamsRc' = streamsRc - 1
    /\ IF streamsRc' <= 1
       THEN open' = open \ {streams} /\ streams' = None /\ streamsMu' = None
       ELSE UNCHANGED <<open, streams, streamsMu>>
    /\ UNCHANGED <<mu, owner>>

(* The goroutine of a call, once its context is done: the last reference      *)
(* cancels the stream in the map and deletes every entry of the address, its  *)
(* mutex too, though calls may hold that mutex or wait for it.                *)
Release(c) ==
    /\ pc[c] = "using"
    /\ pc' = [pc EXCEPT ![c] = "done"]
    /\ using' = [using EXCEPT ![c] = None]
    /\ streamsRc' = streamsRc - 1
    /\ IF streamsRc' = 0
       THEN open' = open \ {streams} /\ streams' = None /\ streamsMu' = None
       ELSE UNCHANGED <<open, streams, streamsMu>>
    /\ UNCHANGED <<mu, owner>>

Next ==
    \E c \in Callers :
        \/ GetMutex(c) \/ Lock(c)
        \/ StartOpen(c) \/ Opened(c) \/ OpenFailed(c)
        \/ Reuse(c) \/ Release(c)

Spec == Init /\ [][Next]_vars
-------------------------------------------------------------------------------
(* A stream is open as long as a call that returned it has not ended its      *)
(* context ("should not close streams until all references have closed"),     *)
(* also when a second call opened a stream next to it.                        *)
OpenWhileUsed == \A c \in Callers : using[c] # None => using[c] \in open
===============================================================================
