------------------------------ MODULE SmpcLock ------------------------------
(***************************************************************************)
(* joinersMu of smpc/smpc.go, the RWMutex around the map of Joiners.        *)
(*                                                                         *)
(* Receivers are the goroutines that call Receive for the messages of one   *)
(* peer.  handleMessageJoin and handleMessageJoinResponse hold the read     *)
(* lock while they insert the Join, and the insertion runs the callback: a  *)
(* matcher's callback resolves the next stage, whose smpcer.Join takes the  *)
(* read lock again.  Writers are the goroutines of Connect and Disconnect,  *)
(* which an epoch change starts.                                            *)
(***************************************************************************)
EXTENDS Naturals, FiniteSets

CONSTANTS
  Receivers,  \* goroutines that receive messages
  Writers,    \* goroutines that call Connect or Disconnect
  MaxStages   \* how many stages in a row a callback may resolve, 7 in matcher.go

ASSUME SmpcLockAssumption ==
  /\ IsFiniteSet(Receivers) /\ IsFiniteSet(Writers)
  /\ Receivers \cap Writers = {} /\ MaxStages \in Nat

Threads == Receivers \cup Writers

VARIABLES
  pc,      \* [Threads -> where the thread is]
  held,    \* [Receivers -> how many read locks the receiver holds]
  stages,  \* [Receivers -> stages resolved by this message]
  waiting, \* writers that have called Lock and do not have it
  writing  \* writers that hold the lock

vars == <<pc, held, stages, waiting, writing>>

Init ==
  /\ pc = [t \in Threads |-> "idle"]
  /\ held = [t \in Receivers |-> 0]
  /\ stages = [t \in Receivers |-> 0]
  /\ waiting = {}
  /\ writing = {}

Goto(t, there) == pc' = [pc EXCEPT ![t] = there]
-----------------------------------------------------------------------------
(* sync.RWMutex: a reader waits for the writer that holds the lock and for  *)
(* every writer that waits for it, so that readers cannot starve writers.   *)

RLock(t) ==
  /\ waiting = {} /\ writing = {}
  /\ held' = [held EXCEPT ![t] = @ + 1]

RUnlock(t) == held' = [held EXCEPT ![t] = @ - 1]

NoReader == \A t \in Receivers : held[t] = 0
-----------------------------------------------------------------------------

\* handleMessageJoin, handleMessageJoinResponse: joinersMu.RLock.
ReceiveMessage(t) ==
  /\ pc[t] = "idle"
  /\ RLock(t)
  /\ stages' = [stages EXCEPT ![t] = 0]
  /\ Goto(t, "inserting")
  /\ UNCHANGED <<waiting, writing>>

\* joiner.InsertJoin returns: no callback, or one that finished.
InsertReturns(t) ==
  /\ pc[t] = "inserting"
  /\ Goto(t, "inserted")
  /\ UNCHANGED <<held, stages, waiting, writing>>

\* joiner.InsertJoin calls back, and the callback (resolveValues, resolve)
\* calls smpcer.Join for the next stage.
InsertCallsJoin(t) ==
  /\ pc[t] = "inserting" /\ stages[t] < MaxStages
  /\ stages' = [stages EXCEPT ![t] = @ + 1]
  /\ Goto(t, "joining")
  /\ UNCHANGED <<held, waiting, writing>>

\* smpcer.Join: joinersMu.RLock to look up the Joiner.
JoinLooksUp(t) ==
  /\ pc[t] = "joining"
  /\ RLock(t)
  /\ Goto(t, "lookedUp")
  /\ UNCHANGED <<stages, waiting, writing>>

\* Mutant of JoinInserts: the lookup returns without RUnlock.
JoinInsertsLocked(t) ==
  /\ pc[t] = "lookedUp"
  /\ Goto(t, "inserting")
  /\ UNCHANGED <<held, stages, waiting, writing>>

\* smpcer.Join: joinersMu.RUnlock, then InsertJoinAndSetCallback, which may
\* call back in turn.
JoinInserts(t) ==
  /\ pc[t] = "lookedUp"
  /\ RUnlock(t)
  /\ Goto(t, "inserting")
  /\ UNCHANGED <<stages, waiting, writing>>

\* handleMessageJoin, handleMessageJoinResponse: joinersMu.RUnlock.
ReceiveReturns(t) ==
  /\ pc[t] = "inserted"
  /\ RUnlock(t)
  /\ Goto(t, "idle")
  /\ UNCHANGED <<stages, waiting, writing>>

\* Connect, Disconnect: joinersMu.Lock is called ...
WriteLock(w) ==
  /\ pc[w] = "idle"
  /\ waiting' = waiting \cup {w}
  /\ Goto(w, "locking")
  /\ UNCHANGED <<held, stages, writing>>

\* ... and returns.
WriteLocked(w) ==
  /\ pc[w] = "locking" /\ NoReader /\ writing = {}
  /\ waiting' = waiting \ {w}
  /\ writing' = {w}
  /\ Goto(w, "locked")
  /\ UNCHANGED <<held, stages>>

\* Connect, Disconnect: joinersMu.Unlock.
WriteUnlock(w) ==
  /\ pc[w] = "locked"
  /\ writing' = {}
  /\ Goto(w, "idle")
  /\ UNCHANGED <<held, stages, waiting>>

\* The steps a thread takes once a message has arrived or Connect was called.
ReceiverStep(t) == InsertReturns(t) \/ JoinLooksUp(t) \/ JoinInserts(t) \/ ReceiveReturns(t)
WriterStep(w) == WriteLocked(w) \/ WriteUnlock(w)

Next ==
  \/ \E t \in Receivers : ReceiveMessage(t) \/ InsertCallsJoin(t) \/ ReceiverStep(t)
  \/ \E w \in Writers : WriteLock(w) \/ WriterStep(w)

Spec == Init /\ [][Next]_vars

\* Goroutines run; a reader or writer that can get the lock again and again
\* gets it.  Nothing makes messages arrive or epochs change.
Fairness ==
  /\ \A t \in Receivers : WF_vars(ReceiverStep(t)) /\ SF_vars(JoinLooksUp(t))
  /\ \A w \in Writers : WF_vars(WriterStep(w)) /\ SF_vars(WriteLocked(w))

FairSpec == Spec /\ Fairness
-----------------------------------------------------------------------------

\* A callback that runs below the read lock of Receive waits in smpcer.Join for
\* that lock, behind a writer that waits for Receive.
Nested == waiting # {} /\ \E t \in Receivers : pc[t] = "joining" /\ held[t] = 1

\* Receive returns: the receiver of a peer's messages does not hang, "which
\* happens outside of the mutex to encourage liveness" (joiner.go:217-219).
ReceiveFinishes == \A t \in Receivers : pc[t] # "idle" ~> pc[t] = "idle"
=============================================================================
