------------------------------ MODULE OmeFlow -------------------------------
(***************************************************************************)
(* Back-pressure between the parts of the Ome (ome/ome.go): matches go to    *)
(* the confirmer through a bounded channel, confirmations come back through  *)
(* another, and the settler that drains the latter takes joinersMu, as the   *)
(* callbacks that fill the former may do.                                    *)
(*                                                                         *)
(* The threads of SmpcLock are joined by the Resolver (the goroutine of Run  *)
(* that resolves computations) and the Settler (syncConfirmerToSettler),     *)
(* which call smpcer.Join from outside of Receive.  What the confirmer does  *)
(* with a match is Confirmer; here it is two goroutines and confirmingMu.    *)
(***************************************************************************)
EXTENDS SmpcLock

CONSTANTS
  Resolver, Settler,  \* two of the Receivers, which receive no messages
  MatchesCap,         \* capacity of matches, 1024 in ome.go
  ConfirmationsCap,   \* capacity of confirmations, 64 in confirmer.go
  MaxWork             \* bound on the messages, computations and epoch changes

ASSUME FlowAssumption ==
  /\ {Resolver, Settler} \subseteq Receivers /\ Resolver # Settler
  /\ MatchesCap \in Nat \ {0} /\ ConfirmationsCap \in Nat \ {0} /\ MaxWork \in Nat

VARIABLES
  matches,        \* length of the channel of matches
  reader,         \* whether the goroutine of Confirm has a match to register
  watched,        \* how many registered pairs are to be output
  work,           \* how many messages, computations and epoch changes there were
  poller,         \* the poll: "idle", "locked" (confirmingMu) or "sending"
  confirmations   \* length of the channel of confirmations

confirmVars == <<matches, reader, watched, poller, confirmations>>
flowVars == <<vars, confirmVars, work>>

FlowInit ==
  /\ Init
  /\ matches = 0 /\ reader = FALSE /\ watched = 0 /\ poller = "idle" /\ confirmations = 0
  /\ work = 0

\* One more message, computation or epoch change.
Begins == work < MaxWork /\ work' = work + 1

\* Room in the channels.
RoomInMatches == matches < MatchesCap

\* Mutant of RoomInConfirmations: the channel has no buffer.
NoRoomInConfirmations == confirmations < ConfirmationsCap - 1
RoomInConfirmations == confirmations < ConfirmationsCap

\* A receiver of messages holds the read lock of Receive; the others do not.
Messengers == Receivers \ {Resolver, Settler}
-----------------------------------------------------------------------------

\* sendComputationToMatcher: Resolve calls smpcer.Join for the first stage.
ResolveComputation ==
  /\ pc[Resolver] = "idle" /\ Begins
  /\ stages' = [stages EXCEPT ![Resolver] = 0]
  /\ Goto(Resolver, "joining")
  /\ UNCHANGED <<held, waiting, writing, confirmVars>>

\* syncConfirmerToSettler: a confirmation is settled, which calls smpcer.Join.
SettleConfirmation ==
  /\ pc[Settler] = "idle" /\ confirmations > 0
  /\ confirmations' = confirmations - 1
  /\ Goto(Settler, "joining")
  /\ UNCHANGED <<held, stages, waiting, writing, matches, reader, watched, poller, work>>

\* The callback of the last stage is a match: sendComputationToConfirmer.
CallbackMatches(t) ==
  /\ pc[t] = "inserting" /\ t # Settler
  /\ Goto(t, "matching")
  /\ UNCHANGED <<held, stages, waiting, writing, confirmVars, work>>

\* ... which waits for room in matches.
SendMatch(t) ==
  /\ pc[t] = "matching" /\ RoomInMatches
  /\ matches' = matches + 1
  /\ Goto(t, "inserted")
  /\ UNCHANGED <<held, stages, waiting, writing, reader, watched, poller, confirmations, work>>

\* Resolve and Settle return; they hold no lock.
CallReturns(t) ==
  /\ pc[t] = "inserted" /\ t \in {Resolver, Settler}
  /\ Goto(t, "idle")
  /\ UNCHANGED <<held, stages, waiting, writing, confirmVars, work>>

\* Confirm: a match is received; its orders may have been confirmed already,
\* and otherwise it is submitted.
ConfirmReceives ==
  /\ ~reader /\ matches > 0
  /\ matches' = matches - 1
  /\ reader' \in BOOLEAN
  /\ UNCHANGED <<vars, work, watched, poller, confirmations>>

\* Confirm: the orders are registered under confirmingMu; they may be already, or
\* never be confirmed.
ConfirmRegisters ==
  /\ reader /\ poller = "idle"
  /\ reader' = FALSE
  /\ watched' \in {watched, watched + 1}
  /\ UNCHANGED <<vars, work, matches, poller, confirmations>>

\* The ticker ticks: confirmingMu.Lock.  A poll with nothing to output changes
\* nothing.
PollLocks ==
  /\ poller = "idle" /\ watched > 0
  /\ poller' = "locked"
  /\ UNCHANGED <<vars, work, matches, reader, watched, confirmations>>

\* checkOrdersForConfirmationFinality finds an order to output.
PollFinds ==
  /\ poller = "locked" /\ watched > 0
  /\ poller' = "sending"
  /\ UNCHANGED <<vars, work, matches, reader, watched, confirmations>>

\* ... and waits for room in confirmations, with confirmingMu.
PollSends ==
  /\ poller = "sending" /\ RoomInConfirmations
  /\ confirmations' = confirmations + 1
  /\ watched' = watched - 1
  /\ poller' = "locked"
  /\ UNCHANGED <<vars, work, matches, reader>>

\* confirmingMu.Unlock, after the poll has output every pair that is final.
PollUnlocks ==
  /\ poller = "locked" /\ watched = 0
  /\ poller' = "idle"
  /\ UNCHANGED <<vars, work, matches, reader, watched, confirmations>>
-----------------------------------------------------------------------------

LockOnly(A) == A /\ UNCHANGED <<confirmVars, work>>

ThreadStep(t) ==
  \/ LockOnly(InsertReturns(t) \/ JoinLooksUp(t) \/ JoinInserts(t))
  \/ t \in Messengers /\ LockOnly(ReceiveReturns(t))
  \/ CallReturns(t) \/ SendMatch(t)

ConfirmerStep ==
  \/ ConfirmReceives \/ ConfirmRegisters
  \/ PollLocks \/ PollFinds \/ PollSends \/ PollUnlocks

OmeStep ==
  \/ \E t \in Receivers : ThreadStep(t)
  \/ \E w \in Writers : LockOnly(WriterStep(w))
  \/ SettleConfirmation \/ ConfirmerStep

FlowNext ==
  \/ \E t \in Messengers : ReceiveMessage(t) /\ Begins /\ UNCHANGED confirmVars
  \/ \E w \in Writers : WriteLock(w) /\ Begins /\ UNCHANGED confirmVars
  \/ ResolveComputation
  \/ \E t \in Receivers \ {Settler} : LockOnly(InsertCallsJoin(t)) \/ CallbackMatches(t)
  \/ OmeStep

FlowSpec == FlowInit /\ [][FlowNext]_flowVars
-----------------------------------------------------------------------------
(* When a goroutine can go on: the guards of OmeStep. *)

ThreadCanStep(t) ==
  \/ pc[t] \in {"inserting", "lookedUp", "inserted"}
  \/ pc[t] = "joining" /\ waiting = {} /\ writing = {}
  \/ pc[t] = "matching" /\ RoomInMatches

WriterCanStep(w) ==
  \/ pc[w] = "locking" /\ NoReader /\ writing = {}
  \/ pc[w] = "locked"

ConfirmerCanStep ==
  \/ ~reader /\ matches > 0
  \/ poller = "idle" /\ (reader \/ watched > 0)
  \/ poller = "locked"
  \/ poller = "sending" /\ RoomInConfirmations

OmeCanStep ==
  \/ \E t \in Receivers : ThreadCanStep(t)
  \/ \E w \in Writers : WriterCanStep(w)
  \/ pc[Settler] = "idle" /\ confirmations > 0
  \/ ConfirmerCanStep
-----------------------------------------------------------------------------

\* The variables have their types.
FlowTypeOK ==
  /\ pc \in [Threads -> {"idle", "inserting", "inserted", "joining", "lookedUp",
                         "matching", "locking", "locked"}]
  /\ held \in [Receivers -> 0 .. 2] /\ stages \in [Receivers -> 0 .. MaxStages]
  /\ waiting \subseteq Writers /\ writing \subseteq Writers
  /\ matches \in 0 .. MatchesCap /\ reader \in BOOLEAN /\ watched \in 0 .. MaxWork
  /\ poller \in {"idle", "locked", "sending"} /\ confirmations \in 0 .. ConfirmationsCap
  /\ work \in 0 .. MaxWork

\* Everyone waits for the next: a callback below the read lock of Receive for
\* room in matches, the confirmer for confirmingMu, the poll for room in
\* confirmations, the settler for the read lock, which a writer of an epoch
\* change has asked for, and the writer for Receive.
Jammed ==
  /\ \E t \in Messengers : pc[t] = "matching" /\ held[t] = 1
  /\ matches = MatchesCap /\ reader /\ poller = "sending"
  /\ confirmations = ConfirmationsCap /\ pc[Settler] = "joining"
  /\ waiting # {}

\* Every call has returned, and what matched has been settled.
Settled ==
  /\ \A t \in Threads : pc[t] = "idle"
  /\ matches = 0 /\ ~reader /\ watched = 0 /\ confirmations = 0

\* The Ome gets stuck in two ways only, and both need an epoch change: when no
\* goroutine can go on, every Receive, Resolve, Settle, Connect and Disconnect has
\* returned and every match went through the confirmer to the settler, unless a
\* callback below the read lock waits for the lock itself, or for room in a channel
\* that is drained by a settler who waits for the lock.
StuckOnlyIfJammed == Settled \/ Nested \/ Jammed \/ OmeCanStep
=============================================================================
