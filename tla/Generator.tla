----------------------------- MODULE Generator ------------------------------
(***************************************************************************)
(* The computation generator of ome/generator.go, with the channels that    *)
(* dispatch/channel.go merges.                                              *)
(*                                                                         *)
(* A computation matrix is a goroutine per epoch that stores the fragments  *)
(* it is sent and sends a computation for every stored fragment of the      *)
(* other side.  The router is the goroutine that hands the notifications of *)
(* the orderbook to the matrices; it holds matMu while it sends on an       *)
(* unbuffered channel.  OnChangeEpoch, which also takes matMu, is called by *)
(* OmeEpoch.  Errors of the fragment store are only logged.                 *)
(***************************************************************************)
EXTENDS Naturals, Sequences, FiniteSets

CONSTANTS
  Epochs,            \* positive numbers
  Buys, Sells,       \* orders
  MaxNotifications,  \* bound on the notifications of a behaviour
  StoreMayFail       \* whether the fragment store returns errors

ASSUME GeneratorAssumption ==
  /\ Epochs \subseteq Nat \ {0} /\ 1 \in Epochs
  /\ Buys \cap Sells = {}
  /\ MaxNotifications \in Nat

Orders == Buys \cup Sells
None == 0

\* NotificationOpenOrder carries the epoch depth of its fragment, which is 0 or 1
\* in what the aggregators of the orderbook notify; NotificationConfirmOrder and
\* NotificationCancelOrder are handled alike.
Notifications ==
  [kind : {"open"}, order : Orders, depth : 0 .. 1] \cup [kind : {"close"}, order : Orders]

VARIABLES
  own,         \* pairs of a buy and a sell that one trader opened, fixed
  curr, prev,  \* the epochs of matCurr and matPrev, or None
  closed,      \* epochs whose done and notifications channels are closed
  router,      \* [pc, note, targets]: the matrices that still get the notification
  mat,         \* [Epochs -> [pc, order, rest]]: rest is what the iterator still has
  merged,      \* epochs whose channel of computations Merge has received
  forward,     \* [Epochs -> pairs that the goroutine of Merge holds, at most one]
  stored,      \* [Epochs -> orders in the fragment store]
  generated,   \* <<epoch, buy, sell>> that the Ome received
  missed,      \* <<epoch, buy, sell>> dropped on an error, a closed matrix or shutdown, or by
               \* the process before this one, and not tried again since
  done,        \* whether the node shuts down
  notified     \* how many notifications have arrived

genVars == <<own, curr, prev, closed, router, mat, merged, forward, stored, generated,
             missed, done, notified>>

Opposite(o) == IF o \in Buys THEN Sells ELSE Buys

\* The computation of two orders in the matrix of an epoch.
Pair(e, o, opposite) == IF o \in Buys THEN <<e, o, opposite>> ELSE <<e, opposite, o>>

SameTrader(o, opposite) == {<<o, opposite>>, <<opposite, o>>} \cap own # {}

\* The computations a matrix is still to send.
Pending(e) == {Pair(e, mat[e].order, opposite) : opposite \in mat[e].rest}

NoNote == [kind |-> "none"]
NoOrder == "none"
RouterIdle == [pc |-> "select", note |-> NoNote, targets |-> <<>>]
MatIdle == [pc |-> "select", order |-> NoOrder, rest |-> {}]
MatNone == [pc |-> "none", order |-> NoOrder, rest |-> {}]

\* The store outlives the process: a node that was restarted in the first epoch holds
\* orders of either side, and it may have stopped between storing one and sending its
\* computations, which nothing records.
GenInit ==
  /\ own \in SUBSET (Buys \X Sells)
  /\ curr = None /\ prev = None /\ closed = {}
  /\ router = RouterIdle
  /\ mat = [e \in Epochs |-> MatNone]
  /\ merged = {}
  /\ forward = [e \in Epochs |-> {}]
  /\ \E restored \in SUBSET Orders :
       /\ stored = [e \in Epochs |-> IF e = 1 THEN restored ELSE {}]
       /\ missed = {1} \X (restored \cap Buys) \X (restored \cap Sells)
  /\ generated = {}
  /\ done = FALSE /\ notified = 0
-----------------------------------------------------------------------------
(* The router. *)

\* Generate: a notification of the orderbook is received.
ReceiveNotification(note) ==
  /\ router.pc = "select" /\ ~done
  /\ notified < MaxNotifications
  /\ router' = [pc |-> "locking", note |-> note, targets |-> <<>>]
  /\ notified' = notified + 1
  /\ UNCHANGED <<own, curr, prev, closed, mat, merged, forward, stored, generated, missed, done>>

\* The matrices a notification goes to: one for an open order, by the depth of
\* its fragment relative to the epochs of this moment, and both for any other.
Known(e) == IF e = None THEN <<>> ELSE <<e>>
Targets(note) ==
  CASE note.kind = "open" /\ note.depth = 0 -> Known(curr)
    [] note.kind = "open" /\ note.depth = 1 -> Known(prev)
    [] note.kind = "close" -> Known(curr) \o Known(prev)

\* matMu is held exactly while the router sends.
MatMuFree == router.pc # "sending"

\* routeNotification, routeNotificationOpenOrder: matMu.Lock.
RouteNotification ==
  /\ router.pc = "locking" /\ MatMuFree
  /\ router' = [router EXCEPT !.pc = "sending", !.targets = Targets(router.note)]
  /\ UNCHANGED <<own, curr, prev, closed, mat, merged, forward, stored, generated, missed, done, notified>>

\* Mutant of InsertOrderFragment: the iterator is the one of the same side.
InsertOrderFragmentSameSide(e, o) ==
  /\ stored' = [stored EXCEPT ![e] = @ \cup {o}]
  /\ mat' = [mat EXCEPT ![e] =
               [pc |-> "inserting", order |-> o, rest |-> stored[e] \ Opposite(o)]]
  /\ UNCHANGED missed

\* insertOrderFragment: the fragment is stored and the iterator of the other
\* side opened; an error in either ends the insertion.  Traders do not match
\* against themselves.
InsertOrderFragment(e, o) ==
  LET rest == {opposite \in stored[e] \cap Opposite(o) : ~SameTrader(o, opposite)} IN
  \/ /\ stored' = [stored EXCEPT ![e] = @ \cup {o}]
     /\ mat' = [mat EXCEPT ![e] = [pc |-> "inserting", order |-> o, rest |-> rest]]
     /\ missed' = missed \ {Pair(e, o, opposite) : opposite \in rest}
  \/ /\ StoreMayFail
     /\ UNCHANGED <<stored, mat, missed>>
  \/ /\ StoreMayFail
     /\ stored' = [stored EXCEPT ![e] = @ \cup {o}]
     /\ missed' = missed \cup {Pair(e, o, opposite) : opposite \in rest}
     /\ UNCHANGED mat

\* removeOrderFragment: both sides are deleted.
RemoveOrderFragment(e, o) ==
  /\ \/ stored' = [stored EXCEPT ![e] = @ \ {o}]
     \/ StoreMayFail /\ UNCHANGED stored
  /\ UNCHANGED <<mat, missed>>

\* The select of the router sends to a matrix whose goroutine receives, and the
\* goroutine handles the notification.
SendNotification ==
  /\ router.pc = "sending" /\ router.targets # <<>>
  /\ LET e == Head(router.targets) IN
     /\ mat[e].pc = "select"
     /\ IF router.note.kind = "open" THEN InsertOrderFragment(e, router.note.order)
                                     ELSE RemoveOrderFragment(e, router.note.order)
  /\ router' = [router EXCEPT !.targets = Tail(@)]
  /\ UNCHANGED <<own, curr, prev, closed, merged, forward, generated, done, notified>>

\* Mutant of Routed: the send does not select on done.
RoutedToAll == router.targets = <<>>

\* Everything is sent, or done is closed.
Routed == router.targets = <<>> \/ done

\* matMu.Unlock.
RouteReturns ==
  /\ router.pc = "sending" /\ Routed
  /\ router' = RouterIdle
  /\ UNCHANGED <<own, curr, prev, closed, mat, merged, forward, stored, generated, missed, done, notified>>
-----------------------------------------------------------------------------
(* The matrices and Merge. *)

\* insertOrderFragment: the next computation is sent to the goroutine of Merge.
SendComputation(e) ==
  /\ mat[e].pc = "inserting" /\ e \in merged /\ forward[e] = {} /\ ~done
  /\ \E opposite \in mat[e].rest :
       /\ mat' = [mat EXCEPT ![e].rest = @ \ {opposite}]
       /\ forward' = [forward EXCEPT ![e] = {Pair(e, mat[e].order, opposite)}]
  /\ UNCHANGED <<own, curr, prev, closed, router, merged, stored, generated, missed, done, notified>>

\* insertOrderFragment: the cursor cannot be read; the iteration goes on.
CursorFails(e) ==
  /\ StoreMayFail
  /\ mat[e].pc = "inserting"
  /\ \E opposite \in mat[e].rest :
       /\ mat' = [mat EXCEPT ![e].rest = @ \ {opposite}]
       /\ missed' = missed \cup {Pair(e, mat[e].order, opposite)}
  /\ UNCHANGED <<own, curr, prev, closed, router, merged, forward, stored, generated, done, notified>>

\* insertOrderFragment: the iterator is exhausted, or the matrix is closed.
InsertionReturns(e) ==
  /\ mat[e].pc = "inserting" /\ (mat[e].rest = {} \/ e \in closed)
  /\ mat' = [mat EXCEPT ![e] = MatIdle]
  /\ missed' = missed \cup Pending(e)
  /\ UNCHANGED <<own, curr, prev, closed, router, merged, forward, stored, generated, done, notified>>

\* generate: the goroutine of a closed matrix ends.
MatrixEnds(e) ==
  /\ mat[e].pc = "select" /\ e \in closed
  /\ mat' = [mat EXCEPT ![e].pc = "ended"]
  /\ UNCHANGED <<own, curr, prev, closed, router, merged, forward, stored, generated, missed, done, notified>>

\* OnChangeEpoch: its goroutine hands the channel of computations to Merge. The
\* select waits on gen.done, which is nil and never closed.
BroadcastComputations(e) ==
  /\ mat[e].pc # "none" /\ e \notin merged /\ ~done
  /\ merged' = merged \cup {e}
  /\ UNCHANGED <<own, curr, prev, closed, router, mat, forward, stored, generated, missed, done, notified>>

\* Merge forwards a computation and the Ome receives it.
ForwardComputation(e) ==
  /\ forward[e] # {} /\ ~done
  /\ generated' = generated \cup forward[e]
  /\ forward' = [forward EXCEPT ![e] = {}]
  /\ UNCHANGED <<own, curr, prev, closed, router, mat, merged, stored, missed, done, notified>>

\* done is closed: Merge drops what it holds and returns.
Shutdown ==
  /\ ~done
  /\ done' = TRUE
  /\ missed' = missed \cup UNION {forward[e] : e \in Epochs}
  /\ forward' = [e \in Epochs |-> {}]
  /\ UNCHANGED <<own, curr, prev, closed, router, mat, merged, stored, generated, notified>>
-----------------------------------------------------------------------------

\* Mutant of GenOnChangeEpoch: matMu is not taken.
GenOnChangeEpochUnlocked(e) ==
  /\ closed' = closed \cup ({prev} \ {None})
  /\ prev' = curr
  /\ curr' = e
  /\ mat' = [mat EXCEPT ![e] = MatIdle]
  /\ UNCHANGED <<own, router, merged, forward, stored, generated, missed, done, notified>>

\* OnChangeEpoch: under matMu the previous matrix is closed and the current one
\* becomes the previous.
GenOnChangeEpoch(e) ==
  /\ MatMuFree
  /\ closed' = closed \cup ({prev} \ {None})
  /\ prev' = curr
  /\ curr' = e
  /\ mat' = [mat EXCEPT ![e] = MatIdle]
  /\ UNCHANGED <<own, router, merged, forward, stored, generated, missed, done, notified>>

RouterStep == RouteNotification \/ SendNotification \/ RouteReturns
MatrixStep(e) ==
  \/ SendComputation(e) \/ InsertionReturns(e) \/ MatrixEnds(e)
  \/ BroadcastComputations(e) \/ ForwardComputation(e)

GenNext ==
  \/ \E note \in Notifications : ReceiveNotification(note)
  \/ RouterStep
  \/ \E e \in Epochs : MatrixStep(e) \/ CursorFails(e)
  \/ Shutdown

-----------------------------------------------------------------------------

\* The variables have their types.
GenTypeOK ==
  /\ own \in SUBSET (Buys \X Sells)
  /\ {curr, prev} \subseteq Epochs \cup {None} /\ closed \subseteq Epochs
  /\ router \in [pc : {"select", "locking", "sending"}, note : Notifications \cup {NoNote},
                 targets : {<<>>} \cup Epochs \X Epochs \cup {<<e>> : e \in Epochs}]
  /\ mat \in [Epochs -> [pc : {"none", "select", "inserting", "ended"},
                         order : Orders \cup {NoOrder}, rest : SUBSET Orders]]
  /\ merged \subseteq Epochs
  /\ forward \in [Epochs -> SUBSET (Epochs \X Buys \X Sells)]
  /\ stored \in [Epochs -> SUBSET Orders]
  /\ generated \cup missed \subseteq Epochs \X Buys \X Sells
  /\ done \in BOOLEAN /\ notified \in 0 .. MaxNotifications

\* Whatever the order in which fragments arrive, are confirmed or cancelled, and epochs
\* change, every buy and sell of different traders that are stored for an epoch are
\* computed (insertOrderFragment looks for the other side after it has stored its own).
\* The exceptions are the pairs that were dropped, and whose orders have not been notified
\* again: the store failed, the matrix was closed or the node shut down before they were
\* sent, or both orders were in the store already when the node was restarted.
PairsGenerated ==
  \A e \in Epochs : \A b \in stored[e] \cap Buys, s \in stored[e] \cap Sells :
    <<b, s>> \notin own =>
      <<e, b, s>> \in generated \cup missed \cup Pending(e) \cup forward[e]

\* The router never sends on a channel that OnChangeEpoch has closed, which
\* would panic (matMu is held for the whole of routeNotification).
NeverSendsOnClosed ==
  router.pc = "sending" => \A i \in DOMAIN router.targets : router.targets[i] \notin closed
=============================================================================
