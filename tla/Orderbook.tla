------------------------------ MODULE Orderbook -----------------------------
(***************************************************************************)
(* orderbook/orderbook.go, sync.go and aggregate.go: a node learns of orders *)
(* from the Orderbook contract and of order fragments from traders, and     *)
(* notifies the Ome of an open order once it has both.                      *)
(*                                                                         *)
(* One goroutine synchronises (sync).  Every fragment comes in by a gRPC    *)
(* request with a goroutine of its own (requests).  Both work on the same   *)
(* stores, of orders and of fragments by epoch, through the Aggregators of  *)
(* the current and of the previous epoch, and hold aggMu for reading while  *)
(* they do.  The stores and the pointer are on disk and survive a crash.    *)
(***************************************************************************)
EXTENDS Integers, FiniteSets, Sequences, Functions

CONSTANTS
  Orders,           \* order IDs, numbers: the store iterates in their order
  Fragments,        \* <<order, depth>> of the fragments that traders send
  Ageing,           \* the orders that may grow too old
  Closings,         \* the ways an order may be closed
  Limit,            \* how many orders are loaded from the contract at once
  MaxEpoch,         \* bound: the last epoch
  MaxCrashes,       \* bound: how often the node crashes
  RequestsMayEnd,   \* whether a request may be cancelled by its client
  CallsMayFail      \* whether the contract and the pointer store may fail

ASSUME OrderbookAssumption ==
  /\ Orders \subseteq Nat /\ IsFiniteSet(Orders)
  /\ Fragments \subseteq Orders \X {0, 1} /\ Ageing \subseteq Orders
  /\ Closings \subseteq {"confirmed", "canceled"}
  /\ Limit \in Nat \ {0} /\ MaxEpoch \in Nat /\ MaxEpoch >= 2
  /\ MaxCrashes \in Nat /\ RequestsMayEnd \in BOOLEAN /\ CallsMayFail \in BOOLEAN

VARIABLES
  status,        \* [Orders -> status on the contract]
  opened,        \* the orders on the contract, in the order they were opened
  aged,          \* orders whose depth on the contract is more than 10000
  epoch,         \* the current epoch on the contract
  aggCurr,       \* epoch of the current Aggregator, 0 for nil
  aggPrev,       \* epoch of the previous Aggregator, 0 for nil
  pointer,       \* on disk: how many orders have been synchronised
  orderStore,    \* on disk: orders stored, all as open
  fragmentStore, \* on disk: <<epoch, order>> of the fragments stored
  resyncPointer, \* where resync goes on
  sync,          \* the goroutine that synchronises
  requests,      \* [Fragments -> where its request is, and for which epoch]
  opens,         \* <<epoch, order>> of the open orders that were notified
  closes,        \* confirmed and cancelled orders that were notified
  crashes

chainVars == <<status, opened, aged, epoch>>
diskVars == <<pointer, orderStore, fragmentStore>>
vars == <<status, opened, aged, epoch, aggCurr, aggPrev, pointer, orderStore,
          fragmentStore, resyncPointer, sync, requests, opens, closes, crashes>>

Statuses == {"none", "open", "confirmed", "canceled"}
Closed(o) == status[o] \in {"confirmed", "canceled"}

Notifications == [type : Statuses, order : Orders]

\* The goroutine: where it is, notifications to route, orders to resync and how
\* many of them were visited, epochs whose Aggregator returned a notification.
Idle == [at |-> "idle", queue |-> <<>>, orders |-> <<>>, visits |-> 0, found |-> {}]

Init ==
  /\ status = [o \in Orders |-> "none"]
  /\ opened = <<>>
  /\ aged = {}
  /\ epoch = 2
  /\ aggCurr = 0 /\ aggPrev = 0
  /\ pointer = 0
  /\ orderStore = {}
  /\ fragmentStore = {}
  /\ resyncPointer = 0
  /\ sync = Idle
  /\ requests = [f \in Fragments |-> [at |-> "unsent", epoch |-> 0]]
  /\ opens = {}
  /\ closes = {}
  /\ crashes = 0
-----------------------------------------------------------------------------
(* The contract and the clock.                                              *)

OpenOnChain(o) ==
  /\ status[o] = "none"
  /\ status' = [status EXCEPT ![o] = "open"]
  /\ opened' = Append(opened, o)
  /\ UNCHANGED <<aged, epoch, aggCurr, aggPrev, diskVars, resyncPointer, sync,
                 requests, opens, closes, crashes>>

CloseOnChain(o, s) ==
  /\ status[o] = "open"
  /\ status' = [status EXCEPT ![o] = s]
  /\ aged' = aged \ {o}
  /\ UNCHANGED <<opened, epoch, aggCurr, aggPrev, diskVars, resyncPointer, sync,
                 requests, opens, closes, crashes>>

Age(o) ==
  /\ status[o] # "none" /\ o \in Ageing \ aged
  /\ aged' = aged \cup {o}
  /\ UNCHANGED <<status, opened, epoch, aggCurr, aggPrev, diskVars, resyncPointer,
                 sync, requests, opens, closes, crashes>>

NextEpoch ==
  /\ epoch < MaxEpoch
  /\ epoch' = epoch + 1
  /\ UNCHANGED <<status, opened, aged, aggCurr, aggPrev, diskVars, resyncPointer,
                 sync, requests, opens, closes, crashes>>
-----------------------------------------------------------------------------
(* Epochs and crashes.                                                      *)

\* Somebody holds aggMu for reading.
Reading == \/ sync.at \in {"getCurr", "putPrev", "getPrev"}
           \/ \E f \in Fragments : requests[f].at = "get"

\* OnChangeEpoch, under aggMu.  A node that starts is first given the previous
\* epoch and then the current one.
OnChangeEpoch ==
  /\ ~Reading /\ aggCurr < epoch
  /\ aggPrev' = aggCurr
  /\ aggCurr' = IF aggCurr = 0 THEN epoch - 1 ELSE epoch
  /\ UNCHANGED <<chainVars, diskVars, resyncPointer, sync, requests, opens, closes,
                 crashes>>

\* The node stops at any point and starts again.  Requests in progress fail.
Crash ==
  /\ crashes < MaxCrashes
  /\ crashes' = crashes + 1
  /\ aggCurr' = 0 /\ aggPrev' = 0
  /\ resyncPointer' = 0
  /\ sync' = Idle
  /\ requests' = [f \in Fragments |-> IF requests[f].at = "unsent" THEN requests[f]
                                       ELSE [requests[f] EXCEPT !.at = "done"]]
  /\ UNCHANGED <<chainVars, diskVars, opens, closes>>
-----------------------------------------------------------------------------
(* Synchronising.                                                           *)

\* The notifications for orders loaded from the contract, by their status now.
Notify(o) == [type |-> status[o], order |-> o]
Loaded == SubSeq(opened, pointer + 1, IF pointer + Limit < Len(opened)
                                        THEN pointer + Limit ELSE Len(opened))

\* Syncer.sync: load the orders after the pointer and store the pointer, whose
\* error is logged.  An error of the contract changes nothing until the next
\* tick.
Sync ==
  /\ sync.at = "idle"
  /\ sync' = [Idle EXCEPT !.at = "collect",
                          !.queue = [i \in DOMAIN Loaded |-> Notify(Loaded[i])]]
  /\ \/ pointer' = pointer + Len(Loaded)
     \/ CallsMayFail /\ pointer' = pointer
  /\ UNCHANGED <<chainVars, aggCurr, aggPrev, orderStore, fragmentStore,
                 resyncPointer, requests, opens, closes, crashes>>

\* The iterator of the store yields the orders in the order of their IDs.
Iteration(orders) ==
  {seq \in [1 .. Cardinality(orders) -> orders] :
     \A i, j \in DOMAIN seq : i < j => seq[i] < seq[j]}

\* Syncer.resync: collect the stored orders, or return at once without any.
Collect ==
  /\ sync.at = "collect"
  /\ IF orderStore = {} THEN sync' = [sync EXCEPT !.at = "route"]
     ELSE \E orders \in Iteration(orderStore) :
            sync' = [sync EXCEPT !.at = "resync", !.orders = orders]
  /\ UNCHANGED <<chainVars, aggCurr, aggPrev, diskVars, resyncPointer, requests,
                 opens, closes, crashes>>

\* Mutant of ResyncIndex: every resync begins at the first order.
ResyncIndexRestarts == sync.visits % Len(sync.orders)

\* The order that resync visits next: the first where the last resync ended.
ResyncIndex ==
  (IF sync.visits = 0 THEN resyncPointer ELSE resyncPointer + 1) % Len(sync.orders)

\* How many of the two calls of the contract, Status and Depth, are answered:
\* after an error the order is left as it is until it is visited again.
Answers == IF CallsMayFail THEN 0 .. 2 ELSE {2}

\* One iteration of the loop of resync: an order that is not open any more is
\* deleted and notified, and so, for a second time, is one that is too old.
\* One that is too old and still open is deleted silently.  Only open orders
\* are ever stored.
Resync ==
  /\ sync.at = "resync"
  /\ resyncPointer' = ResyncIndex
  /\ \E answers \in Answers :
       LET o == sync.orders[ResyncIndex + 1]
           closed == answers >= 1 /\ Closed(o)
           old == answers = 2 /\ o \in aged
           notices == IF closed THEN <<Notify(o)>> ELSE <<>>
       IN  /\ orderStore' = IF closed \/ old THEN orderStore \ {o} ELSE orderStore
           /\ sync' = [sync EXCEPT
                 !.visits = @ + 1,
                 !.queue = IF old THEN @ \o notices \o notices ELSE @ \o notices,
                 !.at = IF sync.visits + 1 = 2 * Limit THEN "route" ELSE "resync"]
  /\ UNCHANGED <<chainVars, aggCurr, aggPrev, pointer, fragmentStore, requests,
                 opens, closes, crashes>>

\* routeNotification is done with the first notification of the queue.
Routed == [sync EXCEPT !.at = "route", !.queue = Tail(@), !.found = {}]

\* routeOrder without an Aggregator.
RouteNowhere ==
  /\ sync.at = "route" /\ sync.queue # <<>> /\ Head(sync.queue).type = "open"
  /\ aggCurr = 0
  /\ sync' = Routed
  /\ UNCHANGED <<chainVars, aggCurr, aggPrev, diskVars, resyncPointer, requests,
                 opens, closes, crashes>>

\* InsertOrder of the current Aggregator, first part: store the order.
PutOrderCurr ==
  /\ sync.at = "route" /\ sync.queue # <<>> /\ Head(sync.queue).type = "open"
  /\ aggCurr # 0
  /\ orderStore' = orderStore \cup {Head(sync.queue).order}
  /\ sync' = [sync EXCEPT !.at = "getCurr"]
  /\ UNCHANGED <<chainVars, aggCurr, aggPrev, pointer, fragmentStore, resyncPointer,
                 requests, opens, closes, crashes>>

Found(e) == IF <<e, Head(sync.queue).order>> \in fragmentStore THEN {e} ELSE {}

\* Mutant of GetFragmentCurr: the previous Aggregator is skipped.
GetFragmentCurrOnly ==
  /\ sync.at = "getCurr"
  /\ sync' = [sync EXCEPT !.found = @ \cup Found(aggCurr), !.at = "emit"]
  /\ UNCHANGED <<chainVars, aggCurr, aggPrev, diskVars, resyncPointer, requests,
                 opens, closes, crashes>>

\* InsertOrder of the current Aggregator, second part: fetch the fragment.
GetFragmentCurr ==
  /\ sync.at = "getCurr"
  /\ sync' = [sync EXCEPT !.found = @ \cup Found(aggCurr),
                          !.at = IF aggPrev = 0 THEN "emit" ELSE "putPrev"]
  /\ UNCHANGED <<chainVars, aggCurr, aggPrev, diskVars, resyncPointer, requests,
                 opens, closes, crashes>>

\* The same for the previous Aggregator.
PutOrderPrev ==
  /\ sync.at = "putPrev"
  /\ orderStore' = orderStore \cup {Head(sync.queue).order}
  /\ sync' = [sync EXCEPT !.at = "getPrev"]
  /\ UNCHANGED <<chainVars, aggCurr, aggPrev, pointer, fragmentStore, resyncPointer,
                 requests, opens, closes, crashes>>

GetFragmentPrev ==
  /\ sync.at = "getPrev"
  /\ sync' = [sync EXCEPT !.found = @ \cup Found(aggPrev), !.at = "emit"]
  /\ UNCHANGED <<chainVars, aggCurr, aggPrev, diskVars, resyncPointer, requests,
                 opens, closes, crashes>>

\* routeOrder: send what the Aggregators returned, one after the other.
EmitOpen ==
  /\ sync.at = "emit"
  /\ opens' = opens \cup {<<e, Head(sync.queue).order>> : e \in sync.found}
  /\ sync' = Routed
  /\ UNCHANGED <<chainVars, aggCurr, aggPrev, diskVars, resyncPointer, requests,
                 closes, crashes>>

\* routeNotification of any other notification: send it.
EmitClose ==
  /\ sync.at = "route" /\ sync.queue # <<>> /\ Head(sync.queue).type # "open"
  /\ closes' = closes \cup {Head(sync.queue).order}
  /\ sync' = Routed
  /\ UNCHANGED <<chainVars, aggCurr, aggPrev, diskVars, resyncPointer, requests,
                 opens, crashes>>

\* Nothing is left to route until the ticker fires again.
SyncEnds ==
  /\ sync.at = "route" /\ sync.queue = <<>>
  /\ sync' = Idle
  /\ UNCHANGED <<chainVars, aggCurr, aggPrev, diskVars, resyncPointer, requests,
                 opens, closes, crashes>>
-----------------------------------------------------------------------------
(* Fragments.                                                               *)

\* The Aggregator for a fragment of this depth.
AggregatorOf(f) == IF f[2] = 0 THEN aggCurr ELSE aggPrev

\* Mutant of PutOrderFragment: a fragment without an Aggregator is stored too.
PutOrderFragmentNil(f) ==
  /\ requests[f].at = "unsent"
  /\ requests' = [requests EXCEPT ![f] = [at |-> "get", epoch |-> AggregatorOf(f)]]
  /\ fragmentStore' = fragmentStore \cup {<<AggregatorOf(f), f[1]>>}
  /\ UNCHANGED <<chainVars, aggCurr, aggPrev, pointer, orderStore, resyncPointer,
                 sync, opens, closes, crashes>>

\* OpenOrder, routeOrderFragment and InsertOrderFragment, first part: store the
\* fragment, if there is an Aggregator for it.
PutOrderFragment(f) ==
  /\ requests[f].at = "unsent"
  /\ requests' = [requests EXCEPT ![f] =
       [at |-> IF AggregatorOf(f) = 0 THEN "done" ELSE "get", epoch |-> AggregatorOf(f)]]
  /\ fragmentStore' = IF AggregatorOf(f) = 0 THEN fragmentStore
                        ELSE fragmentStore \cup {<<AggregatorOf(f), f[1]>>}
  /\ UNCHANGED <<chainVars, aggCurr, aggPrev, pointer, orderStore, resyncPointer,
                 sync, opens, closes, crashes>>

\* InsertOrderFragment, second part: fetch the order.
GetOrder(f) ==
  /\ requests[f].at = "get"
  /\ requests' = [requests EXCEPT ![f].at = IF f[1] \in orderStore THEN "emit" ELSE "done"]
  /\ UNCHANGED <<chainVars, aggCurr, aggPrev, diskVars, resyncPointer, sync, opens,
                 closes, crashes>>

\* routeOrderFragment: send the notification, after aggMu was released.
EmitFragment(f) ==
  /\ requests[f].at = "emit"
  /\ opens' = opens \cup {<<requests[f].epoch, f[1]>>}
  /\ requests' = [requests EXCEPT ![f].at = "done"]
  /\ UNCHANGED <<chainVars, aggCurr, aggPrev, diskVars, resyncPointer, sync, closes,
                 crashes>>

\* The client of a request ends it while the notification waits to be sent.
EndRequest(f) ==
  /\ RequestsMayEnd /\ requests[f].at = "emit"
  /\ requests' = [requests EXCEPT ![f].at = "ended"]
  /\ UNCHANGED <<chainVars, aggCurr, aggPrev, diskVars, resyncPointer, sync, opens,
                 closes, crashes>>
-----------------------------------------------------------------------------

SyncStep ==
  \/ Sync \/ Collect \/ Resync
  \/ RouteNowhere \/ PutOrderCurr \/ GetFragmentCurr \/ PutOrderPrev \/ GetFragmentPrev
  \/ EmitOpen \/ EmitClose \/ SyncEnds

Next ==
  \/ \E o \in Orders : OpenOnChain(o) \/ Age(o) \/ \E s \in Closings : CloseOnChain(o, s)
  \/ NextEpoch \/ OnChangeEpoch \/ Crash
  \/ SyncStep
  \/ \E f \in Fragments : PutOrderFragment(f) \/ GetOrder(f) \/ EmitFragment(f) \/ EndRequest(f)

Spec == Init /\ [][Next]_vars

\* The ticker keeps firing and the Ome keeps receiving notifications.
FairSpec == Spec /\ WF_vars(SyncStep)
-----------------------------------------------------------------------------

\* The variables have their types.
TypeOK ==
  /\ status \in [Orders -> Statuses]
  /\ opened \in Seq(Orders) /\ aged \subseteq Orders
  /\ epoch \in 2 .. MaxEpoch
  /\ aggCurr \in 0 .. epoch /\ aggPrev \in 0 .. epoch
  /\ pointer \in 0 .. Len(opened)
  /\ orderStore \subseteq Range(opened)
  /\ fragmentStore \cup opens \subseteq (1 .. MaxEpoch) \X Orders
  /\ resyncPointer \in Nat
  /\ sync \in [at : {"idle", "collect", "resync", "route", "getCurr", "putPrev", "getPrev", "emit"},
               queue : Seq(Notifications), orders : Seq(Orders), visits : Nat,
               found : SUBSET (1 .. MaxEpoch)]
  /\ requests \in [Fragments -> [at : {"unsent", "get", "emit", "done", "ended"},
                                 epoch : 0 .. MaxEpoch]]
  /\ closes \subseteq Orders
  /\ crashes \in 0 .. MaxCrashes

\* No goroutine is busy with the order.
Quiet(o) ==
  /\ \A i \in DOMAIN sync.queue : sync.queue[i].order # o
  /\ \A f \in Fragments : f[1] = o => requests[f].at \in {"unsent", "done", "ended"}

Received(e, o) == o \in orderStore /\ <<e, o>> \in fragmentStore /\ Quiet(o)
Ended(e, o) == \E f \in Fragments : f[1] = o /\ requests[f] = [at |-> "ended", epoch |-> e]

\* An order that is stored and whose fragment for one of the two epochs is
\* stored was notified to the Ome, in whatever order the two were received and
\* whichever epoch changed meanwhile ("emitting a notification when both have
\* been received for a given order", aggregate.go:10-11), unless the request
\* that was to send the notification ended before it could, or the node crashed:
\* a notification is only in memory, and nothing looks for pairs after a restart.
NothingMissed ==
  \A o \in Orders : \A e \in {aggCurr, aggPrev} :
    Received(e, o) => <<e, o>> \in opens \/ Ended(e, o) \/ crashes > 0

\* Every order up to the pointer was synchronised: it is stored, or it is about to
\* be, or it was closed ("Pointer points to the last order.Order that was
\* successfully synchronised", store.go:86).
PointerIsSynced ==
  \A i \in 1 .. pointer :
    \/ opened[i] \in orderStore \cup aged
    \/ Closed(opened[i])
    \/ \E j \in DOMAIN sync.queue : sync.queue[j].order = opened[i]

\* A stored order that is closed on the contract does not stay in the store, however
\* many orders are stored and even if the node crashes in between, and by then it
\* has been notified as closed, unless the node crashed: the order is deleted first,
\* and the notification is only in memory.
ClosedIsRemoved ==
  \A o \in Orders :
    (o \in orderStore /\ Closed(o)) ~> (o \notin orderStore /\ (o \in closes \/ crashes > 0))
=============================================================================
