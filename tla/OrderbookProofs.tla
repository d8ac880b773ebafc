-------------------------- MODULE OrderbookProofs ---------------------------
(***************************************************************************)
(* Proofs about Orderbook.tla, for any orders, fragments and epochs, and any *)
(* number of requests at once.                                               *)
(***************************************************************************)
EXTENDS Orderbook, FiniteSetTheorems, SequenceTheorems, TLAPS

\* The goroutine that synchronises is at work on the first notification.
Routing == sync.at \in {"getCurr", "putPrev", "getPrev", "emit"}

\* It works on a notification it has, whose order it has stored and has not deleted.
RoutingInv ==
  Routing => sync.queue # <<>> /\ Head(sync.queue).order \in orderStore

\* What it works on are orders of the contract.
QueueInv ==
  /\ \A i \in DOMAIN sync.queue : sync.queue[i].order \in Range(opened)
  /\ \A i \in DOMAIN sync.orders : sync.orders[i] \in Range(opened)
  /\ sync.at = "resync" => sync.orders # <<>>

\* A request that has stored its fragment knows for which epoch it did.
RequestInv ==
  \A f \in Fragments : requests[f].at \in {"get", "emit", "ended"} => requests[f].epoch # 0

\* Without a crash there is no fragment of an epoch that is still to come.
FragmentInv ==
  /\ aggPrev <= aggCurr
  /\ crashes = 0 => \A p \in fragmentStore : p[1] <= aggCurr

\* A request has stored the fragment and is still to look for the order, or has found it.
Requesting(e, o) ==
  \E f \in Fragments : f[1] = o /\ requests[f].epoch = e /\ requests[f].at \in {"get", "emit"}

\* The goroutine that synchronises has stored the order and is still to look for the
\* fragment, or has found it.
Looking(e, o) ==
  /\ Routing /\ Head(sync.queue).order = o
  /\ \/ sync.at = "getCurr"
     \/ sync.at \in {"putPrev", "getPrev"} /\ e \in sync.found \cup {aggPrev}
     \/ sync.at = "emit" /\ e \in sync.found

\* Somebody has notified the pair or is about to.
Tracked(e, o) == <<e, o>> \in opens \/ Ended(e, o) \/ Requesting(e, o) \/ Looking(e, o)

TrackedInv ==
  crashes = 0 => \A o \in orderStore : \A e \in {aggCurr, aggPrev} :
                   <<e, o>> \in fragmentStore => Tracked(e, o)

\* The inductive invariant.
IInv == TypeOK /\ RoutingInv /\ QueueInv /\ RequestInv /\ FragmentInv /\ TrackedInv
-----------------------------------------------------------------------------
(* The parts of TypeOK. *)

ChainType ==
  /\ status \in [Orders -> Statuses]
  /\ opened \in Seq(Orders) /\ aged \subseteq Orders
  /\ epoch \in 2 .. MaxEpoch

EpochType == aggCurr \in 0 .. epoch /\ aggPrev \in 0 .. epoch

StoreType ==
  /\ pointer \in 0 .. Len(opened)
  /\ orderStore \subseteq Range(opened)
  /\ fragmentStore \subseteq (1 .. MaxEpoch) \X Orders

SyncType ==
  /\ resyncPointer \in Nat
  /\ sync \in [at : {"idle", "collect", "resync", "route", "getCurr", "putPrev", "getPrev", "emit"},
               queue : Seq(Notifications), orders : Seq(Orders), visits : Nat,
               found : SUBSET (1 .. MaxEpoch)]

RequestType ==
  requests \in [Fragments -> [at : {"unsent", "get", "emit", "done", "ended"},
                              epoch : 0 .. MaxEpoch]]

OutputType == opens \subseteq (1 .. MaxEpoch) \X Orders /\ closes \subseteq Orders

CrashType == crashes \in 0 .. MaxCrashes

\* TypeOK is the conjunction of its parts.
LEMMA TypeParts ==
  TypeOK <=> /\ ChainType /\ EpochType /\ StoreType /\ SyncType
             /\ RequestType /\ OutputType /\ CrashType
<1>1. fragmentStore \cup opens \subseteq (1 .. MaxEpoch) \X Orders
        <=> /\ fragmentStore \subseteq (1 .. MaxEpoch) \X Orders
            /\ opens \subseteq (1 .. MaxEpoch) \X Orders
  OBVIOUS
<1> QED BY <1>1 DEF TypeOK, ChainType, EpochType, StoreType, SyncType, RequestType, OutputType,
                    CrashType

\* And so it is in the next state.
LEMMA TypePartsNext ==
  TypeOK' <=> /\ ChainType' /\ EpochType' /\ StoreType' /\ SyncType'
              /\ RequestType' /\ OutputType' /\ CrashType'
<1>1. (fragmentStore \cup opens)' \subseteq (1 .. MaxEpoch) \X Orders
        <=> /\ fragmentStore' \subseteq (1 .. MaxEpoch) \X Orders
            /\ opens' \subseteq (1 .. MaxEpoch) \X Orders
  OBVIOUS
<1> QED BY <1>1 DEF TypeOK, ChainType, EpochType, StoreType, SyncType, RequestType, OutputType,
                    CrashType
-----------------------------------------------------------------------------
(* What a step must do for the invariant to be kept, by who takes it. *)

\* A step of the contract, or one that changes nothing.
LEMMA ChainStepKeeps ==
  ASSUME IInv, TypeOK', Range(opened) \subseteq Range(opened)',
         UNCHANGED <<aggCurr, aggPrev, orderStore, fragmentStore, sync, requests, opens, crashes>>
  PROVE  IInv'
<1> USE DEF IInv
<1>1. RoutingInv'
  BY DEF RoutingInv, Routing
<1>2. QueueInv'
  BY DEF QueueInv
<1>3. RequestInv'
  BY DEF RequestInv
<1>4. FragmentInv'
  BY DEF FragmentInv
<1>5. TrackedInv'
  <2>1. ASSUME NEW o, NEW e PROVE Tracked(e, o)' = Tracked(e, o)
    BY DEF Tracked, Ended, Requesting, Looking, Routing
  <2> QED BY <2>1 DEF TrackedInv
<1> QED BY <1>1, <1>2, <1>3, <1>4, <1>5

\* A step of the goroutine that synchronises: every pair of which it learns, or which it was
\* looking for, is one that it is looking for or has notified.
LEMMA SyncStepKeeps ==
  ASSUME IInv, TypeOK', RoutingInv', QueueInv',
         UNCHANGED <<aggCurr, aggPrev, fragmentStore, requests, crashes>>,
         opens \subseteq opens',
         \A o \in orderStore' : \A e \in {aggCurr, aggPrev} :
           <<e, o>> \in fragmentStore =>
             Looking(e, o)' \/ <<e, o>> \in opens' \/ (o \in orderStore /\ ~Looking(e, o))
  PROVE  IInv'
<1> USE DEF IInv
<1>1. RequestInv'
  BY DEF RequestInv
<1>2. FragmentInv'
  BY DEF FragmentInv
<1>3. TrackedInv'
  <2> SUFFICES ASSUME crashes = 0, NEW o \in orderStore', NEW e \in {aggCurr, aggPrev},
                      <<e, o>> \in fragmentStore
               PROVE  Tracked(e, o)'
    BY DEF TrackedInv
  <2>1. CASE Looking(e, o)' \/ <<e, o>> \in opens'
    BY <2>1 DEF Tracked
  <2>2. CASE o \in orderStore /\ ~Looking(e, o)
    <3>1. <<e, o>> \in opens \/ Ended(e, o) \/ Requesting(e, o)
      BY <2>2 DEF TrackedInv, Tracked
    <3>2. Ended(e, o)' = Ended(e, o) /\ Requesting(e, o)' = Requesting(e, o)
      BY DEF Ended, Requesting
    <3> QED BY <3>1, <3>2 DEF Tracked
  <2> QED BY <2>1, <2>2
<1> QED BY <1>1, <1>2, <1>3

\* A step of the request of a fragment: every pair of which it learns, or which it was to
\* notify, is one that it will notify or has notified, unless its client has ended it.
LEMMA RequestStepKeeps ==
  ASSUME IInv, TypeOK', RequestInv', FragmentInv', NEW f \in Fragments,
         UNCHANGED <<opened, aggCurr, aggPrev, orderStore, sync, crashes>>,
         opens \subseteq opens',
         \A g \in Fragments : g # f => requests'[g] = requests[g],
         \A o \in orderStore : \A e \in {aggCurr, aggPrev} :
           <<e, o>> \in fragmentStore' =>
             \/ <<e, o>> \in opens' \/ Ended(e, o)' \/ Requesting(e, o)'
             \/ <<e, o>> \in fragmentStore /\ requests[f].at \notin {"get", "emit", "ended"}
             \/ <<e, o>> \in fragmentStore /\ ~(f[1] = o /\ requests[f].epoch = e)
  PROVE  IInv'
<1> USE DEF IInv
<1>1. RoutingInv'
  BY DEF RoutingInv, Routing
<1>2. QueueInv'
  BY DEF QueueInv
<1>3. TrackedInv'
  <2> SUFFICES ASSUME crashes = 0, NEW o \in orderStore, NEW e \in {aggCurr, aggPrev},
                      <<e, o>> \in fragmentStore'
               PROVE  Tracked(e, o)'
    BY DEF TrackedInv
  <2>1. CASE <<e, o>> \in opens' \/ Ended(e, o)' \/ Requesting(e, o)'
    BY <2>1 DEF Tracked
  <2>2. CASE /\ <<e, o>> \in fragmentStore
             /\ requests[f].at \notin {"get", "emit", "ended"} \/ ~(f[1] = o /\ requests[f].epoch = e)
    <3>1. Tracked(e, o)
      BY <2>2 DEF TrackedInv
    <3>2. Looking(e, o)' = Looking(e, o)
      BY DEF Looking, Routing
    <3>3. Ended(e, o) => Ended(e, o)'
      BY <2>2 DEF Ended
    <3>4. Requesting(e, o) => Requesting(e, o)'
      BY <2>2 DEF Requesting
    <3> QED BY <3>1, <3>2, <3>3, <3>4 DEF Tracked
  <2> QED BY <2>1, <2>2
<1> QED BY <1>1, <1>2, <1>3
-----------------------------------------------------------------------------
(* The steps of the contract and of the clock. *)

\* An order that is opened is on the contract, after the ones that were.
LEMMA OpenOnChainKeeps ==
  ASSUME IInv, NEW o \in Orders, OpenOnChain(o)
  PROVE  IInv'
<1>1. /\ status' = [status EXCEPT ![o] = "open"] /\ opened' = Append(opened, o)
      /\ UNCHANGED <<aged, epoch, aggCurr, aggPrev, pointer, orderStore, fragmentStore,
                     resyncPointer, sync, requests, opens, closes, crashes>>
  BY DEF OpenOnChain, diskVars
<1>2. TypeOK
  BY DEF IInv
<1>3. /\ opened' \in Seq(Orders) /\ Len(opened') = Len(opened) + 1
      /\ \A i \in 1 .. Len(opened) : opened'[i] = opened[i]
  BY <1>1, <1>2, AppendProperties DEF TypeOK
<1>4. Range(opened) \subseteq Range(opened')
  <2>1. DOMAIN opened = 1 .. Len(opened) /\ DOMAIN opened' = 1 .. Len(opened')
        /\ Len(opened) \in Nat
    BY <1>2, <1>3, LenProperties DEF TypeOK
  <2>2. \A i \in DOMAIN opened : i \in DOMAIN opened' /\ opened'[i] = opened[i]
    BY <1>3, <2>1
  <2> QED BY <2>2 DEF Range
<1>5. TypeOK'
  <2>1. ChainType'
    BY <1>1, <1>2, <1>3, TypeParts DEF ChainType, Statuses
  <2>2. StoreType'
    BY <1>1, <1>2, <1>3, <1>4, TypeParts DEF StoreType, ChainType
  <2> QED BY <1>1, <1>2, <2>1, <2>2, TypeParts, TypePartsNext
          DEF EpochType, SyncType, RequestType, OutputType, CrashType
<1> QED BY <1>1, <1>4, <1>5, ChainStepKeeps

\* An order that is closed stays where it is stored until resync comes to it.
LEMMA CloseOnChainKeeps ==
  ASSUME IInv, NEW o \in Orders, NEW s \in Closings, CloseOnChain(o, s)
  PROVE  IInv'
<1>1. /\ status' = [status EXCEPT ![o] = s] /\ aged' = aged \ {o}
      /\ UNCHANGED <<opened, epoch, aggCurr, aggPrev, pointer, orderStore, fragmentStore,
                     resyncPointer, sync, requests, opens, closes, crashes>>
  BY DEF CloseOnChain, diskVars
<1>2. TypeOK
  BY DEF IInv
<1>3. s \in Statuses
  BY OrderbookAssumption DEF Statuses
<1>4. TypeOK'
  <2>1. ChainType'
    BY <1>1, <1>2, <1>3, TypeParts DEF ChainType
  <2> QED BY <1>1, <1>2, <2>1, TypeParts, TypePartsNext
          DEF EpochType, StoreType, SyncType, RequestType, OutputType, CrashType
<1> QED BY <1>1, <1>4, ChainStepKeeps

\* An order grows too old.
LEMMA AgeKeeps ==
  ASSUME IInv, NEW o \in Orders, Age(o)
  PROVE  IInv'
<1>1. /\ aged' = aged \cup {o}
      /\ UNCHANGED <<status, opened, epoch, aggCurr, aggPrev, pointer, orderStore, fragmentStore,
                     resyncPointer, sync, requests, opens, closes, crashes>>
  BY DEF Age, diskVars
<1>2. TypeOK
  BY DEF IInv
<1>3. TypeOK'
  <2>1. ChainType'
    BY <1>1, <1>2, TypeParts DEF ChainType
  <2> QED BY <1>1, <1>2, <2>1, TypeParts, TypePartsNext
          DEF EpochType, StoreType, SyncType, RequestType, OutputType, CrashType
<1> QED BY <1>1, <1>3, ChainStepKeeps

\* The contract comes to its next epoch.
LEMMA NextEpochKeeps ==
  ASSUME IInv, NextEpoch
  PROVE  IInv'
<1>1. /\ epoch < MaxEpoch /\ epoch' = epoch + 1
      /\ UNCHANGED <<status, opened, aged, aggCurr, aggPrev, pointer, orderStore, fragmentStore,
                     resyncPointer, sync, requests, opens, closes, crashes>>
  BY DEF NextEpoch, diskVars
<1>2. TypeOK /\ MaxEpoch \in Nat
  BY OrderbookAssumption DEF IInv
<1>3. TypeOK'
  <2>1. ChainType' /\ EpochType'
    BY <1>1, <1>2, TypeParts DEF ChainType, EpochType
  <2> QED BY <1>1, <1>2, <2>1, TypeParts, TypePartsNext
          DEF StoreType, SyncType, RequestType, OutputType, CrashType
<1> QED BY <1>1, <1>3, ChainStepKeeps

\* OnChangeEpoch gives up the previous Aggregator, and there is no fragment for the new one.
LEMMA OnChangeEpochKeeps ==
  ASSUME IInv, OnChangeEpoch
  PROVE  IInv'
<1> USE DEF IInv
<1>1. /\ ~Reading /\ aggCurr < epoch
      /\ aggPrev' = aggCurr /\ aggCurr' = IF aggCurr = 0 THEN epoch - 1 ELSE epoch
      /\ UNCHANGED <<status, opened, aged, epoch, pointer, orderStore, fragmentStore,
                     resyncPointer, sync, requests, opens, closes, crashes>>
  BY DEF OnChangeEpoch, diskVars, chainVars
<1>2. /\ epoch \in Nat /\ epoch >= 2 /\ aggCurr \in Nat /\ aggCurr \in 0 .. epoch
      /\ aggCurr < aggCurr' /\ aggCurr' \in 0 .. epoch
  BY <1>1, OrderbookAssumption DEF TypeOK
<1>3. TypeOK'
  <2>1. EpochType'
    BY <1>1, <1>2 DEF EpochType
  <2> QED BY <1>1, <2>1, TypeParts, TypePartsNext
          DEF ChainType, StoreType, SyncType, RequestType, OutputType, CrashType
<1>4. RoutingInv' /\ QueueInv' /\ RequestInv'
  BY <1>1 DEF RoutingInv, Routing, QueueInv, RequestInv
<1>5. \A p \in fragmentStore : p[1] \in Nat
  BY OrderbookAssumption DEF TypeOK
<1>6. FragmentInv'
  BY <1>1, <1>2, <1>5 DEF FragmentInv
<1>7. TrackedInv'
  <2> SUFFICES ASSUME crashes = 0, NEW o \in orderStore, NEW e \in {aggCurr', aggPrev'},
                      <<e, o>> \in fragmentStore
               PROVE  Tracked(e, o)'
    BY <1>1 DEF TrackedInv
  <2>1. e # aggCurr'
    <3>1. <<e, o>>[1] <= aggCurr /\ <<e, o>>[1] = e
      BY DEF FragmentInv
    <3> QED BY <1>2, <1>5, <3>1
  <2>2. Tracked(e, o)
    BY <1>1, <2>1 DEF TrackedInv
  <2>3. Looking(e, o) => sync.at = "emit"
    BY <1>1 DEF Looking, Routing, Reading
  <2>4. Looking(e, o) => Looking(e, o)'
    BY <1>1, <2>3 DEF Looking, Routing
  <2>5. Ended(e, o)' = Ended(e, o) /\ Requesting(e, o)' = Requesting(e, o)
    BY <1>1 DEF Ended, Requesting
  <2> QED BY <1>1, <2>2, <2>4, <2>5 DEF Tracked
<1> QED BY <1>3, <1>4, <1>6, <1>7

\* A crash leaves what is on disk, and nobody at work.
LEMMA CrashKeeps ==
  ASSUME IInv, Crash
  PROVE  IInv'
<1> USE DEF IInv
<1>1. /\ crashes < MaxCrashes /\ crashes' = crashes + 1 /\ aggCurr' = 0 /\ aggPrev' = 0
      /\ resyncPointer' = 0 /\ sync' = Idle
      /\ requests' = [f \in Fragments |-> IF requests[f].at = "unsent" THEN requests[f]
                                           ELSE [requests[f] EXCEPT !.at = "done"]]
      /\ UNCHANGED <<status, opened, aged, epoch, pointer, orderStore, fragmentStore, opens,
                     closes>>
  BY DEF Crash, diskVars, chainVars
<1>2. TypeOK'
  <2>1. EpochType'
    BY <1>1, TypeParts, OrderbookAssumption DEF EpochType, ChainType
  <2>2. SyncType'
    BY <1>1 DEF SyncType, Idle
  <2>3. RequestType'
    BY <1>1, TypeParts DEF RequestType
  <2>4. CrashType'
    BY <1>1, TypeParts, OrderbookAssumption DEF CrashType
  <2> QED BY <1>1, <2>1, <2>2, <2>3, <2>4, TypeParts, TypePartsNext
          DEF ChainType, StoreType, OutputType
<1>3. RoutingInv' /\ QueueInv'
  BY <1>1 DEF RoutingInv, Routing, QueueInv, Idle
<1>4. RequestInv'
  BY <1>1 DEF RequestInv, TypeOK
<1>5. crashes' # 0 /\ aggPrev' <= aggCurr'
  BY <1>1, OrderbookAssumption DEF TypeOK
<1> QED BY <1>2, <1>3, <1>4, <1>5 DEF FragmentInv, TrackedInv
-----------------------------------------------------------------------------
(* The steps of the goroutine that synchronises. *)

\* The orders that are loaded.
LEMMA LoadedProperties ==
  ASSUME TypeOK
  PROVE  /\ Loaded \in Seq(Orders)
         /\ pointer + Len(Loaded) \in 0 .. Len(opened)
         /\ \A i \in DOMAIN Loaded : Loaded[i] \in Range(opened)
<1> DEFINE m == pointer + 1
           n == IF pointer + Limit < Len(opened) THEN pointer + Limit ELSE Len(opened)
<1>1. /\ opened \in Seq(Orders) /\ Len(opened) \in Nat /\ DOMAIN opened = 1 .. Len(opened)
      /\ pointer \in Nat /\ pointer <= Len(opened) /\ Limit \in Nat /\ Limit > 0
  BY LenProperties, OrderbookAssumption DEF TypeOK
<1>2. m \in Nat /\ n \in Nat /\ m >= 1 /\ n <= Len(opened) /\ pointer <= n
  BY <1>1
<1>3. \A i \in m .. n : i \in DOMAIN opened /\ opened[i] \in Range(opened)
  BY <1>1, <1>2 DEF Range
<1>4. Range(opened) \subseteq Orders
  BY <1>1, LenProperties DEF Range
<1>5. Loaded = SubSeq(opened, m, n)
  BY DEF Loaded
<1> HIDE DEF m, n
<1>6. /\ Loaded \in Seq(Range(opened))
      /\ Len(Loaded) = IF m <= n THEN n - m + 1 ELSE 0
  BY <1>2, <1>3, <1>5, SubSeqProperties
<1>7. DOMAIN Loaded = 1 .. Len(Loaded) /\ \A i \in DOMAIN Loaded : Loaded[i] \in Range(opened)
  BY <1>6, LenProperties
<1>8. Loaded \in Seq(Orders)
  BY <1>4, <1>6
<1>9. pointer + Len(Loaded) \in 0 .. Len(opened)
  BY <1>1, <1>2, <1>6 DEF m
<1> QED BY <1>7, <1>8, <1>9

\* sync loads orders and moves the pointer, as far as the store of the pointer works.
LEMMA SyncKeeps ==
  ASSUME IInv, Sync
  PROVE  IInv'
<1> USE DEF IInv
<1>1. /\ sync.at = "idle" /\ pointer' \in {pointer, pointer + Len(Loaded)}
      /\ sync' = [Idle EXCEPT !.at = "collect",
                              !.queue = [i \in DOMAIN Loaded |-> Notify(Loaded[i])]]
      /\ UNCHANGED <<status, opened, aged, epoch, aggCurr, aggPrev, orderStore, fragmentStore,
                     resyncPointer, requests, opens, closes, crashes>>
  BY DEF Sync, chainVars
<1>2. /\ Loaded \in Seq(Orders) /\ pointer + Len(Loaded) \in 0 .. Len(opened)
      /\ \A i \in DOMAIN Loaded : Loaded[i] \in Range(opened)
  BY LoadedProperties
<1>3. /\ DOMAIN Loaded = 1 .. Len(Loaded) /\ Len(Loaded) \in Nat
      /\ \A i \in DOMAIN Loaded : Loaded[i] \in Orders
  BY <1>2, LenProperties
<1>4. \A i \in DOMAIN Loaded : Notify(Loaded[i]) \in Notifications
  BY <1>3 DEF Notify, Notifications, TypeOK
<1> DEFINE queue == [i \in 1 .. Len(Loaded) |-> Notify(Loaded[i])]
<1>5. queue \in Seq(Notifications)
  <2>1. queue \in [1 .. Len(Loaded) -> Notifications]
    BY <1>3, <1>4
  <2> QED BY <1>3, <2>1
<1>6. /\ sync' = [at |-> "collect", queue |-> queue, orders |-> <<>>, visits |-> 0, found |-> {}]
      /\ DOMAIN queue = DOMAIN Loaded
      /\ \A i \in DOMAIN queue : queue[i].order = Loaded[i]
  BY <1>1, <1>3 DEF Idle, Notify
<1> HIDE DEF queue
<1>7. TypeOK'
  <2>1. SyncType'
    <3>1. resyncPointer' \in Nat
      BY <1>1 DEF TypeOK
    <3>2. <<>> \in Seq(Orders) /\ {} \in SUBSET (1 .. MaxEpoch) /\ 0 \in Nat
      OBVIOUS
    <3> QED BY <1>5, <1>6, <3>1, <3>2 DEF SyncType
  <2>2. StoreType'
    BY <1>1, <1>2, TypeParts DEF StoreType
  <2> QED BY <1>1, <2>1, <2>2, TypeParts, TypePartsNext
          DEF ChainType, EpochType, RequestType, OutputType, CrashType
<1>8. RoutingInv' /\ QueueInv'
  <2>1. sync'.at = "collect" /\ sync'.queue = queue /\ sync'.orders = <<>>
    BY <1>6
  <2>2. \A i \in DOMAIN queue : queue[i].order \in Range(opened)
    BY <1>2, <1>6
  <2>3. RoutingInv'
    BY <2>1 DEF RoutingInv, Routing
  <2>4. QueueInv'
    BY <1>1, <2>1, <2>2 DEF QueueInv
  <2> QED BY <2>3, <2>4
<1>9. \A e, o : ~Looking(e, o)
  BY <1>1 DEF Looking, Routing
<1> QED BY <1>1, <1>7, <1>8, <1>9, SyncStepKeeps

\* resync collects the orders that are stored.
LEMMA CollectKeeps ==
  ASSUME IInv, Collect
  PROVE  IInv'
<1> USE DEF IInv
<1>1. /\ sync.at = "collect"
      /\ UNCHANGED <<status, opened, aged, epoch, aggCurr, aggPrev, pointer, orderStore,
                     fragmentStore, resyncPointer, requests, opens, closes, crashes>>
  BY DEF Collect, chainVars, diskVars
<1>2. \A e, o : ~Looking(e, o)
  BY <1>1 DEF Looking, Routing
<1>3. CASE orderStore = {}
  <2>1. sync' = [sync EXCEPT !.at = "route"]
    BY <1>3 DEF Collect
  <2>2. SyncType'
    BY <1>1, <2>1, TypeParts DEF SyncType
  <2>3. TypeOK'
    BY <1>1, <2>2, TypeParts, TypePartsNext
       DEF ChainType, EpochType, StoreType, RequestType, OutputType, CrashType
  <2>4. RoutingInv' /\ QueueInv'
    BY <1>1, <2>1 DEF RoutingInv, Routing, QueueInv, TypeOK
  <2> QED BY <1>1, <1>2, <2>3, <2>4, SyncStepKeeps
<1>4. CASE orderStore # {}
  <2>1. PICK orders \in Iteration(orderStore) :
          sync' = [sync EXCEPT !.at = "resync", !.orders = orders]
    BY <1>4 DEF Collect
  <2>2. orderStore \subseteq Orders /\ orderStore \subseteq Range(opened)
    BY LenProperties DEF TypeOK, Range
  <2>3. Cardinality(orderStore) \in Nat /\ Cardinality(orderStore) # 0
    <3>1. IsFiniteSet(orderStore)
      BY <2>2, FS_Subset, OrderbookAssumption
    <3> QED BY <1>4, <3>1, FS_CardinalityType, FS_EmptySet
  <2>4. orders \in [1 .. Cardinality(orderStore) -> orderStore]
    BY <2>1 DEF Iteration
  <2>5. orders \in Seq(orderStore) /\ Len(orders) = Cardinality(orderStore)
    BY <2>3, <2>4
  <2>6. orders # <<>> /\ orders \in Seq(Orders)
    BY <2>2, <2>3, <2>5
  <2>7. SyncType'
    BY <1>1, <2>1, <2>6, TypeParts DEF SyncType
  <2>8. TypeOK'
    BY <1>1, <2>7, TypeParts, TypePartsNext
       DEF ChainType, EpochType, StoreType, RequestType, OutputType, CrashType
  <2>9. sync'.at = "resync" /\ sync'.queue = sync.queue /\ sync'.orders = orders
    BY <2>1 DEF TypeOK
  <2>10. \A i \in DOMAIN orders : orders[i] \in Range(opened)
    BY <2>2, <2>4
  <2>11. RoutingInv' /\ QueueInv'
    BY <1>1, <2>6, <2>9, <2>10 DEF RoutingInv, Routing, QueueInv
  <2> QED BY <1>1, <1>2, <2>8, <2>11, SyncStepKeeps
<1> QED BY <1>3, <1>4

\* An iteration of resync: an order of the contract is visited, and perhaps deleted.
LEMMA ResyncKeeps ==
  ASSUME IInv, Resync
  PROVE  IInv'
<1> USE DEF IInv
<1>1. /\ sync.at = "resync" /\ resyncPointer' = ResyncIndex
      /\ UNCHANGED <<status, opened, aged, epoch, aggCurr, aggPrev, pointer, fragmentStore,
                     requests, opens, closes, crashes>>
  BY DEF Resync, chainVars
<1>2. /\ sync.orders \in Seq(Orders) /\ sync.orders # <<>> /\ Len(sync.orders) \in Nat \ {0}
      /\ DOMAIN sync.orders = 1 .. Len(sync.orders)
      /\ sync.queue \in Seq(Notifications) /\ sync.visits \in Nat
  BY <1>1, LenProperties, EmptySeq DEF TypeOK, QueueInv
<1>3. ResyncIndex \in 0 .. Len(sync.orders) - 1
  <2>1. resyncPointer \in Nat /\ resyncPointer + 1 \in Nat
    BY DEF TypeOK
  <2>2. PICK i \in Nat : i = IF sync.visits = 0 THEN resyncPointer ELSE resyncPointer + 1
    BY <2>1
  <2>3. ResyncIndex = i % Len(sync.orders)
    BY <2>2 DEF ResyncIndex
  <2>4. \A a \in Nat, b \in Nat \ {0} : a % b \in 0 .. b - 1
    OBVIOUS
  <2> QED BY <1>2, <2>3, <2>4
<1> DEFINE o == sync.orders[ResyncIndex + 1]
<1>4. ResyncIndex + 1 \in DOMAIN sync.orders
  BY <1>2, <1>3
<1>5. o \in Orders /\ o \in Range(opened)
  BY <1>2, <1>4, LenProperties DEF QueueInv
<1>6. Notify(o) \in Notifications /\ Notify(o).order = o
  BY <1>5 DEF Notify, Notifications, TypeOK
<1> DEFINE Added == {<<>>, <<Notify(o)>>}
<1>7. PICK added1 \in Added, added2 \in Added, at \in {"route", "resync"} :
        sync' = [sync EXCEPT !.visits = @ + 1, !.queue = @ \o added1 \o added2, !.at = at]
  <2>1. PICK answers \in Answers :
          LET closed == answers >= 1 /\ Closed(o)
              old == answers = 2 /\ o \in aged
              notices == IF closed THEN <<Notify(o)>> ELSE <<>>
          IN  sync' = [sync EXCEPT
                 !.visits = @ + 1,
                 !.queue = IF old THEN @ \o notices \o notices ELSE @ \o notices,
                 !.at = IF sync.visits + 1 = 2 * Limit THEN "route" ELSE "resync"]
    BY DEF Resync
  <2> DEFINE notices == IF answers >= 1 /\ Closed(o) THEN <<Notify(o)>> ELSE <<>>
             at == IF sync.visits + 1 = 2 * Limit THEN "route" ELSE "resync"
  <2>2. notices \in Added /\ at \in {"route", "resync"} /\ notices \in Seq(Notifications)
    BY <1>6
  <2>3. sync.queue \o notices \in Seq(Notifications)
    BY <1>2, <2>2, ConcatProperties
  <2>4. (sync.queue \o notices) \o <<>> = sync.queue \o notices
    BY <2>3, ConcatEmptySeq
  <2>5. CASE answers = 2 /\ o \in aged
    <3>1. sync' = [sync EXCEPT !.visits = @ + 1, !.queue = @ \o notices \o notices, !.at = at]
      BY <2>1, <2>5
    <3> QED BY <2>2, <3>1
  <2>6. CASE ~(answers = 2 /\ o \in aged)
    <3>1. sync' = [sync EXCEPT !.visits = @ + 1, !.queue = @ \o notices, !.at = at]
      BY <2>1, <2>6
    <3>2. sync' = [sync EXCEPT !.visits = @ + 1, !.queue = @ \o notices \o <<>>, !.at = at]
      BY <2>4, <3>1
    <3> QED BY <2>2, <3>2
  <2> QED BY <2>5, <2>6
<1>8. orderStore' \subseteq orderStore
  BY DEF Resync
<1> HIDE DEF o
<1>9. /\ added1 \in Seq(Notifications) /\ \A i \in 1 .. Len(added1) : added1[i].order = o
      /\ added2 \in Seq(Notifications) /\ \A i \in 1 .. Len(added2) : added2[i].order = o
  <2>1. /\ <<>> \in Seq(Notifications) /\ Len(<<>>) = 0
        /\ <<Notify(o)>> \in Seq(Notifications) /\ Len(<<Notify(o)>>) = 1
        /\ <<Notify(o)>>[1] = Notify(o)
    BY <1>6
  <2>2. \A added \in Added :
          added \in Seq(Notifications) /\ \A i \in 1 .. Len(added) : added[i].order = o
    <3> SUFFICES ASSUME NEW added \in Added
                 PROVE  added \in Seq(Notifications) /\ \A i \in 1 .. Len(added) : added[i].order = o
      OBVIOUS
    <3>1. CASE added = <<>>
      BY <2>1, <3>1
    <3>2. CASE added = <<Notify(o)>>
      BY <1>6, <2>1, <3>2
    <3> QED BY <3>1, <3>2
  <2> QED BY <2>2
<1> HIDE DEF Added
<1>10. /\ sync.queue \o added1 \o added2 \in Seq(Notifications)
       /\ \A i \in DOMAIN (sync.queue \o added1 \o added2) :
            (sync.queue \o added1 \o added2)[i].order \in Range(opened)
  <2> DEFINE q1 == sync.queue \o added1
             q2 == q1 \o added2
  <2>1. DOMAIN sync.queue = 1 .. Len(sync.queue) /\ Len(sync.queue) \in Nat
    BY <1>2, LenProperties
  <2>2. Len(added1) \in Nat /\ Len(added2) \in Nat
    BY <1>9, LenProperties
  <2>3. /\ q1 \in Seq(Notifications) /\ Len(q1) = Len(sync.queue) + Len(added1)
        /\ \A i \in 1 .. Len(sync.queue) + Len(added1) :
             q1[i] = IF i <= Len(sync.queue) THEN sync.queue[i] ELSE added1[i - Len(sync.queue)]
    BY <1>2, <1>9, ConcatProperties
  <2>4. \A i \in 1 .. Len(q1) : q1[i].order \in Range(opened)
    <3> SUFFICES ASSUME NEW i \in 1 .. Len(q1) PROVE q1[i].order \in Range(opened)
      OBVIOUS
    <3> HIDE DEF q1
    <3>1. CASE i <= Len(sync.queue)
      BY <2>1, <2>2, <2>3, <3>1 DEF QueueInv
    <3>2. CASE i > Len(sync.queue)
      <4>1. i - Len(sync.queue) \in 1 .. Len(added1) /\ q1[i] = added1[i - Len(sync.queue)]
        BY <2>1, <2>2, <2>3, <3>2
      <4> QED BY <1>5, <1>9, <4>1
    <3> QED BY <2>1, <2>2, <2>3, <3>1, <3>2
  <2> HIDE DEF q1
  <2>b. added2 \in Seq(Notifications) /\ q1 \in Seq(Notifications)
    BY <1>9, <2>3
  <2>5. /\ q2 \in Seq(Notifications) /\ Len(q2) = Len(q1) + Len(added2)
        /\ \A i \in 1 .. Len(q1) + Len(added2) :
             q2[i] = IF i <= Len(q1) THEN q1[i] ELSE added2[i - Len(q1)]
    BY <2>b, ConcatProperties
  <2>6. Len(q1) \in Nat /\ DOMAIN q2 = 1 .. Len(q2)
    BY <2>3, <2>5, LenProperties
  <2> HIDE DEF q2
  <2>7. \A i \in DOMAIN q2 : q2[i].order \in Range(opened)
    <3> SUFFICES ASSUME NEW i \in 1 .. Len(q2) PROVE q2[i].order \in Range(opened)
      BY <2>6
    <3>1. CASE i <= Len(q1)
      BY <2>2, <2>4, <2>5, <2>6, <3>1
    <3>2. CASE i > Len(q1)
      <4>1. i - Len(q1) \in 1 .. Len(added2) /\ q2[i] = added2[i - Len(q1)]
        BY <2>2, <2>5, <2>6, <3>2
      <4> QED BY <1>5, <1>9, <4>1
    <3> QED BY <2>2, <2>5, <2>6, <3>1, <3>2
  <2> QED BY <2>5, <2>7 DEF q1, q2
<1>11. /\ sync' \in [at : {"idle", "collect", "resync", "route", "getCurr", "putPrev", "getPrev", "emit"},
                     queue : Seq(Notifications), orders : Seq(Orders), visits : Nat,
                     found : SUBSET (1 .. MaxEpoch)]
       /\ sync'.at = at /\ sync'.queue = sync.queue \o added1 \o added2
       /\ sync'.orders = sync.orders
  <2> DEFINE q == sync.queue \o added1 \o added2
  <2>1. q \in Seq(Notifications) /\ sync.visits + 1 \in Nat
    BY <1>2, <1>10
  <2>2. sync' = [sync EXCEPT !.visits = @ + 1, !.queue = q, !.at = at]
    BY <1>7
  <2> HIDE DEF q
  <2>3. /\ sync' \in [at : {"idle", "collect", "resync", "route", "getCurr", "putPrev", "getPrev", "emit"},
                      queue : Seq(Notifications), orders : Seq(Orders), visits : Nat,
                      found : SUBSET (1 .. MaxEpoch)]
        /\ sync'.at = at /\ sync'.queue = q /\ sync'.orders = sync.orders
    BY <2>1, <2>2 DEF TypeOK
  <2> QED BY <2>3 DEF q
<1>12. TypeOK'
  <2>1. SyncType'
    BY <1>1, <1>2, <1>3, <1>11 DEF SyncType
  <2>2. StoreType'
    BY <1>1, <1>8, TypeParts DEF StoreType
  <2> QED BY <1>1, <2>1, <2>2, TypeParts, TypePartsNext
          DEF ChainType, EpochType, RequestType, OutputType, CrashType
<1>13. RoutingInv' /\ QueueInv'
  BY <1>1, <1>2, <1>10, <1>11 DEF RoutingInv, Routing, QueueInv
<1>14. \A e, p : ~Looking(e, p)
  BY <1>1 DEF Looking, Routing
<1> QED BY <1>1, <1>8, <1>12, <1>13, <1>14, SyncStepKeeps

\* The first notification of a queue, and the state once it is routed.
LEMMA RoutedProperties ==
  ASSUME IInv, sync.queue # <<>>
  PROVE  /\ Head(sync.queue).order \in Range(opened) /\ Head(sync.queue).order \in Orders
         /\ Routed \in [at : {"idle", "collect", "resync", "route", "getCurr", "putPrev", "getPrev", "emit"},
                        queue : Seq(Notifications), orders : Seq(Orders), visits : Nat,
                        found : SUBSET (1 .. MaxEpoch)]
         /\ Routed.at = "route" /\ Routed.orders = sync.orders
         /\ \A i \in DOMAIN Routed.queue : Routed.queue[i].order \in Range(opened)
<1> USE DEF IInv
<1>1. sync.queue \in Seq(Notifications)
  BY DEF TypeOK
<1>2. /\ DOMAIN sync.queue = 1 .. Len(sync.queue) /\ Len(sync.queue) \in Nat \ {0}
      /\ Head(sync.queue) = sync.queue[1]
  BY <1>1, LenProperties, EmptySeq
<1>3. /\ Head(sync.queue) \in Notifications
      /\ Tail(sync.queue) \in Seq(Notifications) /\ Len(Tail(sync.queue)) = Len(sync.queue) - 1
      /\ \A i \in 1 .. Len(Tail(sync.queue)) : Tail(sync.queue)[i] = sync.queue[i + 1]
  BY <1>1, HeadTailProperties
<1>4. DOMAIN Tail(sync.queue) = 1 .. Len(Tail(sync.queue))
  BY <1>3, LenProperties
<1>5. \A i \in DOMAIN Tail(sync.queue) : Tail(sync.queue)[i].order \in Range(opened)
  BY <1>2, <1>3, <1>4 DEF QueueInv
<1>6. Head(sync.queue).order \in Range(opened) /\ Head(sync.queue).order \in Orders
  BY <1>2, <1>3 DEF QueueInv, Notifications
<1>7. /\ Routed \in [at : {"idle", "collect", "resync", "route", "getCurr", "putPrev", "getPrev", "emit"},
                     queue : Seq(Notifications), orders : Seq(Orders), visits : Nat,
                     found : SUBSET (1 .. MaxEpoch)]
      /\ Routed.at = "route" /\ Routed.orders = sync.orders /\ Routed.queue = Tail(sync.queue)
  BY <1>3 DEF Routed, TypeOK
<1> QED BY <1>5, <1>6, <1>7

\* The goroutine is done with the first notification, having notified what it had found.
LEMMA RoutedKeeps ==
  ASSUME IInv, sync.queue # <<>>, sync' = Routed, OutputType', opens \subseteq opens',
         UNCHANGED <<status, opened, aged, epoch, aggCurr, aggPrev, pointer, orderStore,
                     fragmentStore, resyncPointer, requests, crashes>>,
         \A e \in {aggCurr, aggPrev}, o \in orderStore : Looking(e, o) => <<e, o>> \in opens'
  PROVE  IInv'
<1> USE DEF IInv
<1>1. SyncType'
  BY RoutedProperties, TypeParts DEF SyncType
<1>2. TypeOK'
  BY <1>1, TypeParts, TypePartsNext DEF ChainType, EpochType, StoreType, RequestType, CrashType
<1>3. RoutingInv'
  BY RoutedProperties DEF RoutingInv, Routing
<1>4. QueueInv'
  BY RoutedProperties DEF QueueInv
<1> QED BY <1>2, <1>3, <1>4, SyncStepKeeps

\* An open order without an Aggregator is skipped.
LEMMA RouteNowhereKeeps ==
  ASSUME IInv, RouteNowhere
  PROVE  IInv'
<1>1. /\ sync.at = "route" /\ sync.queue # <<>> /\ sync' = Routed
      /\ UNCHANGED <<status, opened, aged, epoch, aggCurr, aggPrev, pointer, orderStore,
                     fragmentStore, resyncPointer, requests, opens, closes, crashes>>
  BY DEF RouteNowhere, chainVars, diskVars
<1>2. \A e, o : ~Looking(e, o)
  BY <1>1 DEF Looking, Routing
<1>3. OutputType'
  BY <1>1, TypeParts DEF OutputType, IInv
<1> QED BY <1>1, <1>2, <1>3, RoutedKeeps

\* A notification of a closed order is passed on.
LEMMA EmitCloseKeeps ==
  ASSUME IInv, EmitClose
  PROVE  IInv'
<1>1. /\ sync.at = "route" /\ sync.queue # <<>> /\ sync' = Routed
      /\ closes' = closes \cup {Head(sync.queue).order}
      /\ UNCHANGED <<status, opened, aged, epoch, aggCurr, aggPrev, pointer, orderStore,
                     fragmentStore, resyncPointer, requests, opens, crashes>>
  BY DEF EmitClose, chainVars, diskVars
<1>2. \A e, o : ~Looking(e, o)
  BY <1>1 DEF Looking, Routing
<1>3. OutputType'
  BY <1>1, TypeParts, RoutedProperties DEF OutputType, IInv
<1> QED BY <1>1, <1>2, <1>3, RoutedKeeps

\* What was found for an open order is notified.
LEMMA EmitOpenKeeps ==
  ASSUME IInv, EmitOpen
  PROVE  IInv'
<1>1. /\ sync.at = "emit" /\ sync' = Routed
      /\ opens' = opens \cup {<<e, Head(sync.queue).order>> : e \in sync.found}
      /\ UNCHANGED <<status, opened, aged, epoch, aggCurr, aggPrev, pointer, orderStore,
                     fragmentStore, resyncPointer, requests, closes, crashes>>
  BY DEF EmitOpen, chainVars, diskVars
<1>2. sync.queue # <<>>
  BY <1>1 DEF IInv, RoutingInv, Routing
<1>3. Head(sync.queue).order \in Orders /\ sync.found \subseteq 1 .. MaxEpoch
  BY <1>2, RoutedProperties DEF IInv, TypeOK
<1>4. OutputType'
  BY <1>1, <1>3, TypeParts DEF OutputType, IInv
<1>5. \A e, o : Looking(e, o) => <<e, o>> \in opens'
  BY <1>1 DEF Looking, Routing
<1> QED BY <1>1, <1>2, <1>4, <1>5, RoutedKeeps

\* The goroutine goes on with the first notification: it has stored the order, if need be, and
\* forgets nothing it was looking for unless it has looked and there is no fragment.
LEMMA RoutingStepKeeps ==
  ASSUME IInv, sync.queue # <<>>, NEW order, order = Head(sync.queue).order,
         SyncType', Routing', sync'.queue = sync.queue, sync'.orders = sync.orders,
         orderStore' = orderStore \cup {order},
         UNCHANGED <<status, opened, aged, epoch, aggCurr, aggPrev, pointer, fragmentStore,
                     resyncPointer, requests, opens, closes, crashes>>,
         \A e \in {aggCurr, aggPrev} :
           <<e, order>> \in fragmentStore =>
             Looking(e, order)' \/ (order \in orderStore /\ ~Looking(e, order))
  PROVE  IInv'
<1> USE DEF IInv
<1>1. sync'.at # "resync"
  BY DEF Routing
<1>2. TypeOK'
  <2>1. StoreType'
    BY TypeParts, RoutedProperties DEF StoreType
  <2> QED BY <2>1, TypeParts, TypePartsNext
          DEF ChainType, EpochType, RequestType, OutputType, CrashType
<1>3. RoutingInv'
  BY DEF RoutingInv
<1>4. QueueInv'
  BY <1>1 DEF QueueInv
<1>5. ASSUME NEW o \in orderStore', NEW e \in {aggCurr, aggPrev}, <<e, o>> \in fragmentStore
      PROVE  Looking(e, o)' \/ (o \in orderStore /\ ~Looking(e, o))
  <2>1. CASE o = order
    BY <1>5, <2>1
  <2>2. CASE o # order
    BY <2>2 DEF Looking
  <2> QED BY <2>1, <2>2
<1> QED BY <1>2, <1>3, <1>4, <1>5, SyncStepKeeps

\* The order is stored and looked for with the current Aggregator.
LEMMA PutOrderCurrKeeps ==
  ASSUME IInv, PutOrderCurr
  PROVE  IInv'
<1>1. PICK order : order = Head(sync.queue).order
  OBVIOUS
<1>2. /\ sync.at = "route" /\ sync.queue # <<>>
      /\ orderStore' = orderStore \cup {order} /\ sync' = [sync EXCEPT !.at = "getCurr"]
      /\ UNCHANGED <<status, opened, aged, epoch, aggCurr, aggPrev, pointer, fragmentStore,
                     resyncPointer, requests, opens, closes, crashes>>
  BY <1>1 DEF PutOrderCurr, chainVars
<1>3. SyncType'
  BY <1>2 DEF IInv, TypeOK, SyncType
<1>4. /\ sync'.at = "getCurr" /\ sync'.queue = sync.queue /\ sync'.orders = sync.orders
      /\ Routing'
  BY <1>2 DEF IInv, TypeOK, Routing
<1>5. \A e : Looking(e, order)'
  BY <1>1, <1>4 DEF Looking, Routing
<1> QED BY <1>1, <1>2, <1>3, <1>4, <1>5, RoutingStepKeeps

\* The current Aggregator looks for the fragment.
LEMMA GetFragmentCurrKeeps ==
  ASSUME IInv, GetFragmentCurr
  PROVE  IInv'
<1>1. PICK order, found, at :
        /\ order = Head(sync.queue).order /\ found = sync.found \cup Found(aggCurr)
        /\ at = IF aggPrev = 0 THEN "emit" ELSE "putPrev"
  OBVIOUS
<1>2. /\ sync.at = "getCurr" /\ sync' = [sync EXCEPT !.found = found, !.at = at]
      /\ UNCHANGED <<status, opened, aged, epoch, aggCurr, aggPrev, pointer, orderStore,
                     fragmentStore, resyncPointer, requests, opens, closes, crashes>>
  BY <1>1 DEF GetFragmentCurr, chainVars, diskVars
<1>3. sync.queue # <<>> /\ order \in orderStore
  BY <1>1, <1>2 DEF IInv, RoutingInv, Routing
<1>4. \A e : <<e, order>> \in fragmentStore => e \in 1 .. MaxEpoch /\ e # 0
  BY OrderbookAssumption DEF IInv, TypeOK
<1>5. found \in SUBSET (1 .. MaxEpoch)
  BY <1>1, <1>4 DEF Found, IInv, TypeOK
<1>6. /\ <<aggCurr, order>> \in fragmentStore => aggCurr \in found
      /\ <<aggPrev, order>> \in fragmentStore => at = "putPrev"
  BY <1>1, <1>4 DEF Found
<1>7. at \in {"putPrev", "emit"}
  BY <1>1
<1>8. /\ sync'.at = at /\ sync'.found = found /\ sync'.queue = sync.queue
      /\ sync'.orders = sync.orders /\ Routing'
  BY <1>2, <1>7 DEF IInv, TypeOK, Routing
<1>9. SyncType'
  BY <1>2, <1>5, <1>7 DEF IInv, TypeOK, SyncType
<1>10. \A e \in {aggCurr, aggPrev} : <<e, order>> \in fragmentStore => Looking(e, order)'
  BY <1>1, <1>2, <1>6, <1>7, <1>8 DEF Looking
<1>11. order = Head(sync.queue).order /\ orderStore' = orderStore \cup {order}
  BY <1>1, <1>2, <1>3
<1> QED BY <1>2, <1>3, <1>8, <1>9, <1>10, <1>11, RoutingStepKeeps

\* The order is stored once more, for the previous Aggregator.
LEMMA PutOrderPrevKeeps ==
  ASSUME IInv, PutOrderPrev
  PROVE  IInv'
<1>1. PICK order : order = Head(sync.queue).order
  OBVIOUS
<1>2. /\ sync.at = "putPrev"
      /\ orderStore' = orderStore \cup {order} /\ sync' = [sync EXCEPT !.at = "getPrev"]
      /\ UNCHANGED <<status, opened, aged, epoch, aggCurr, aggPrev, pointer, fragmentStore,
                     resyncPointer, requests, opens, closes, crashes>>
  BY <1>1 DEF PutOrderPrev, chainVars
<1>3. sync.queue # <<>> /\ order \in orderStore
  BY <1>1, <1>2 DEF IInv, RoutingInv, Routing
<1>4. SyncType'
  BY <1>2 DEF IInv, TypeOK, SyncType
<1>5. /\ sync'.at = "getPrev" /\ sync'.found = sync.found /\ sync'.queue = sync.queue
      /\ sync'.orders = sync.orders /\ Routing'
  BY <1>2 DEF IInv, TypeOK, Routing
<1>6. \A e : Looking(e, order) => Looking(e, order)'
  BY <1>1, <1>2, <1>5 DEF Looking, Routing
<1> QED BY <1>1, <1>2, <1>3, <1>4, <1>5, <1>6, RoutingStepKeeps

\* The previous Aggregator looks for the fragment.
LEMMA GetFragmentPrevKeeps ==
  ASSUME IInv, GetFragmentPrev
  PROVE  IInv'
<1>1. PICK order, found : order = Head(sync.queue).order /\ found = sync.found \cup Found(aggPrev)
  OBVIOUS
<1>2. /\ sync.at = "getPrev" /\ sync' = [sync EXCEPT !.found = found, !.at = "emit"]
      /\ UNCHANGED <<status, opened, aged, epoch, aggCurr, aggPrev, pointer, orderStore,
                     fragmentStore, resyncPointer, requests, opens, closes, crashes>>
  BY <1>1 DEF GetFragmentPrev, chainVars, diskVars
<1>3. sync.queue # <<>> /\ order \in orderStore
  BY <1>1, <1>2 DEF IInv, RoutingInv, Routing
<1>4. \A e : <<e, order>> \in fragmentStore => e \in 1 .. MaxEpoch
  BY DEF IInv, TypeOK
<1>5. found \in SUBSET (1 .. MaxEpoch)
  BY <1>1, <1>4 DEF Found, IInv, TypeOK
<1>6. sync.found \subseteq found /\ (<<aggPrev, order>> \in fragmentStore => aggPrev \in found)
  BY <1>1 DEF Found
<1>7. /\ sync'.at = "emit" /\ sync'.found = found /\ sync'.queue = sync.queue
      /\ sync'.orders = sync.orders /\ Routing'
  BY <1>2 DEF IInv, TypeOK, Routing
<1>8. SyncType'
  BY <1>2, <1>5 DEF IInv, TypeOK, SyncType
<1>9. \A e \in {aggCurr, aggPrev} :
        <<e, order>> \in fragmentStore => Looking(e, order)' \/ ~Looking(e, order)
  BY <1>1, <1>2, <1>6, <1>7 DEF Looking
<1>10. order = Head(sync.queue).order /\ orderStore' = orderStore \cup {order}
  BY <1>1, <1>2, <1>3
<1> QED BY <1>2, <1>3, <1>7, <1>8, <1>9, <1>10, RoutingStepKeeps

\* All notifications are routed.
LEMMA SyncEndsKeeps ==
  ASSUME IInv, SyncEnds
  PROVE  IInv'
<1>1. /\ sync.at = "route" /\ sync' = Idle
      /\ UNCHANGED <<status, opened, aged, epoch, aggCurr, aggPrev, pointer, orderStore,
                     fragmentStore, resyncPointer, requests, opens, closes, crashes>>
  BY DEF SyncEnds, chainVars, diskVars
<1>2. SyncType'
  BY <1>1, TypeParts DEF SyncType, Idle, IInv
<1>3. TypeOK'
  BY <1>1, <1>2, TypeParts, TypePartsNext
     DEF ChainType, EpochType, StoreType, RequestType, OutputType, CrashType, IInv
<1>4. RoutingInv' /\ QueueInv'
  BY <1>1 DEF RoutingInv, Routing, QueueInv, Idle
<1>5. \A e, o : ~Looking(e, o)
  BY <1>1 DEF Looking, Routing
<1> QED BY <1>1, <1>3, <1>4, <1>5, SyncStepKeeps
-----------------------------------------------------------------------------
(* The steps of the requests. *)

\* The fragment is stored, and its request will look for the order.
LEMMA PutOrderFragmentKeeps ==
  ASSUME IInv, NEW f \in Fragments, PutOrderFragment(f)
  PROVE  IInv'
<1> USE DEF IInv
<1>1. PICK agg : agg = AggregatorOf(f)
  OBVIOUS
<1>2. /\ requests[f].at = "unsent"
      /\ requests' = [requests EXCEPT ![f] = [at |-> IF agg = 0 THEN "done" ELSE "get", epoch |-> agg]]
      /\ fragmentStore' = IF agg = 0 THEN fragmentStore ELSE fragmentStore \cup {<<agg, f[1]>>}
      /\ UNCHANGED <<status, opened, aged, epoch, aggCurr, aggPrev, pointer, orderStore,
                     resyncPointer, sync, opens, closes, crashes>>
  BY <1>1 DEF PutOrderFragment, chainVars
<1>3. f[1] \in Orders /\ agg \in {aggCurr, aggPrev}
  BY <1>1, OrderbookAssumption DEF AggregatorOf
<1>4. /\ agg \in 0 .. MaxEpoch /\ aggPrev \in Nat /\ aggCurr \in Nat /\ MaxEpoch \in Nat
      /\ \A p \in fragmentStore : p[1] \in Nat
  BY <1>3, OrderbookAssumption DEF TypeOK
<1>5. /\ \A g \in Fragments : g # f => requests'[g] = requests[g]
      /\ requests'[f].at = (IF agg = 0 THEN "done" ELSE "get") /\ requests'[f].epoch = agg
  BY <1>2 DEF TypeOK
<1>6. TypeOK'
  <2>1. RequestType'
    BY <1>2, <1>4, TypeParts DEF RequestType
  <2>2. StoreType'
    <3>1. CASE agg = 0
      BY <1>2, <3>1, TypeParts DEF StoreType
    <3>2. CASE agg # 0
      <4>1. <<agg, f[1]>> \in (1 .. MaxEpoch) \X Orders
        BY <1>3, <1>4, <3>2
      <4> QED BY <1>2, <3>2, <4>1, TypeParts DEF StoreType
    <3> QED BY <3>1, <3>2
  <2> QED BY <1>2, <2>1, <2>2, TypeParts, TypePartsNext
          DEF ChainType, EpochType, SyncType, OutputType, CrashType
<1>7. RequestInv'
  BY <1>5 DEF RequestInv
<1>8. ASSUME NEW o \in orderStore, NEW e \in {aggCurr, aggPrev}, <<e, o>> \in fragmentStore'
      PROVE  <<e, o>> \in fragmentStore \/ Requesting(e, o)'
  <2>1. CASE <<e, o>> \in fragmentStore
    BY <2>1
  <2>2. CASE agg # 0 /\ e = agg /\ o = f[1]
    BY <1>5, <2>2 DEF Requesting
  <2> QED BY <1>2, <1>8, <2>1, <2>2
<1>9. FragmentInv'
  BY <1>2, <1>3, <1>4 DEF FragmentInv
<1> QED BY <1>2, <1>5, <1>6, <1>7, <1>8, <1>9, RequestStepKeeps

\* A request looks for the order, and finds it if it is stored.
LEMMA GetOrderKeeps ==
  ASSUME IInv, NEW f \in Fragments, GetOrder(f)
  PROVE  IInv'
<1> USE DEF IInv
<1>1. /\ requests[f].at = "get"
      /\ requests' = [requests EXCEPT ![f].at = IF f[1] \in orderStore THEN "emit" ELSE "done"]
      /\ UNCHANGED <<status, opened, aged, epoch, aggCurr, aggPrev, pointer, orderStore,
                     fragmentStore, resyncPointer, sync, opens, closes, crashes>>
  BY DEF GetOrder, chainVars, diskVars
<1>2. /\ \A g \in Fragments : g # f => requests'[g] = requests[g]
      /\ requests'[f].at = (IF f[1] \in orderStore THEN "emit" ELSE "done")
      /\ requests'[f].epoch = requests[f].epoch
  BY <1>1 DEF TypeOK
<1>3. TypeOK'
  <2>1. RequestType'
    BY <1>1, TypeParts DEF RequestType
  <2> QED BY <1>1, <2>1, TypeParts, TypePartsNext
          DEF ChainType, EpochType, StoreType, SyncType, OutputType, CrashType
<1>4. RequestInv' /\ FragmentInv'
  BY <1>1, <1>2 DEF RequestInv, FragmentInv
<1>5. \A o \in orderStore, e \in {aggCurr, aggPrev} :
        f[1] = o /\ requests[f].epoch = e => Requesting(e, o)'
  BY <1>2 DEF Requesting
<1> QED BY <1>1, <1>2, <1>3, <1>4, <1>5, RequestStepKeeps

\* A request notifies the pair.
LEMMA EmitFragmentKeeps ==
  ASSUME IInv, NEW f \in Fragments, EmitFragment(f)
  PROVE  IInv'
<1> USE DEF IInv
<1>1. /\ requests[f].at = "emit" /\ requests' = [requests EXCEPT ![f].at = "done"]
      /\ opens' = opens \cup {<<requests[f].epoch, f[1]>>}
      /\ UNCHANGED <<status, opened, aged, epoch, aggCurr, aggPrev, pointer, orderStore,
                     fragmentStore, resyncPointer, sync, closes, crashes>>
  BY DEF EmitFragment, chainVars, diskVars
<1>2. /\ \A g \in Fragments : g # f => requests'[g] = requests[g]
      /\ requests'[f].at = "done"
  BY <1>1 DEF TypeOK
<1>3. <<requests[f].epoch, f[1]>> \in (1 .. MaxEpoch) \X Orders
  <2>1. f[1] \in Orders
    BY OrderbookAssumption
  <2>2. requests[f].epoch \in 0 .. MaxEpoch /\ requests[f].epoch # 0
    BY <1>1 DEF TypeOK, RequestInv
  <2> QED BY <2>1, <2>2, OrderbookAssumption
<1>4. TypeOK'
  <2>1. RequestType'
    BY <1>1, TypeParts DEF RequestType
  <2>2. OutputType'
    BY <1>1, <1>3, TypeParts DEF OutputType
  <2> QED BY <1>1, <2>1, <2>2, TypeParts, TypePartsNext
          DEF ChainType, EpochType, StoreType, SyncType, CrashType
<1>5. RequestInv' /\ FragmentInv'
  BY <1>1, <1>2 DEF RequestInv, FragmentInv
<1> QED BY <1>1, <1>2, <1>4, <1>5, RequestStepKeeps

\* The client ends a request that was about to notify the pair.
LEMMA EndRequestKeeps ==
  ASSUME IInv, NEW f \in Fragments, EndRequest(f)
  PROVE  IInv'
<1> USE DEF IInv
<1>1. /\ requests[f].at = "emit" /\ requests' = [requests EXCEPT ![f].at = "ended"]
      /\ UNCHANGED <<status, opened, aged, epoch, aggCurr, aggPrev, pointer, orderStore,
                     fragmentStore, resyncPointer, sync, opens, closes, crashes>>
  BY DEF EndRequest, chainVars, diskVars
<1>2. /\ \A g \in Fragments : g # f => requests'[g] = requests[g]
      /\ requests'[f] = [at |-> "ended", epoch |-> requests[f].epoch]
  BY <1>1 DEF TypeOK
<1>3. TypeOK'
  <2>1. RequestType'
    BY <1>1, TypeParts DEF RequestType
  <2> QED BY <1>1, <2>1, TypeParts, TypePartsNext
          DEF ChainType, EpochType, StoreType, SyncType, OutputType, CrashType
<1>4. RequestInv' /\ FragmentInv'
  BY <1>1, <1>2 DEF RequestInv, FragmentInv
<1>5. \A o \in orderStore, e \in {aggCurr, aggPrev} :
        f[1] = o /\ requests[f].epoch = e => Ended(e, o)'
  BY <1>2 DEF Ended
<1> QED BY <1>1, <1>2, <1>3, <1>4, <1>5, RequestStepKeeps
-----------------------------------------------------------------------------

\* Initially nothing is stored and nobody is at work.
LEMMA InitIInv == Init => IInv
<1> SUFFICES ASSUME Init PROVE IInv
  OBVIOUS
<1>1. TypeOK
  <2>1. ChainType /\ EpochType
    BY OrderbookAssumption DEF Init, ChainType, EpochType, Statuses
  <2>2. StoreType /\ OutputType /\ CrashType
    BY OrderbookAssumption DEF Init, StoreType, OutputType, CrashType
  <2>3. SyncType
    BY DEF Init, SyncType, Idle
  <2>4. RequestType
    BY OrderbookAssumption DEF Init, RequestType
  <2> QED BY <2>1, <2>2, <2>3, <2>4, TypeParts
<1>2. RoutingInv /\ QueueInv
  BY DEF Init, RoutingInv, Routing, QueueInv, Idle
<1>3. RequestInv /\ FragmentInv /\ TrackedInv
  BY DEF Init, RequestInv, FragmentInv, TrackedInv
<1> QED BY <1>1, <1>2, <1>3 DEF IInv

\* Every step keeps the invariant.
LEMMA NextIInv == IInv /\ [Next]_vars => IInv'
<1> SUFFICES ASSUME IInv, [Next]_vars PROVE IInv'
  OBVIOUS
<1>1. CASE UNCHANGED vars
  <2>1. UNCHANGED <<status, opened, aged, epoch, aggCurr, aggPrev, pointer, orderStore,
                    fragmentStore, resyncPointer, sync, requests, opens, closes, crashes>>
    BY <1>1 DEF vars
  <2>2. TypeOK'
    BY <2>1 DEF IInv, TypeOK
  <2> QED BY <2>1, <2>2, ChainStepKeeps
<1>2. CASE \E o \in Orders : OpenOnChain(o) \/ Age(o) \/ \E s \in Closings : CloseOnChain(o, s)
  BY <1>2, OpenOnChainKeeps, AgeKeeps, CloseOnChainKeeps
<1>3. CASE NextEpoch \/ OnChangeEpoch \/ Crash
  BY <1>3, NextEpochKeeps, OnChangeEpochKeeps, CrashKeeps
<1>4. CASE SyncStep
  BY <1>4, SyncKeeps, CollectKeeps, ResyncKeeps, RouteNowhereKeeps, PutOrderCurrKeeps,
     GetFragmentCurrKeeps, PutOrderPrevKeeps, GetFragmentPrevKeeps, EmitOpenKeeps,
     EmitCloseKeeps, SyncEndsKeeps DEF SyncStep
<1>5. CASE \E f \in Fragments :
             PutOrderFragment(f) \/ GetOrder(f) \/ EmitFragment(f) \/ EndRequest(f)
  BY <1>5, PutOrderFragmentKeeps, GetOrderKeeps, EmitFragmentKeeps, EndRequestKeeps
<1> QED BY <1>1, <1>2, <1>3, <1>4, <1>5 DEF Next
-----------------------------------------------------------------------------

\* Of an order and its fragment, whichever is stored second is stored by somebody who then
\* looks for the first (InsertOrder, InsertOrderFragment), so that a pair of the two epochs is
\* always notified or about to be.
THEOREM OrderbookInvariant == Spec => []IInv
<1> QED BY InitIInv, NextIInv, PTL DEF Spec

\* The state of the orderbook has its types; what is stored are orders of the contract, and
\* the pointer never passes the orders that were opened.
THEOREM OrderbookTypeCorrect == Spec => []TypeOK
<1>1. IInv => TypeOK
  BY DEF IInv
<1> QED BY <1>1, OrderbookInvariant, PTL

\* However the goroutine that synchronises, the requests and the changes of epoch interleave,
\* and however many of them there are, no order that is stored with a fragment of one of the
\* two epochs is forgotten, except for a request that was ended and for a crash.
THEOREM PairsAreNotified == Spec => []NothingMissed
<1>1. IInv => NothingMissed
  <2> SUFFICES ASSUME IInv, NEW o \in Orders, NEW e \in {aggCurr, aggPrev}, Received(e, o)
               PROVE  <<e, o>> \in opens \/ Ended(e, o) \/ crashes > 0
    BY DEF NothingMissed
  <2>1. CASE crashes # 0
    BY <2>1, OrderbookAssumption DEF IInv, TypeOK
  <2>2. CASE crashes = 0
    <3>1. Tracked(e, o)
      BY <2>2 DEF IInv, TrackedInv, Received
    <3>2. ~Requesting(e, o)
      BY DEF Requesting, Received, Quiet
    <3>3. ~Looking(e, o)
      <4> SUFFICES ASSUME Routing, Head(sync.queue).order = o PROVE FALSE
        BY DEF Looking
      <4>1. sync.queue \in Seq(Notifications) /\ sync.queue # <<>>
        BY DEF IInv, TypeOK, RoutingInv
      <4>2. 1 \in DOMAIN sync.queue /\ Head(sync.queue) = sync.queue[1]
        BY <4>1, LenProperties, EmptySeq
      <4> QED BY <4>2 DEF Received, Quiet
    <3> QED BY <3>1, <3>2, <3>3 DEF Tracked
  <2> QED BY <2>1, <2>2
<1> QED BY <1>1, OrderbookInvariant, PTL
=============================================================================
