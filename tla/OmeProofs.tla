------------------------------ MODULE OmeProofs ------------------------------
(***************************************************************************)
(* Proofs about OmeEpoch.tla and Generator.tla, for any number of epochs,    *)
(* orders and notifications, and about OmeFlow.tla, for any number of        *)
(* goroutines, epoch changes and joins, and any capacity of the channels.    *)
(***************************************************************************)
EXTENDS OmeEpoch, OmeFlow, SequenceTheorems, FiniteSetTheorems, TLAPS

\* What a matrix iterates over: orders of the other side, and nothing when it waits.
MatInv ==
  \A e \in Epochs :
    IF mat[e].pc = "inserting"
      THEN mat[e].order \in Orders /\ mat[e].rest \subseteq Opposite(mat[e].order)
      ELSE mat[e].rest = {}

\* The router holds a notification while it is routed.
RouterInv == router.pc # "select" => router.note \in Notifications

\* The matrices of the two epochs are open, differ and have a goroutine; a closed one
\* had it.
OpenInv ==
  /\ NeverSendsOnClosed
  /\ curr \notin closed /\ prev \notin closed
  /\ curr = prev => curr = None
  /\ \A e \in Epochs : e \in {curr, prev} \cup closed => mat[e].pc # "none"

GenInv == GenTypeOK /\ MatInv /\ RouterInv /\ OpenInv /\ PairsGenerated

\* An epoch gets a matrix once: those to come have none, and those that the loop of the
\* darknode has passed on do not come again.
FreshInv ==
  /\ \A e \in Epochs : mat[e].pc # "none" =>
       /\ e <= epoch /\ e \notin changes
       /\ changing.step = "orderbook" => changing.epoch # e
  /\ \A e \in changes : e <= epoch /\ e # changing.epoch
  /\ changing.epoch <= epoch
  /\ changing.epoch = None <=> changing.step = "unlocked"

\* Which epochs the parts of the node are in, by how far a change has come.
PhaseInv ==
  /\ changing.step = "unlocked" =>
       /\ curr = epochCurr /\ prev = epochPrev
       /\ bookCurr = epochCurr /\ bookPrev = epochPrev
       /\ networks = {epochCurr, epochPrev} \ {None}
  /\ changing.step = "orderbook" =>
       /\ curr = epochCurr /\ prev = epochPrev
       /\ bookCurr = changing.epoch /\ bookPrev = epochCurr
       /\ networks = {changing.epoch, epochCurr, epochPrev} \ {None}
  /\ changing.step = "generator" =>
       /\ curr = changing.epoch /\ prev = epochCurr
       /\ bookCurr = changing.epoch /\ bookPrev = epochCurr
       /\ networks = {changing.epoch, epochCurr, epochPrev} \ {None}
       /\ epochPrev \in closed \cup {None}

\* The inductive invariant.
EpochIInv == EpochTypeOK /\ GenInv /\ FreshInv /\ PhaseInv
-----------------------------------------------------------------------------

TargetLists == {<<>>} \cup Epochs \X Epochs \cup {<<e>> : e \in Epochs}

\* What becomes of the pairs of an epoch.
Accounted(e) == generated \cup missed \cup Pending(e) \cup forward[e]

\* A computation of two orders of different sides is a triple of its epoch.
LEMMA PairType ==
  ASSUME NEW e \in Epochs, NEW o \in Orders, NEW opposite \in Opposite(o)
  PROVE  Pair(e, o, opposite) \in Epochs \X Buys \X Sells
BY DEF Pair, Opposite, Orders

\* What a matrix is still to send is a set of computations.
LEMMA PendingType ==
  ASSUME MatInv, NEW e \in Epochs
  PROVE  Pending(e) \subseteq Epochs \X Buys \X Sells
<1>1. CASE mat[e].pc = "inserting"
  BY <1>1, PairType DEF MatInv, Pending
<1>2. CASE mat[e].pc # "inserting"
  BY <1>2 DEF MatInv, Pending
<1> QED BY <1>1, <1>2

\* Pairs stay accounted for when no order is stored and none of the accounts is lost.
LEMMA PairsStay ==
  ASSUME PairsGenerated, UNCHANGED own,
         \A e \in Epochs : stored'[e] \subseteq stored[e] /\ Accounted(e) \subseteq Accounted(e)'
  PROVE  PairsGenerated'
<1> SUFFICES ASSUME NEW e \in Epochs, NEW b \in stored'[e] \cap Buys,
                    NEW s \in stored'[e] \cap Sells, <<b, s>> \notin own'
             PROVE  <<e, b, s>> \in Accounted(e)'
  BY DEF PairsGenerated, Accounted
<1>1. <<e, b, s>> \in Accounted(e)
  BY DEF PairsGenerated, Accounted
<1> QED BY <1>1

\* Two matrices to send to.
LEMMA ConcatOfTwo ==
  ASSUME NEW a \in Epochs, NEW b \in Epochs
  PROVE  <<a>> \o <<b>> = <<a, b>>
<1>1. <<a>> \in Seq(Epochs) /\ <<b>> \in Seq(Epochs) /\ <<a, b>> \in Seq(Epochs)
  OBVIOUS
<1>2. Len(<<a>>) = 1 /\ Len(<<b>>) = 1 /\ Len(<<a, b>>) = 2
  OBVIOUS
<1> DEFINE both == <<a>> \o <<b>>
<1>3. /\ both \in Seq(Epochs) /\ Len(both) = 2
      /\ \A i \in 1 .. 2 : both[i] = IF i <= 1 THEN <<a>>[i] ELSE <<b>>[i - 1]
  BY <1>1, <1>2, ConcatProperties
<1>4. \A i \in 1 .. 2 : both[i] = <<a, b>>[i]
  <2>1. both[1] = a /\ both[2] = b
    BY <1>3
  <2> HIDE DEF both
  <2> QED BY <2>1
<1> HIDE DEF both
<1>5. both = <<a, b>>
  BY <1>1, <1>2, <1>3, <1>4, SeqEqual
<1> QED BY <1>5 DEF both

\* A notification goes to the matrices of the two epochs, as far as there are any.
LEMMA TargetsKnown ==
  ASSUME GenInv, NEW note \in Notifications
  PROVE  /\ Targets(note) \in TargetLists
         /\ \A i \in DOMAIN Targets(note) : Targets(note)[i] \in {curr, prev} \ {None}
<1> USE DEF GenInv
<1>1. \/ Targets(note) = Known(curr)
      \/ Targets(note) = Known(prev)
      \/ Targets(note) = Known(curr) \o Known(prev)
  BY DEF Targets, Notifications
<1>2. curr \in Epochs \cup {None} /\ prev \in Epochs \cup {None}
  BY DEF GenTypeOK
<1>3. \/ Targets(note) = <<>>
      \/ curr \in Epochs /\ Targets(note) = <<curr>>
      \/ prev \in Epochs /\ Targets(note) = <<prev>>
      \/ curr \in Epochs /\ prev \in Epochs /\ Targets(note) = <<curr, prev>>
  <2>1. CASE curr = None
    <3>1. Known(curr) = <<>> /\ Known(prev) \in {<<>>, <<prev>>}
      BY <2>1 DEF Known
    <3>2. Known(curr) \o Known(prev) = Known(prev)
      BY <3>1
    <3> QED BY <1>1, <1>2, <3>1, <3>2 DEF Known
  <2>2. CASE prev = None /\ curr # None
    <3>1. Known(prev) = <<>> /\ Known(curr) = <<curr>> /\ curr \in Epochs
      BY <1>2, <2>2 DEF Known
    <3>2. Known(curr) \o Known(prev) = Known(curr)
      BY <3>1
    <3> QED BY <1>1, <3>1, <3>2
  <2>3. CASE curr # None /\ prev # None
    <3>1. Known(curr) = <<curr>> /\ Known(prev) = <<prev>>
      BY <2>3 DEF Known
    <3>2. <<curr>> \o <<prev>> = <<curr, prev>>
      BY <1>2, <2>3, ConcatOfTwo
    <3> QED BY <1>1, <1>2, <2>3, <3>1, <3>2
  <2> QED BY <2>1, <2>2, <2>3
<1>4. \A e \in Epochs : e # None
  BY GeneratorAssumption DEF None
<1>5. CASE Targets(note) = <<>>
  BY <1>5 DEF TargetLists
<1>6. CASE curr \in Epochs /\ Targets(note) = <<curr>>
  <2>1. \A i \in DOMAIN <<curr>> : <<curr>>[i] = curr
    OBVIOUS
  <2> QED BY <1>4, <1>6, <2>1 DEF TargetLists
<1>7. CASE prev \in Epochs /\ Targets(note) = <<prev>>
  <2>1. \A i \in DOMAIN <<prev>> : <<prev>>[i] = prev
    OBVIOUS
  <2> QED BY <1>4, <1>7, <2>1 DEF TargetLists
<1>8. CASE curr \in Epochs /\ prev \in Epochs /\ Targets(note) = <<curr, prev>>
  <2>1. \A i \in DOMAIN <<curr, prev>> : <<curr, prev>>[i] \in {curr, prev}
    OBVIOUS
  <2> QED BY <1>4, <1>8, <2>1 DEF TargetLists
<1> QED BY <1>3, <1>5, <1>6, <1>7, <1>8

\* Steps of the router that only change the router.
LEMMA RouterKeeps ==
  ASSUME GenInv,
         \/ \E note \in Notifications : ReceiveNotification(note)
         \/ RouteNotification
         \/ RouteReturns
  PROVE  /\ GenInv' /\ UNCHANGED <<curr, prev, closed, mat>>
<1> USE DEF GenInv
<1>1. /\ UNCHANGED <<own, curr, prev, closed, mat, merged, forward, stored, generated, missed, done>>
      /\ notified' \in 0 .. MaxNotifications
  BY GeneratorAssumption DEF ReceiveNotification, RouteNotification, RouteReturns, GenTypeOK
<1>2. /\ router' \in [pc : {"select", "locking", "sending"}, note : Notifications \cup {NoNote},
                      targets : TargetLists]
      /\ RouterInv'
      /\ router'.pc = "sending" => \A i \in DOMAIN router'.targets : router'.targets[i] \notin closed
  <2>1. CASE \E note \in Notifications : ReceiveNotification(note)
    BY <2>1 DEF ReceiveNotification, RouterInv, TargetLists
  <2>2. CASE RouteNotification
    <3>1. router.note \in Notifications
      BY <2>2 DEF RouteNotification, RouterInv
    <3>2. /\ Targets(router.note) \in TargetLists
          /\ \A i \in DOMAIN Targets(router.note) : Targets(router.note)[i] \notin closed
      BY <3>1, TargetsKnown DEF OpenInv
    <3>3. router' = [router EXCEPT !.pc = "sending", !.targets = Targets(router.note)]
      BY <2>2 DEF RouteNotification
    <3> QED BY <3>1, <3>2, <3>3 DEF RouterInv, GenTypeOK
  <2>3. CASE RouteReturns
    BY <2>3 DEF RouteReturns, RouterIdle, RouterInv, TargetLists
  <2> QED BY <2>1, <2>2, <2>3
<1>3. GenTypeOK'
  BY <1>1, <1>2 DEF GenTypeOK, TargetLists
<1>4. MatInv' /\ OpenInv'
  BY <1>1, <1>2 DEF MatInv, OpenInv, NeverSendsOnClosed
<1>5. PairsGenerated'
  BY <1>1 DEF PairsGenerated, Pending
<1> QED BY <1>1, <1>2, <1>3, <1>4, <1>5

\* What is left of the matrices to send to.
LEMMA TailOfTargets ==
  ASSUME NEW targets \in TargetLists, targets # <<>>
  PROVE  /\ Head(targets) \in Epochs /\ Tail(targets) \in TargetLists
         /\ \A i \in DOMAIN Tail(targets) :
              i + 1 \in DOMAIN targets /\ Tail(targets)[i] = targets[i + 1]
<1>1. CASE targets \in Epochs \X Epochs
  <2>1. PICK a \in Epochs, b \in Epochs : targets = <<a, b>>
    BY <1>1
  <2>2. Head(targets) = a /\ Tail(targets) = <<b>>
    BY <2>1
  <2> QED BY <2>1, <2>2 DEF TargetLists
<1>2. CASE targets \in {<<a>> : a \in Epochs}
  <2>1. PICK a \in Epochs : targets = <<a>>
    BY <1>2
  <2>2. Head(targets) = a /\ Tail(targets) = <<>>
    BY <2>1
  <2> QED BY <2>1, <2>2 DEF TargetLists
<1> QED BY <1>1, <1>2 DEF TargetLists

\* What a notification does to the matrix that receives it.
LEMMA NotificationKeeps ==
  ASSUME GenInv, SendNotification
  PROVE  /\ GenInv' /\ UNCHANGED <<curr, prev, closed>>
         /\ \A e \in Epochs : mat'[e].pc = "none" <=> mat[e].pc = "none"
<1> USE DEF GenInv
<1>1. router.targets \in TargetLists /\ router.targets # <<>>
  BY DEF GenTypeOK, TargetLists, SendNotification
<1>2. /\ Head(router.targets) \in Epochs /\ Tail(router.targets) \in TargetLists
      /\ \A i \in DOMAIN Tail(router.targets) :
           /\ i + 1 \in DOMAIN router.targets
           /\ Tail(router.targets)[i] = router.targets[i + 1]
  BY <1>1, TailOfTargets
<1>3. router.note \in Notifications /\ router.note.order \in Orders
  BY DEF SendNotification, RouterInv, Notifications
<1>e. PICK e \in Epochs : e = Head(router.targets)
  BY <1>2
<1>o. PICK o \in Orders : o = router.note.order
  BY <1>3
<1> DEFINE rest == {opposite \in stored[e] \cap Opposite(o) : ~SameTrader(o, opposite)}
           inserting == [pc |-> "inserting", order |-> o, rest |-> rest]
           pairs == {Pair(e, o, opposite) : opposite \in rest}
<1>4. /\ mat[e].pc = "select" /\ router.pc = "sending"
      /\ router' = [router EXCEPT !.targets = Tail(@)]
      /\ UNCHANGED <<own, curr, prev, closed, merged, forward, generated, done, notified>>
  BY <1>e DEF SendNotification
<1>5. mat[e].rest = {}
  BY <1>4 DEF MatInv
<1>6. rest \subseteq Orders /\ rest \subseteq Opposite(o)
  BY DEF Opposite, Orders
<1>7. /\ router' \in [pc : {"select", "locking", "sending"}, note : Notifications \cup {NoNote},
                      targets : TargetLists]
      /\ RouterInv' /\ NeverSendsOnClosed'
  <2>1. router'.pc = "sending" /\ router'.targets = Tail(router.targets) /\ router'.note = router.note
    BY <1>4 DEF GenTypeOK
  <2>2. router' \in [pc : {"select", "locking", "sending"}, note : Notifications \cup {NoNote},
                     targets : TargetLists]
    BY <1>2, <1>4 DEF GenTypeOK
  <2>3. NeverSendsOnClosed'
    BY <1>2, <1>4, <2>1 DEF OpenInv, NeverSendsOnClosed
  <2> QED BY <1>3, <2>1, <2>2, <2>3 DEF RouterInv
<1>8. CASE /\ stored' = [stored EXCEPT ![e] = @ \cup {o}]
           /\ \/ mat' = [mat EXCEPT ![e] = inserting] /\ missed' = missed \ pairs
              \/ missed' = missed \cup pairs /\ UNCHANGED mat
  <2>1. /\ stored' \in [Epochs -> SUBSET Orders]
        /\ \A f \in Epochs : stored'[f] = IF f = e THEN stored[f] \cup {o} ELSE stored[f]
    BY <1>8 DEF GenTypeOK
  <2>2. /\ mat' \in [Epochs -> [pc : {"none", "select", "inserting", "ended"},
                                order : Orders \cup {NoOrder}, rest : SUBSET Orders]]
        /\ \A f \in Epochs : mat'[f] = mat[f] \/ (f = e /\ mat'[f] = inserting)
    <3>1. inserting \in [pc : {"none", "select", "inserting", "ended"},
                         order : Orders \cup {NoOrder}, rest : SUBSET Orders]
      BY <1>6
    <3> HIDE DEF inserting, pairs
    <3>2. UNCHANGED mat \/ mat' = [mat EXCEPT ![e] = inserting]
      BY <1>8
    <3> QED BY <3>1, <3>2 DEF GenTypeOK
  <2>3. missed' \subseteq Epochs \X Buys \X Sells
    <3>1. pairs \subseteq Epochs \X Buys \X Sells
      BY <1>6, PairType
    <3> HIDE DEF pairs
    <3>2. missed' \subseteq missed \cup pairs
      BY <1>8
    <3> QED BY <3>1, <3>2 DEF GenTypeOK
  <2>4. GenTypeOK'
    BY <1>4, <1>7, <2>1, <2>2, <2>3 DEF GenTypeOK, TargetLists
  <2>5. MatInv'
    BY <1>3, <1>6, <2>2 DEF MatInv
  <2>6. OpenInv'
    BY <1>4, <1>7, <2>2 DEF OpenInv
  <2>7. /\ \A f \in Epochs, b \in Buys, s \in Sells :
             <<f, b, s>> \in Accounted(f) => <<f, b, s>> \in Accounted(f)'
        /\ \A opposite \in rest : Pair(e, o, opposite) \in Accounted(e)'
    <3>1. CASE mat' = [mat EXCEPT ![e] = inserting] /\ missed' = missed \ pairs
      <4>1. mat'[e] = inserting /\ \A f \in Epochs : f # e => mat'[f] = mat[f]
        BY <1>2, <3>1 DEF GenTypeOK
      <4>2. Pending(e) = {} /\ \A f \in Epochs : f # e => Pending(f)' = Pending(f)
        BY <1>5, <4>1 DEF Pending
      <4>3. Pending(e)' = pairs
        BY <4>1 DEF Pending
      <4>4. \A f \in Epochs, b \in Buys, s \in Sells : f # e => <<f, b, s>> \notin pairs
        BY DEF Pair
      <4> HIDE DEF pairs
      <4>5. ASSUME NEW f \in Epochs, NEW b \in Buys, NEW s \in Sells, <<f, b, s>> \in Accounted(f)
            PROVE  <<f, b, s>> \in Accounted(f)'
        BY <1>4, <3>1, <4>2, <4>3, <4>4, <4>5 DEF Accounted
      <4>6. pairs \subseteq Accounted(e)'
        BY <4>3 DEF Accounted
      <4> QED BY <4>5, <4>6 DEF pairs
    <3>2. CASE missed' = missed \cup pairs /\ UNCHANGED mat
      BY <1>4, <3>2 DEF Accounted, Pending
    <3> QED BY <1>8, <3>1, <3>2
  <2>8. PairsGenerated'
    <3> SUFFICES ASSUME NEW f \in Epochs, NEW b \in stored'[f] \cap Buys,
                        NEW s \in stored'[f] \cap Sells, <<b, s>> \notin own'
                 PROVE  <<f, b, s>> \in Accounted(f)'
      BY DEF PairsGenerated, Accounted
    <3>1. CASE b \in stored[f] /\ s \in stored[f]
      <4>1. <<f, b, s>> \in Accounted(f)
        BY <1>4, <3>1 DEF PairsGenerated, Accounted
      <4> QED BY <2>7, <4>1
    <3>2. CASE ~(b \in stored[f] /\ s \in stored[f])
      <4>1. f = e /\ (o = b \/ o = s)
        BY <2>1, <3>2
      <4>2. b \notin Sells /\ s \notin Buys /\ <<s, b>> \notin own
        BY GeneratorAssumption DEF GenTypeOK
      <4>3. ~SameTrader(b, s) /\ ~SameTrader(s, b)
        BY <1>4, <4>2 DEF SameTrader
      <4>4. CASE o = b
        <5>1. s \in rest
          BY <2>1, <4>1, <4>2, <4>3, <4>4 DEF Opposite
        <5> QED BY <2>7, <4>1, <4>4, <5>1 DEF Pair
      <4>5. CASE o = s
        <5>1. b \in rest
          BY <2>1, <4>1, <4>2, <4>3, <4>5 DEF Opposite
        <5> QED BY <2>7, <4>1, <4>2, <4>5, <5>1 DEF Pair
      <4> QED BY <4>1, <4>4, <4>5
    <3> QED BY <3>1, <3>2
  <2> QED BY <1>4, <1>7, <2>2, <2>4, <2>5, <2>6, <2>8
<1>9. CASE UNCHANGED <<mat, missed>> /\ (UNCHANGED stored \/ stored' = [stored EXCEPT ![e] = @ \ {o}])
  <2>1. /\ stored' \in [Epochs -> SUBSET Orders]
        /\ \A f \in Epochs : stored'[f] \subseteq stored[f]
    <3>1. stored \in [Epochs -> SUBSET Orders]
      BY DEF GenTypeOK
    <3>2. CASE UNCHANGED stored
      BY <3>1, <3>2
    <3>3. CASE stored' = [stored EXCEPT ![e] = @ \ {o}]
      BY <3>1, <3>3
    <3> QED BY <1>9, <3>2, <3>3
  <2>2. GenTypeOK'
    BY <1>4, <1>7, <1>9, <2>1 DEF GenTypeOK, TargetLists
  <2>3. MatInv' /\ OpenInv'
    BY <1>4, <1>7, <1>9 DEF MatInv, OpenInv
  <2>4. PairsGenerated'
    <3>1. \A f \in Epochs : Accounted(f)' = Accounted(f)
      BY <1>4, <1>9 DEF Accounted, Pending
    <3> QED BY <1>4, <2>1, <3>1, PairsStay
  <2> QED BY <1>4, <1>7, <1>9, <2>2, <2>3, <2>4
<1>10. CASE router.note.kind = "open"
  <2>1. InsertOrderFragment(e, o)
    BY <1>10, <1>e, <1>o DEF SendNotification
  <2> QED BY <1>8, <1>9, <2>1 DEF InsertOrderFragment
<1>11. CASE router.note.kind # "open"
  <2>1. RemoveOrderFragment(e, o)
    BY <1>11, <1>e, <1>o DEF SendNotification
  <2> QED BY <1>9, <2>1 DEF RemoveOrderFragment
<1> QED BY <1>10, <1>11

\* A step of one matrix that moves computations between accounts.
LEMMA MatrixMoves ==
  ASSUME GenInv, NEW e \in Epochs,
         NEW to \in [pc : {"none", "select", "inserting", "ended"},
                     order : Orders \cup {NoOrder}, rest : SUBSET Orders],
         mat' = [mat EXCEPT ![e] = to],
         to.pc # "none", mat[e].pc # "none",
         IF to.pc = "inserting" THEN to.order = mat[e].order /\ mat[e].pc = "inserting"
                                     /\ to.rest \subseteq mat[e].rest
                                ELSE to.rest = {},
         \/ UNCHANGED <<forward, generated>> /\ Pending(e) \ Pending(e)' \subseteq missed'
         \/ UNCHANGED <<missed, generated>> /\ forward[e] = {}
            /\ forward' = [forward EXCEPT ![e] = Pending(e) \ Pending(e)'],
         missed \subseteq missed', missed' \subseteq missed \cup Pending(e),
         UNCHANGED <<own, curr, prev, closed, router, merged, stored, done, notified>>
  PROVE  /\ GenInv'
         /\ \A f \in Epochs : mat'[f].pc = "none" <=> mat[f].pc = "none"
<1> USE DEF GenInv
<1>1. /\ mat' \in [Epochs -> [pc : {"none", "select", "inserting", "ended"},
                              order : Orders \cup {NoOrder}, rest : SUBSET Orders]]
      /\ \A f \in Epochs : mat'[f] = IF f = e THEN to ELSE mat[f]
  BY DEF GenTypeOK
<1>2. Pending(e) \subseteq Epochs \X Buys \X Sells
  BY PendingType
<1>3. /\ forward' \in [Epochs -> SUBSET (Epochs \X Buys \X Sells)]
      /\ missed' \subseteq Epochs \X Buys \X Sells
      /\ generated' = generated
  BY <1>2 DEF GenTypeOK
<1>4. GenTypeOK'
  BY <1>1, <1>3 DEF GenTypeOK
<1>5. MatInv'
  BY <1>1 DEF MatInv
<1>6. RouterInv' /\ OpenInv'
  BY <1>1 DEF RouterInv, OpenInv, NeverSendsOnClosed
<1>7. PairsGenerated'
  <2>1. ASSUME NEW f \in Epochs PROVE Accounted(f) \subseteq Accounted(f)'
    <3>1. CASE f = e
      <4>1. Pending(e) \subseteq Pending(e)' \cup missed' \cup forward'[e]
        BY DEF GenTypeOK
      <4>2. forward[e] \subseteq forward'[e]
        BY DEF GenTypeOK
      <4> QED BY <1>3, <3>1, <4>1, <4>2 DEF Accounted
    <3>2. CASE f # e
      <4>1. Pending(f)' = Pending(f) /\ forward'[f] = forward[f]
        BY <1>1, <3>2 DEF Pending, GenTypeOK
      <4> QED BY <1>3, <4>1 DEF Accounted
    <3> QED BY <3>1, <3>2
  <2> QED BY <2>1, PairsStay
<1> QED BY <1>1, <1>4, <1>5, <1>6, <1>7

\* A pair leaves the iterator of a matrix, or all of them do.
LEMMA MatrixKeeps ==
  ASSUME GenInv, NEW e \in Epochs,
         SendComputation(e) \/ CursorFails(e) \/ InsertionReturns(e) \/ MatrixEnds(e)
  PROVE  /\ GenInv' /\ UNCHANGED <<curr, prev, closed>>
         /\ \A f \in Epochs : mat'[f].pc = "none" <=> mat[f].pc = "none"
<1> USE DEF GenInv
<1> DEFINE MatType == [pc : {"none", "select", "inserting", "ended"},
                       order : Orders \cup {NoOrder}, rest : SUBSET Orders]
<1>1. mat[e] \in MatType
  BY DEF GenTypeOK
<1>2. CASE SendComputation(e) \/ CursorFails(e)
  <2>1. PICK opposite \in mat[e].rest :
          /\ mat' = [mat EXCEPT ![e].rest = @ \ {opposite}]
          /\ \/ /\ SendComputation(e)
                /\ forward' = [forward EXCEPT ![e] = {Pair(e, mat[e].order, opposite)}]
             \/ CursorFails(e) /\ missed' = missed \cup {Pair(e, mat[e].order, opposite)}
    BY <1>2 DEF SendComputation, CursorFails
  <2> DEFINE to == [mat[e] EXCEPT !.rest = @ \ {opposite}]
  <2>2. /\ to \in MatType /\ to.pc = "inserting" /\ to.order = mat[e].order
        /\ to.rest = mat[e].rest \ {opposite}
        /\ mat[e].pc = "inserting" /\ mat' = [mat EXCEPT ![e] = to]
    BY <1>1, <1>2, <2>1 DEF SendComputation, CursorFails
  <2>3. mat'[e] = to
    BY <2>2 DEF GenTypeOK
  <2>4. Pending(e) \ Pending(e)' = {Pair(e, mat[e].order, opposite)}
    <3>1. Pending(e)' = {Pair(e, mat[e].order, other) : other \in mat[e].rest \ {opposite}}
      BY <2>2, <2>3 DEF Pending
    <3>2. \A other \in mat[e].rest \ {opposite} :
            Pair(e, mat[e].order, other) # Pair(e, mat[e].order, opposite)
      BY DEF Pair
    <3> QED BY <3>1, <3>2 DEF Pending
  <2> HIDE DEF to
  <2>5. CASE SendComputation(e) /\ forward' = [forward EXCEPT ![e] = {Pair(e, mat[e].order, opposite)}]
    <3>1. /\ forward[e] = {} /\ UNCHANGED <<missed, generated>>
          /\ UNCHANGED <<own, curr, prev, closed, router, merged, stored, done, notified>>
      BY <2>5 DEF SendComputation
    <3> QED BY <2>2, <2>4, <2>5, <3>1, MatrixMoves
  <2>6. CASE CursorFails(e) /\ missed' = missed \cup {Pair(e, mat[e].order, opposite)}
    <3>1. /\ UNCHANGED <<forward, generated>>
          /\ UNCHANGED <<own, curr, prev, closed, router, merged, stored, done, notified>>
      BY <2>6 DEF CursorFails
    <3> QED BY <2>2, <2>4, <2>6, <3>1, MatrixMoves
  <2> QED BY <2>1, <2>5, <2>6
<1>3. CASE InsertionReturns(e)
  <2>1. /\ MatIdle \in MatType /\ MatIdle.pc = "select" /\ MatIdle.rest = {}
    BY DEF MatIdle
  <2> QED BY <1>3, <2>1, MatrixMoves DEF InsertionReturns
<1>4. CASE MatrixEnds(e)
  <2> DEFINE to == [mat[e] EXCEPT !.pc = "ended"]
  <2>1. /\ to \in MatType /\ to.pc = "ended" /\ to.rest = mat[e].rest /\ to.order = mat[e].order
        /\ mat[e].pc = "select" /\ mat[e].rest = {}
        /\ mat' = [mat EXCEPT ![e] = to]
    BY <1>1, <1>4 DEF MatrixEnds, MatInv
  <2>2. Pending(e) = {}
    BY <2>1 DEF Pending
  <2> HIDE DEF to
  <2> QED BY <1>4, <2>1, <2>2, MatrixMoves DEF MatrixEnds
<1> QED BY <1>2, <1>3, <1>4

\* The goroutines of Merge, and the shutdown.
LEMMA MergeKeeps ==
  ASSUME GenInv,
         (\E e \in Epochs : BroadcastComputations(e) \/ ForwardComputation(e)) \/ Shutdown
  PROVE  GenInv' /\ UNCHANGED <<curr, prev, closed, mat>>
<1> USE DEF GenInv
<1>1. UNCHANGED <<own, curr, prev, closed, router, mat, stored, notified>>
  BY DEF BroadcastComputations, ForwardComputation, Shutdown
<1>2. MatInv' /\ RouterInv' /\ OpenInv'
  BY <1>1 DEF MatInv, RouterInv, OpenInv, NeverSendsOnClosed
<1>3. \A f \in Epochs : Pending(f)' = Pending(f)
  BY <1>1 DEF Pending
<1>4. ASSUME NEW e \in Epochs, BroadcastComputations(e)
      PROVE  GenTypeOK' /\ \A f \in Epochs : Accounted(f)' = Accounted(f)
  BY <1>1, <1>3, <1>4 DEF BroadcastComputations, GenTypeOK, Accounted
<1>5. ASSUME NEW e \in Epochs, ForwardComputation(e)
      PROVE  GenTypeOK' /\ \A f \in Epochs : Accounted(f) \subseteq Accounted(f)'
  <2>1. /\ generated' = generated \cup forward[e]
        /\ forward' \in [Epochs -> SUBSET (Epochs \X Buys \X Sells)]
        /\ \A f \in Epochs : forward'[f] = IF f = e THEN {} ELSE forward[f]
        /\ UNCHANGED <<merged, missed, done>>
    BY <1>5 DEF ForwardComputation, GenTypeOK
  <2>2. GenTypeOK'
    BY <1>1, <2>1 DEF GenTypeOK
  <2> QED BY <1>3, <2>1, <2>2 DEF Accounted
<1>6. ASSUME Shutdown
      PROVE  GenTypeOK' /\ \A f \in Epochs : Accounted(f) \subseteq Accounted(f)'
  <2>1. /\ done' = TRUE /\ missed' = missed \cup UNION {forward[f] : f \in Epochs}
        /\ forward' = [f \in Epochs |-> {}] /\ UNCHANGED <<merged, generated>>
    BY <1>6 DEF Shutdown
  <2>2. \A f \in Epochs : forward[f] \subseteq missed'
    BY <2>1
  <2>3. missed' \subseteq Epochs \X Buys \X Sells
    BY <2>1 DEF GenTypeOK
  <2>4. GenTypeOK'
    BY <1>1, <2>1, <2>3 DEF GenTypeOK
  <2> QED BY <1>3, <2>1, <2>2, <2>4 DEF Accounted
<1>7. PairsGenerated'
  BY <1>1, <1>4, <1>5, <1>6, PairsStay
<1> QED BY <1>1, <1>2, <1>4, <1>5, <1>6, <1>7

\* Every step of the generator keeps its invariant, and starts no matrix.
LEMMA GenNextKeeps ==
  ASSUME GenInv, GenNext
  PROVE  /\ GenInv' /\ UNCHANGED <<curr, prev, closed>>
         /\ \A e \in Epochs : mat'[e].pc = "none" <=> mat[e].pc = "none"
<1>1. CASE \E note \in Notifications : ReceiveNotification(note)
  BY <1>1, RouterKeeps
<1>2. CASE RouterStep
  BY <1>2, RouterKeeps, NotificationKeeps DEF RouterStep
<1>3. ASSUME NEW e \in Epochs, MatrixStep(e) \/ CursorFails(e)
      PROVE  /\ GenInv' /\ UNCHANGED <<curr, prev, closed>>
             /\ \A f \in Epochs : mat'[f].pc = "none" <=> mat[f].pc = "none"
  <2>1. CASE SendComputation(e) \/ CursorFails(e) \/ InsertionReturns(e) \/ MatrixEnds(e)
    BY <2>1, MatrixKeeps
  <2>2. CASE BroadcastComputations(e) \/ ForwardComputation(e)
    BY <2>2, MergeKeeps
  <2> QED BY <1>3, <2>1, <2>2 DEF MatrixStep
<1>4. CASE Shutdown
  BY <1>4, MergeKeeps
<1> QED BY <1>1, <1>2, <1>3, <1>4 DEF GenNext

\* OnChangeEpoch of the generator, for an epoch that has no matrix.
LEMMA GenOnChangeEpochKeeps ==
  ASSUME GenInv, NEW e \in Epochs, mat[e].pc = "none", GenOnChangeEpoch(e)
  PROVE  GenInv'
<1> USE DEF GenInv
<1>1. /\ router.pc # "sending"
      /\ closed' = closed \cup ({prev} \ {None}) /\ prev' = curr /\ curr' = e
      /\ mat' = [mat EXCEPT ![e] = MatIdle]
      /\ UNCHANGED <<own, router, merged, forward, stored, generated, missed, done, notified>>
  BY DEF GenOnChangeEpoch, MatMuFree
<1>2. /\ MatIdle \in [pc : {"none", "select", "inserting", "ended"},
                      order : Orders \cup {NoOrder}, rest : SUBSET Orders]
      /\ MatIdle.pc = "select" /\ MatIdle.rest = {}
  BY DEF MatIdle
<1>3. /\ mat' \in [Epochs -> [pc : {"none", "select", "inserting", "ended"},
                              order : Orders \cup {NoOrder}, rest : SUBSET Orders]]
      /\ \A f \in Epochs : mat'[f] = IF f = e THEN MatIdle ELSE mat[f]
  BY <1>1, <1>2 DEF GenTypeOK
<1>4. None \notin Epochs
  BY GeneratorAssumption DEF None
<1>5. GenTypeOK'
  BY <1>1, <1>3 DEF GenTypeOK
<1>6. MatInv' /\ RouterInv'
  BY <1>1, <1>2, <1>3 DEF MatInv, RouterInv
<1>7. OpenInv'
  <2>1. e # curr /\ e # prev /\ e \notin closed
    BY DEF OpenInv
  <2>2. curr \notin closed' /\ curr' \notin closed'
    BY <1>1, <1>4, <2>1 DEF OpenInv
  <2>3. curr' # prev'
    BY <1>1, <2>1
  <2>4. \A f \in Epochs : f \in {curr', prev'} \cup closed' => mat'[f].pc # "none"
    BY <1>1, <1>2, <1>3 DEF OpenInv
  <2>5. NeverSendsOnClosed'
    BY <1>1 DEF NeverSendsOnClosed
  <2> QED BY <1>1, <2>2, <2>3, <2>4, <2>5 DEF OpenInv
<1>8. PairsGenerated'
  <2>1. ASSUME NEW f \in Epochs PROVE Accounted(f) \subseteq Accounted(f)'
    <3>1. CASE f = e
      <4>1. Pending(e) = {}
        BY DEF MatInv, Pending
      <4> QED BY <1>1, <3>1, <4>1 DEF Accounted
    <3>2. CASE f # e
      BY <1>1, <1>3, <3>2 DEF Accounted, Pending
    <3> QED BY <3>1, <3>2
  <2> QED BY <1>1, <2>1, PairsStay
<1> QED BY <1>5, <1>6, <1>7, <1>8

\* The initial states satisfy the inductive invariant.
LEMMA InitIInv == EpochInit => EpochIInv
<1> SUFFICES ASSUME EpochInit PROVE EpochIInv
  OBVIOUS
<1>1. /\ MatNone \in [pc : {"none", "select", "inserting", "ended"},
                      order : Orders \cup {NoOrder}, rest : SUBSET Orders]
      /\ MatNone.pc = "none" /\ MatNone.rest = {}
      /\ RouterIdle.pc = "select"
      /\ Unlocked.epoch = None /\ Unlocked.step = "unlocked"
  BY DEF MatNone, RouterIdle, Unlocked
<1>2. /\ RouterIdle \in [pc : {"select", "locking", "sending"}, note : Notifications \cup {NoNote},
                         targets : TargetLists]
      /\ Unlocked \in [epoch : Epochs \cup {None}, step : {"unlocked", "orderbook", "generator"}]
  BY DEF RouterIdle, Unlocked, TargetLists
<1>3. stored \in [Epochs -> SUBSET Orders]
  BY DEF EpochInit, GenInit, Orders
<1>4. GenTypeOK
  <2>1. /\ own \in SUBSET (Buys \X Sells) /\ {curr, prev} \subseteq Epochs \cup {None}
        /\ closed \subseteq Epochs /\ merged \subseteq Epochs
        /\ generated \cup missed \subseteq Epochs \X Buys \X Sells
    BY GeneratorAssumption DEF EpochInit, GenInit
  <2>2. mat \in [Epochs -> [pc : {"none", "select", "inserting", "ended"},
                            order : Orders \cup {NoOrder}, rest : SUBSET Orders]]
    BY <1>1 DEF EpochInit, GenInit
  <2>3. forward \in [Epochs -> SUBSET (Epochs \X Buys \X Sells)]
    BY DEF EpochInit, GenInit
  <2>4. done \in BOOLEAN /\ notified \in 0 .. MaxNotifications
    <3>1. done = FALSE /\ notified = 0
      BY DEF EpochInit, GenInit
    <3>2. done \in BOOLEAN
      BY <3>1
    <3>3. notified \in 0 .. MaxNotifications
      BY <3>1, GeneratorAssumption
    <3> QED BY <3>2, <3>3
  <2>5. router \in [pc : {"select", "locking", "sending"}, note : Notifications \cup {NoNote},
                    targets : TargetLists]
    BY <1>2 DEF EpochInit, GenInit
  <2> QED BY <1>3, <2>1, <2>2, <2>3, <2>4, <2>5 DEF GenTypeOK, TargetLists
<1>5. \A e \in Epochs : mat[e] = MatNone
  BY DEF EpochInit, GenInit
<1>6. MatInv /\ RouterInv /\ OpenInv
  BY <1>1, <1>5, GeneratorAssumption
     DEF EpochInit, GenInit, MatInv, RouterInv, OpenInv, NeverSendsOnClosed, None
<1>7. PairsGenerated
  <2> PICK restored \in SUBSET Orders :
        /\ stored = [e \in Epochs |-> IF e = 1 THEN restored ELSE {}]
        /\ missed = {1} \X (restored \cap Buys) \X (restored \cap Sells)
    BY DEF EpochInit, GenInit
  <2> QED BY DEF PairsGenerated
<1>8. EpochTypeOK
  BY <1>2, <1>4, GeneratorAssumption DEF EpochInit, EpochTypeOK
<1>9. FreshInv /\ PhaseInv
  BY <1>1, <1>5, GeneratorAssumption DEF EpochInit, GenInit, FreshInv, PhaseInv, None
<1> QED BY <1>4, <1>6, <1>7, <1>8, <1>9 DEF EpochIInv, GenInv

\* A step of the generator keeps the invariant of the node.
LEMMA GeneratorStepKeeps ==
  ASSUME EpochIInv, GenNext, UNCHANGED epochVars
  PROVE  EpochIInv'
<1>1. /\ GenInv' /\ UNCHANGED <<curr, prev, closed>>
      /\ \A e \in Epochs : mat'[e].pc = "none" <=> mat[e].pc = "none"
  BY GenNextKeeps DEF EpochIInv
<1>2. UNCHANGED <<epoch, changes, changing, epochCurr, epochPrev, networks, bookCurr, bookPrev>>
  BY DEF epochVars
<1>3. EpochTypeOK'
  BY <1>1, <1>2 DEF EpochIInv, EpochTypeOK, GenInv
<1>4. FreshInv' /\ PhaseInv'
  BY <1>1, <1>2 DEF EpochIInv, FreshInv, PhaseInv
<1> QED BY <1>1, <1>3, <1>4 DEF EpochIInv

\* The steps of a change of the epoch that leave the generator alone.
LEMMA EpochStepKeeps ==
  ASSUME EpochIInv, NEW e \in Epochs, SyncEpoch(e) \/ NoPod(e) \/ ConnectEpoch(e) \/ ReplaceEpoch
  PROVE  EpochIInv'
<1> USE DEF EpochIInv
<1>1. UNCHANGED <<own, curr, prev, closed, router, mat, merged, forward, stored, generated,
                  missed, done, notified>>
  BY DEF SyncEpoch, NoPod, ConnectEpoch, ReplaceEpoch, genVars
<1>2. GenTypeOK'
  BY <1>1 DEF GenInv, GenTypeOK
<1>3. MatInv' /\ RouterInv' /\ OpenInv' /\ PairsGenerated'
  BY <1>1 DEF GenInv, MatInv, RouterInv, OpenInv, NeverSendsOnClosed, PairsGenerated, Pending
<1>4. None \notin Epochs /\ None = 0 /\ Epochs \subseteq Nat
  BY GeneratorAssumption DEF None
<1>5. Unlocked.step = "unlocked" /\ Unlocked.epoch = None
  BY DEF Unlocked
<1>6. CASE SyncEpoch(e)
  <2>1. /\ e > epoch /\ epoch' = e /\ changes \subseteq changes' /\ changes' \subseteq changes \cup {e}
        /\ UNCHANGED <<changing, epochCurr, epochPrev, networks, bookCurr, bookPrev>>
        /\ changing = Unlocked
    BY <1>6 DEF SyncEpoch
  <2>2. EpochTypeOK'
    BY <1>2, <2>1 DEF EpochTypeOK
  <2>3. epoch \in Nat /\ e \in Nat /\ changes \subseteq Nat
    BY <1>4 DEF EpochTypeOK
  <2>4. FreshInv'
    BY <1>1, <1>4, <1>5, <2>1, <2>3 DEF FreshInv
  <2>5. PhaseInv'
    BY <1>1, <2>1 DEF PhaseInv
  <2> QED BY <1>2, <1>3, <2>2, <2>4, <2>5 DEF GenInv
<1>7. CASE NoPod(e)
  <2>1. /\ changes' = changes \ {e}
        /\ UNCHANGED <<epoch, changing, epochCurr, epochPrev, networks, bookCurr, bookPrev>>
    BY <1>7 DEF NoPod
  <2>2. EpochTypeOK' /\ FreshInv' /\ PhaseInv'
    BY <1>1, <1>2, <2>1 DEF EpochTypeOK, FreshInv, PhaseInv
  <2> QED BY <1>2, <1>3, <2>2 DEF GenInv
<1>8. CASE ConnectEpoch(e)
  <2>1. /\ e \in changes /\ changing = Unlocked /\ changes' = changes \ {e}
        /\ networks' = networks \cup {e} /\ bookPrev' = bookCurr /\ bookCurr' = e
        /\ changing' = [epoch |-> e, step |-> "orderbook"]
        /\ UNCHANGED <<epoch, epochCurr, epochPrev>>
    BY <1>8 DEF ConnectEpoch
  <2>2. EpochTypeOK'
    BY <1>2, <2>1 DEF EpochTypeOK
  <2>3. FreshInv'
    BY <1>1, <1>4, <2>1 DEF FreshInv
  <2>4. PhaseInv'
    BY <1>1, <1>4, <1>5, <2>1 DEF PhaseInv
  <2> QED BY <1>2, <1>3, <2>2, <2>3, <2>4 DEF GenInv
<1>9. CASE ReplaceEpoch
  <2>1. /\ changing.step = "generator" /\ networks' = networks \ {epochPrev}
        /\ epochPrev' = epochCurr /\ epochCurr' = changing.epoch /\ changing' = Unlocked
        /\ UNCHANGED <<epoch, changes, bookCurr, bookPrev>>
    BY <1>9 DEF ReplaceEpoch
  <2>2. EpochTypeOK'
    <3>1. Unlocked \in [epoch : Epochs \cup {None}, step : {"unlocked", "orderbook", "generator"}]
      BY DEF Unlocked
    <3> QED BY <1>2, <2>1, <3>1 DEF EpochTypeOK
  <2>3. FreshInv'
    BY <1>1, <1>4, <1>5, <2>1 DEF FreshInv, EpochTypeOK
  <2>4. PhaseInv'
    <3>1. epochPrev = None \/ (epochPrev # epochCurr /\ epochPrev # changing.epoch)
      BY <2>1 DEF PhaseInv, GenInv, OpenInv
    <3> QED BY <1>1, <1>5, <2>1, <3>1 DEF PhaseInv
  <2> QED BY <1>2, <1>3, <2>2, <2>3, <2>4 DEF GenInv
<1> QED BY <1>6, <1>7, <1>8, <1>9

\* The step of a change that takes the generator along.
LEMMA ChangeGeneratorKeeps ==
  ASSUME EpochIInv, ChangeGenerator
  PROVE  EpochIInv'
<1> USE DEF EpochIInv
<1>1. /\ changing.step = "orderbook" /\ GenOnChangeEpoch(changing.epoch)
      /\ changing' = [changing EXCEPT !.step = "generator"]
      /\ UNCHANGED <<epoch, changes, epochCurr, epochPrev, networks, bookCurr, bookPrev>>
  BY DEF ChangeGenerator
<1>2. PICK e \in Epochs : e = changing.epoch
  BY <1>1 DEF EpochTypeOK, FreshInv
<1>3. mat[e].pc = "none"
  BY <1>1, <1>2 DEF FreshInv
<1>4. GenInv'
  BY <1>1, <1>2, <1>3, GenOnChangeEpochKeeps
<1>5. /\ closed' = closed \cup ({prev} \ {None}) /\ prev' = curr /\ curr' = e
      /\ \A f \in Epochs : f # e => mat'[f] = mat[f]
  BY <1>1, <1>2 DEF GenOnChangeEpoch, GenInv, GenTypeOK
<1>6. changing'.step = "generator" /\ changing'.epoch = e
      /\ changing' \in [epoch : Epochs \cup {None}, step : {"unlocked", "orderbook", "generator"}]
  BY <1>1, <1>2 DEF EpochTypeOK
<1>7. EpochTypeOK'
  BY <1>1, <1>4, <1>6 DEF EpochTypeOK, GenInv
<1>8. FreshInv'
  BY <1>1, <1>2, <1>5, <1>6 DEF FreshInv
<1>9. PhaseInv'
  BY <1>1, <1>2, <1>5, <1>6 DEF PhaseInv
<1> QED BY <1>4, <1>7, <1>8, <1>9

\* Every step keeps the inductive invariant.
LEMMA NextIInv == EpochIInv /\ [EpochNext]_nodeVars => EpochIInv'
<1> SUFFICES ASSUME EpochIInv, [EpochNext]_nodeVars PROVE EpochIInv'
  OBVIOUS
<1>1. CASE GenNext /\ UNCHANGED epochVars
  BY <1>1, GeneratorStepKeeps
<1>2. ASSUME NEW e \in Epochs, SyncEpoch(e) \/ ChangeStep(e) PROVE EpochIInv'
  BY <1>2, EpochStepKeeps, ChangeGeneratorKeeps DEF ChangeStep
<1>3. CASE UNCHANGED nodeVars
  <2>1. /\ UNCHANGED <<own, curr, prev, closed, router, mat, merged, forward, stored, generated,
                       missed, done, notified>>
        /\ UNCHANGED <<epoch, changes, changing, epochCurr, epochPrev, networks, bookCurr, bookPrev>>
    BY <1>3 DEF nodeVars, genVars, epochVars
  <2>2. GenTypeOK' /\ EpochTypeOK'
    BY <2>1 DEF EpochIInv, GenInv, GenTypeOK, EpochTypeOK
  <2>3. MatInv' /\ RouterInv' /\ OpenInv' /\ PairsGenerated'
    BY <2>1 DEF EpochIInv, GenInv, MatInv, RouterInv, OpenInv, NeverSendsOnClosed, PairsGenerated, Pending
  <2>4. FreshInv' /\ PhaseInv'
    BY <2>1 DEF EpochIInv, FreshInv, PhaseInv
  <2> QED BY <2>2, <2>3, <2>4 DEF EpochIInv, GenInv
<1> QED BY <1>1, <1>2, <1>3 DEF EpochNext
-----------------------------------------------------------------------------

\* The inductive invariant holds in every state of every behaviour.
THEOREM EpochInvariant == EpochSpec => []EpochIInv
BY InitIInv, NextIInv, PTL DEF EpochSpec

\* The variables of the generator and of the epochs of the node keep their types.
THEOREM EpochTypeCorrect == EpochSpec => []EpochTypeOK
<1>1. EpochIInv => EpochTypeOK
  BY DEF EpochIInv
<1> QED BY <1>1, EpochInvariant, PTL

\* However notifications, failures of the store and changes of the epoch interleave, the
\* computation of every stored buy and sell of different traders is generated, is on its
\* way, or was given up for a reason the code has.
THEOREM EveryPairGenerated == EpochSpec => []PairsGenerated
<1>1. EpochIInv => PairsGenerated
  BY DEF EpochIInv, GenInv
<1> QED BY <1>1, EpochInvariant, PTL

\* The router never sends on a channel that OnChangeEpoch of the generator has closed:
\* matMu makes the two exclude each other, and no epoch comes back.
THEOREM NoSendOnClosed == EpochSpec => []NeverSendsOnClosed
<1>1. EpochIInv => NeverSendsOnClosed
  BY DEF EpochIInv, GenInv, OpenInv
<1> QED BY <1>1, EpochInvariant, PTL

\* Between changes the Ome, the orderbook, the generator and the smpcer are in the same
\* two epochs, in whatever order the goroutines of OnChangeEpoch get epochMu.
THEOREM PartsAgree == EpochSpec => []EpochsAgree
<1>1. ASSUME EpochIInv PROVE EpochsAgree
  <2>1. changing = Unlocked => changing.step = "unlocked"
    BY DEF Unlocked
  <2>2. changing.step \in {"unlocked", "orderbook", "generator"}
    BY <1>1 DEF EpochIInv, EpochTypeOK
  <2>3. {curr, prev} \ {None} \subseteq networks
    BY <1>1, <2>2 DEF EpochIInv, PhaseInv
  <2> QED BY <1>1, <2>1, <2>3 DEF EpochIInv, PhaseInv, EpochsAgree
<1> QED BY <1>1, EpochInvariant, PTL
-----------------------------------------------------------------------------
(* Nothing gets stuck: the matrices that the router waits for have a goroutine, and one
   ends only after it was closed. *)

LiveInv ==
  /\ router.pc = "sending" => \A i \in DOMAIN router.targets : mat[router.targets[i]].pc # "none"
  /\ \A e \in Epochs : mat[e].pc = "ended" => e \in closed

\* What a step may do to the matrices.
MatricesGoOn ==
  /\ closed \subseteq closed'
  /\ \A e \in Epochs :
       /\ mat'[e].pc = "none" => mat[e].pc = "none"
       /\ mat'[e].pc = "ended" => mat[e].pc = "ended" \/ e \in closed

LEMMA StepsGoOn ==
  ASSUME EpochIInv, EpochNext
  PROVE  MatricesGoOn
<1> USE DEF EpochIInv, GenInv
<1>0. mat \in [Epochs -> [pc : {"none", "select", "inserting", "ended"},
                          order : Orders \cup {NoOrder}, rest : SUBSET Orders]]
  BY DEF GenTypeOK
<1>1. CASE UNCHANGED <<mat, closed>>
  BY <1>1 DEF MatricesGoOn
<1>2. ASSUME NEW e \in Epochs, NEW to, to.pc # "none", to.pc = "ended" => e \in closed,
             mat' = [mat EXCEPT ![e] = to], closed \subseteq closed'
      PROVE  MatricesGoOn
  BY <1>0, <1>2 DEF MatricesGoOn
<1>3. CASE SendNotification
  <2>1. PICK e \in Epochs : e = Head(router.targets)
    <3>1. router.targets \in TargetLists /\ router.targets # <<>>
      BY <1>3 DEF GenTypeOK, TargetLists, SendNotification
    <3> QED BY <3>1, TailOfTargets
  <2>2. UNCHANGED closed
    BY <1>3 DEF SendNotification
  <2>3. \/ UNCHANGED mat
        \/ \E o, rest : mat' = [mat EXCEPT ![e] = [pc |-> "inserting", order |-> o, rest |-> rest]]
    BY <1>3, <2>1 DEF SendNotification, InsertOrderFragment, RemoveOrderFragment
  <2> QED BY <1>1, <1>2, <2>2, <2>3
<1>4. ASSUME NEW e \in Epochs, SendComputation(e) \/ CursorFails(e) PROVE MatricesGoOn
  <2>1. PICK opposite : mat' = [mat EXCEPT ![e].rest = @ \ {opposite}]
    BY <1>4 DEF SendComputation, CursorFails
  <2>2. mat[e].pc = "inserting" /\ UNCHANGED closed
    BY <1>4 DEF SendComputation, CursorFails
  <2>3. [mat[e] EXCEPT !.rest = @ \ {opposite}].pc = "inserting"
    BY <1>0, <2>2
  <2> QED BY <1>2, <2>1, <2>2, <2>3
<1>5. ASSUME NEW e \in Epochs, InsertionReturns(e) PROVE MatricesGoOn
  BY <1>2, <1>5 DEF InsertionReturns, MatIdle
<1>6. ASSUME NEW e \in Epochs, MatrixEnds(e) PROVE MatricesGoOn
  <2>1. mat' = [mat EXCEPT ![e] = [mat[e] EXCEPT !.pc = "ended"]] /\ e \in closed /\ UNCHANGED closed
    BY <1>6 DEF MatrixEnds
  <2>2. [mat[e] EXCEPT !.pc = "ended"].pc = "ended"
    BY <1>0
  <2> QED BY <1>2, <2>1, <2>2
<1>7. ASSUME NEW e \in Epochs, GenOnChangeEpoch(e) PROVE MatricesGoOn
  BY <1>2, <1>7 DEF GenOnChangeEpoch, MatIdle
<1>8. CASE GenNext
  <2>1. CASE (\E note \in Notifications : ReceiveNotification(note)) \/ RouteNotification
             \/ RouteReturns \/ Shutdown
    BY <1>1, <2>1 DEF ReceiveNotification, RouteNotification, RouteReturns, Shutdown
  <2>2. CASE \E e \in Epochs : BroadcastComputations(e) \/ ForwardComputation(e)
    BY <1>1, <2>2 DEF BroadcastComputations, ForwardComputation
  <2> QED BY <1>3, <1>4, <1>5, <1>6, <1>8, <2>1, <2>2 DEF GenNext, RouterStep, MatrixStep
<1>9. CASE ChangeGenerator
  <2>1. changing.epoch \in Epochs
    BY <1>9 DEF ChangeGenerator, FreshInv, EpochTypeOK
  <2> QED BY <1>7, <1>9, <2>1 DEF ChangeGenerator
<1>10. ASSUME NEW e \in Epochs, SyncEpoch(e) \/ NoPod(e) \/ ConnectEpoch(e) \/ ReplaceEpoch
       PROVE  MatricesGoOn
  BY <1>1, <1>10 DEF SyncEpoch, NoPod, ConnectEpoch, ReplaceEpoch, genVars
<1> QED BY <1>8, <1>9, <1>10 DEF EpochNext, ChangeStep

LEMMA LiveNext ==
  ASSUME EpochIInv, LiveInv, [EpochNext]_nodeVars
  PROVE  LiveInv'
<1> USE DEF EpochIInv, GenInv
<1>1. MatricesGoOn
  <2>1. CASE UNCHANGED nodeVars
    BY <2>1 DEF nodeVars, genVars, MatricesGoOn
  <2> QED BY <2>1, StepsGoOn
<1>2. \A e \in Epochs : mat'[e].pc = "ended" => e \in closed'
  BY <1>1 DEF MatricesGoOn, LiveInv
<1>3. ASSUME router'.pc = "sending", NEW i \in DOMAIN router'.targets
      PROVE  mat'[router'.targets[i]].pc # "none"
  <2>1. router.pc = "sending" => router.targets \in TargetLists
    BY DEF GenTypeOK, TargetLists
  <2>2. router'.targets[i] \in Epochs /\ mat[router'.targets[i]].pc # "none"
    <3>1. CASE UNCHANGED router
      <4>1. router.targets[i] \in Epochs
        BY <1>3, <2>1, <3>1 DEF TargetLists
      <4> QED BY <1>3, <3>1, <4>1 DEF LiveInv
    <3>2. CASE RouteNotification
      <4>1. router.note \in Notifications /\ router'.targets = Targets(router.note)
        BY <3>2 DEF RouteNotification, RouterInv, GenTypeOK
      <4>2. router'.targets[i] \in {curr, prev} \ {None}
        BY <1>3, <4>1, TargetsKnown
      <4> QED BY <4>2 DEF OpenInv, GenTypeOK
    <3>3. CASE SendNotification
      <4>1. /\ router.pc = "sending" /\ router.targets # <<>> /\ router'.targets = Tail(router.targets)
        BY <3>3 DEF SendNotification, GenTypeOK
      <4>2. i + 1 \in DOMAIN router.targets /\ router'.targets[i] = router.targets[i + 1]
        BY <1>3, <2>1, <4>1, TailOfTargets
      <4>3. router.targets[i + 1] \in Epochs
        BY <2>1, <4>1, <4>2 DEF TargetLists
      <4> QED BY <4>1, <4>2, <4>3 DEF LiveInv
    <3>4. CASE RouteReturns \/ \E note \in Notifications : ReceiveNotification(note)
      BY <1>3, <3>4 DEF RouteReturns, ReceiveNotification, RouterIdle
    <3>5. \/ UNCHANGED router \/ RouteNotification \/ SendNotification
          \/ RouteReturns \/ \E note \in Notifications : ReceiveNotification(note)
      <4>1. CASE GenNext
        BY <4>1 DEF GenNext, RouterStep, MatrixStep, CursorFails, Shutdown, SendComputation,
           InsertionReturns, MatrixEnds, BroadcastComputations, ForwardComputation
      <4>2. CASE UNCHANGED nodeVars
        BY <4>2 DEF nodeVars, genVars
      <4>3. CASE \E e \in Epochs : SyncEpoch(e) \/ ChangeStep(e)
        BY <4>3 DEF SyncEpoch, ChangeStep, NoPod, ConnectEpoch, ReplaceEpoch, ChangeGenerator,
           GenOnChangeEpoch, genVars
      <4> QED BY <4>1, <4>2, <4>3 DEF EpochNext
    <3> QED BY <3>1, <3>2, <3>3, <3>4, <3>5
  <2> QED BY <1>1, <2>2 DEF MatricesGoOn
<1> QED BY <1>2, <1>3 DEF LiveInv

\* A change of the epoch never gets stuck, for any number of epochs, orders and
\* notifications: as long as one is on its way some goroutine can go on, also when the
\* store fails and when the node shuts down.
THEOREM ChangesNeverStuck == EpochSpec => []ChangesComplete
<1>1. EpochInit => LiveInv
  BY DEF EpochInit, GenInit, LiveInv, RouterIdle, MatNone
<1>2. ASSUME EpochIInv, LiveInv PROVE ChangesComplete
  <2> USE <1>2 DEF EpochIInv, GenInv
  <2> SUFFICES ASSUME ~NodeCanStep PROVE changes = {} /\ changing = Unlocked
    BY DEF ChangesComplete
  <2>1. ASSUME router.pc = "sending" PROVE FALSE
    <3>1. ~done /\ router.targets # <<>>
      BY <2>1 DEF NodeCanStep, RouterCanStep, Routed
    <3>2. router.targets \in TargetLists
      BY DEF GenTypeOK, TargetLists
    <3>3. PICK e \in Epochs : e = Head(router.targets)
      BY <3>1, <3>2, TailOfTargets
    <3>4. 1 \in DOMAIN router.targets /\ e = router.targets[1]
      BY <3>1, <3>2, <3>3 DEF TargetLists
    <3>5. e \notin closed /\ mat[e].pc # "none" /\ mat[e].pc # "ended" /\ mat[e].pc # "select"
      BY <2>1, <3>3, <3>4 DEF OpenInv, NeverSendsOnClosed, LiveInv, NodeCanStep, RouterCanStep
    <3>6. mat[e].pc = "inserting"
      BY <3>5 DEF GenTypeOK
    <3>7. MatrixCanStep(e)
      BY <3>1, <3>6 DEF MatrixCanStep
    <3> QED BY <3>7 DEF NodeCanStep
  <2>2. changing.step \notin {"orderbook", "generator"}
    BY <2>1 DEF NodeCanStep, ChangeCanStep, MatMuFree
  <2>3. changing = Unlocked
    BY <2>2 DEF EpochTypeOK, FreshInv, Unlocked
  <2> QED BY <2>3 DEF NodeCanStep, ChangeCanStep
<1> QED BY <1>1, <1>2, LiveNext, EpochInvariant, PTL DEF EpochSpec
-----------------------------------------------------------------------------
(* OmeFlow: the lock of the smpcer and the channels of the Ome. *)

ReceiverPCs == {"idle", "inserting", "inserted", "joining", "lookedUp", "matching"}
WriterPCs == {"idle", "locking", "locked"}

\* The read locks of a thread: the one of Receive, and the one of smpcer.Join.
LocksOf(t) ==
  (IF t \in Messengers /\ pc[t] # "idle" THEN 1 ELSE 0) + (IF pc[t] = "lookedUp" THEN 1 ELSE 0)

\* Who is where.
PlacesOK ==
  /\ pc \in [Threads -> ReceiverPCs \cup WriterPCs]
  /\ \A t \in Receivers : pc[t] \in ReceiverPCs
  /\ \A w \in Writers : pc[w] \in WriterPCs
  /\ pc[Settler] # "matching"

\* The state of the lock is what the threads have done to it; a writer that has it has
\* it alone.
LockOK ==
  /\ held \in [Receivers -> 0 .. 2] /\ \A t \in Receivers : held[t] = LocksOf(t)
  /\ waiting = {w \in Writers : pc[w] = "locking"}
  /\ writing = {w \in Writers : pc[w] = "locked"}
  /\ \A v, w \in writing : v = w
  /\ writing # {} => NoReader

StagesOK == stages \in [Receivers -> 0 .. MaxStages]

LockInv == PlacesOK /\ LockOK /\ StagesOK

\* Threads and writers are apart.
LEMMA ThreadsApart ==
  /\ Resolver \in Receivers /\ Settler \in Receivers /\ Resolver # Settler
  /\ Messengers \subseteq Receivers /\ Resolver \notin Messengers /\ Settler \notin Messengers
  /\ \A t \in Receivers : t \in Threads /\ t \notin Writers /\ (t \in Messengers \/ t \in {Resolver, Settler})
  /\ \A w \in Writers : w \in Threads /\ w \notin Receivers
BY SmpcLockAssumption, FlowAssumption DEF Messengers, Threads

\* A receiver goes on and keeps the locks that belong to the place it comes to.
LEMMA ReceiverMoves ==
  ASSUME LockInv, NEW t \in Receivers, NEW there \in ReceiverPCs, Goto(t, there),
         t = Settler => there # "matching",
         UNCHANGED <<waiting, writing>>,
         held' \in [Receivers -> 0 .. 2],
         \A u \in Receivers : u # t => held'[u] = held[u],
         held'[t] = LocksOf(t)',
         writing # {} => held'[t] = held[t],
         StagesOK'
  PROVE  LockInv'
<1> USE DEF LockInv
<1>1. /\ pc' \in [Threads -> ReceiverPCs \cup WriterPCs]
      /\ pc'[t] = there /\ \A u \in Threads : u # t => pc'[u] = pc[u]
  BY ThreadsApart DEF Goto, PlacesOK
<1>2. PlacesOK'
  BY <1>1, ThreadsApart DEF PlacesOK
<1>3. \A u \in Receivers : u # t => LocksOf(u)' = LocksOf(u)
  BY <1>1, ThreadsApart DEF LocksOf
<1>4. \A u \in Receivers : held'[u] = LocksOf(u)'
  BY <1>3 DEF LockOK
<1>5. \A w \in Writers : pc'[w] = pc[w]
  BY <1>1, ThreadsApart
<1>6. writing # {} => NoReader'
  BY DEF LockOK, NoReader
<1> QED BY <1>2, <1>4, <1>5, <1>6 DEF LockOK

\* The steps of a thread.
LEMMA ReceiverStays ==
  ASSUME LockInv, NEW t \in Receivers, NEW there \in ReceiverPCs, Goto(t, there),
         pc[t] # "lookedUp", there # "lookedUp",
         t \in Messengers => (pc[t] = "idle" <=> there = "idle"),
         t = Settler => there # "matching",
         UNCHANGED <<held, waiting, writing>>, StagesOK'
  PROVE  LockInv'
<1>1. pc'[t] = there
  BY ThreadsApart DEF LockInv, PlacesOK, Goto
<1>2. held'[t] = LocksOf(t)'
  BY <1>1 DEF LockInv, LockOK, LocksOf
<1> QED BY <1>2, ReceiverMoves DEF LockInv, LockOK

LEMMA ThreadKeepsLock ==
  ASSUME LockInv, NEW t \in Receivers,
         \/ ReceiveMessage(t) /\ t \in Messengers
         \/ t = Resolver /\ ResolveComputation
         \/ t = Settler /\ SettleConfirmation
         \/ InsertReturns(t)
         \/ t # Settler /\ InsertCallsJoin(t)
         \/ JoinLooksUp(t) \/ JoinInserts(t)
         \/ ReceiveReturns(t) /\ t \in Messengers
         \/ CallReturns(t) \/ SendMatch(t) \/ CallbackMatches(t)
  PROVE  LockInv'
<1>0. MaxStages \in Nat
  BY SmpcLockAssumption
<1>1. CASE ReceiveMessage(t) /\ t \in Messengers
  <2>1. held[t] = 0 /\ held'[t] = 1 /\ writing = {} /\ pc'[t] = "inserting"
        /\ held' \in [Receivers -> 0 .. 2] /\ \A u \in Receivers : u # t => held'[u] = held[u]
    BY <1>1, ThreadsApart DEF ReceiveMessage, RLock, LockInv, LockOK, PlacesOK, LocksOf, Goto
  <2>2. held'[t] = LocksOf(t)'
    BY <1>1, <2>1 DEF LocksOf
  <2>3. StagesOK'
    BY <1>0, <1>1 DEF ReceiveMessage, LockInv, StagesOK
  <2> QED BY <1>1, <2>1, <2>2, <2>3, ReceiverMoves DEF ReceiveMessage, ReceiverPCs
<1>2. CASE t = Resolver /\ ResolveComputation
  <2>1. StagesOK'
    BY <1>0, <1>2 DEF ResolveComputation, LockInv, StagesOK
  <2> QED BY <1>2, <2>1, ReceiverStays, ThreadsApart DEF ResolveComputation, ReceiverPCs
<1>3. CASE t = Settler /\ SettleConfirmation
  <2>1. StagesOK'
    BY <1>3 DEF SettleConfirmation, LockInv, StagesOK
  <2> QED BY <1>3, <2>1, ReceiverStays, ThreadsApart DEF SettleConfirmation, ReceiverPCs
<1>4. CASE InsertReturns(t)
  <2>1. StagesOK'
    BY <1>4 DEF InsertReturns, LockInv, StagesOK
  <2> QED BY <1>4, <2>1, ReceiverStays DEF InsertReturns, ReceiverPCs
<1>5. CASE t # Settler /\ InsertCallsJoin(t)
  <2>1. StagesOK'
    BY <1>0, <1>5 DEF InsertCallsJoin, LockInv, StagesOK
  <2> QED BY <1>5, <2>1, ReceiverStays DEF InsertCallsJoin, ReceiverPCs
<1>6. CASE JoinLooksUp(t)
  <2>1. held[t] = (IF t \in Messengers THEN 1 ELSE 0)
    BY <1>6 DEF JoinLooksUp, LockInv, LockOK, LocksOf
  <2>2. held'[t] = held[t] + 1 /\ writing = {} /\ pc'[t] = "lookedUp"
        /\ held' \in [Receivers -> 0 .. 2] /\ \A u \in Receivers : u # t => held'[u] = held[u]
    BY <1>6, <2>1, ThreadsApart DEF JoinLooksUp, RLock, LockInv, LockOK, PlacesOK, Goto
  <2>3. held'[t] = LocksOf(t)'
    BY <2>1, <2>2 DEF LocksOf
  <2>4. StagesOK'
    BY <1>6 DEF JoinLooksUp, LockInv, StagesOK
  <2> QED BY <1>6, <2>2, <2>3, <2>4, ReceiverMoves DEF JoinLooksUp, ReceiverPCs
<1>7. CASE JoinInserts(t)
  <2>1. held[t] = (IF t \in Messengers THEN 1 ELSE 0) + 1 /\ writing = {}
    BY <1>7 DEF JoinInserts, LockInv, LockOK, LocksOf, NoReader
  <2>2. held'[t] = held[t] - 1 /\ pc'[t] = "inserting"
        /\ held' \in [Receivers -> 0 .. 2] /\ \A u \in Receivers : u # t => held'[u] = held[u]
    BY <1>7, <2>1, ThreadsApart DEF JoinInserts, RUnlock, LockInv, LockOK, PlacesOK, Goto
  <2>3. held'[t] = LocksOf(t)'
    BY <2>1, <2>2 DEF LocksOf
  <2>4. StagesOK'
    BY <1>7 DEF JoinInserts, LockInv, StagesOK
  <2> QED BY <1>7, <2>1, <2>2, <2>3, <2>4, ReceiverMoves DEF JoinInserts, ReceiverPCs
<1>8. CASE ReceiveReturns(t) /\ t \in Messengers
  <2>1. held[t] = 1 /\ writing = {}
    BY <1>8 DEF ReceiveReturns, LockInv, LockOK, LocksOf, NoReader
  <2>2. held'[t] = 0 /\ pc'[t] = "idle"
        /\ held' \in [Receivers -> 0 .. 2] /\ \A u \in Receivers : u # t => held'[u] = held[u]
    BY <1>8, <2>1, ThreadsApart DEF ReceiveReturns, RUnlock, LockInv, LockOK, PlacesOK, Goto
  <2>3. held'[t] = LocksOf(t)'
    BY <2>2 DEF LocksOf
  <2>4. StagesOK'
    BY <1>8 DEF ReceiveReturns, LockInv, StagesOK
  <2> QED BY <1>8, <2>1, <2>2, <2>3, <2>4, ReceiverMoves DEF ReceiveReturns, ReceiverPCs
<1>9. CASE CallReturns(t)
  <2>1. StagesOK'
    BY <1>9 DEF CallReturns, LockInv, StagesOK
  <2> QED BY <1>9, <2>1, ReceiverStays, ThreadsApart DEF CallReturns, ReceiverPCs
<1>10. CASE SendMatch(t)
  <2>1. StagesOK'
    BY <1>10 DEF SendMatch, LockInv, StagesOK
  <2> QED BY <1>10, <2>1, ReceiverStays DEF SendMatch, ReceiverPCs
<1>11. CASE CallbackMatches(t)
  <2>1. StagesOK'
    BY <1>11 DEF CallbackMatches, LockInv, StagesOK
  <2> QED BY <1>11, <2>1, ReceiverStays DEF CallbackMatches, ReceiverPCs
<1> QED BY <1>1, <1>2, <1>3, <1>4, <1>5, <1>6, <1>7, <1>8, <1>9, <1>10, <1>11

\* The steps of a writer.
LEMMA WriterKeepsLock ==
  ASSUME LockInv, NEW w \in Writers, WriteLock(w) \/ WriterStep(w)
  PROVE  LockInv'
<1> USE DEF LockInv
<1>1. PICK there \in WriterPCs : Goto(w, there)
  BY DEF WriteLock, WriterStep, WriteLocked, WriteUnlock, WriterPCs
<1>2. /\ pc' \in [Threads -> ReceiverPCs \cup WriterPCs]
      /\ pc'[w] = there /\ \A u \in Threads : u # w => pc'[u] = pc[u]
  BY <1>1, ThreadsApart DEF Goto, PlacesOK
<1>3. PlacesOK'
  BY <1>2, ThreadsApart DEF PlacesOK
<1>4. UNCHANGED <<held, stages>>
  BY DEF WriteLock, WriterStep, WriteLocked, WriteUnlock
<1>5. StagesOK'
  BY <1>4 DEF StagesOK
<1>6. /\ held' \in [Receivers -> 0 .. 2]
      /\ \A t \in Receivers : held'[t] = LocksOf(t)'
  BY <1>2, <1>4, ThreadsApart DEF LockOK, LocksOf
<1>7. CASE WriteLock(w)
  <2>1. pc[w] = "idle" /\ pc'[w] = "locking" /\ waiting' = waiting \cup {w} /\ writing' = writing
    BY <1>2, <1>7, ThreadsApart DEF WriteLock, Goto, PlacesOK
  <2> QED BY <1>2, <1>3, <1>4, <1>5, <1>6, <2>1, ThreadsApart DEF LockOK, NoReader
<1>8. CASE WriteLocked(w)
  <2>1. /\ pc[w] = "locking" /\ pc'[w] = "locked" /\ waiting' = waiting \ {w} /\ writing' = {w}
        /\ NoReader /\ writing = {}
    BY <1>2, <1>8, ThreadsApart DEF WriteLocked, Goto, PlacesOK
  <2>2. waiting' = {v \in Writers : pc'[v] = "locking"} /\ writing' = {v \in Writers : pc'[v] = "locked"}
    BY <1>2, <2>1, ThreadsApart DEF LockOK
  <2>3. NoReader'
    BY <1>4, <2>1 DEF NoReader
  <2> QED BY <1>3, <1>5, <1>6, <2>1, <2>2, <2>3 DEF LockOK
<1>9. CASE WriteUnlock(w)
  <2>1. /\ pc[w] = "locked" /\ pc'[w] = "idle" /\ waiting' = waiting /\ writing' = {}
    BY <1>2, <1>9, ThreadsApart DEF WriteUnlock, Goto, PlacesOK
  <2>2. waiting' = {v \in Writers : pc'[v] = "locking"} /\ writing' = {v \in Writers : pc'[v] = "locked"}
    BY <1>2, <2>1, ThreadsApart DEF LockOK
  <2> QED BY <1>3, <1>5, <1>6, <2>1, <2>2 DEF LockOK
<1> QED BY <1>7, <1>8, <1>9 DEF WriterStep
-----------------------------------------------------------------------------
(* OmeFlow: the channels. *)

\* The threads whose message or computation may still come to a match.
MayMatch == {"inserting", "joining", "lookedUp", "matching"}
InFlight == {t \in Receivers \ {Settler} : pc[t] \in MayMatch}

ChannelTypes ==
  /\ matches \in 0 .. MatchesCap /\ reader \in BOOLEAN /\ watched \in Nat
  /\ confirmations \in 0 .. ConfirmationsCap
  /\ poller \in {"idle", "locked", "sending"} /\ work \in 0 .. MaxWork
  /\ poller = "sending" => watched > 0

\* The match that the goroutine of Confirm has.
Registering == IF reader THEN 1 ELSE 0

\* Every match in the channels and the confirmer comes from a message or a computation
\* of its own.
OneMatchEach ==
  matches + Registering + watched + confirmations + Cardinality(InFlight) <= work

\* The inductive invariant.
FlowIInv == LockInv /\ ChannelTypes /\ OneMatchEach

LEMMA InFlightFinite ==
  IsFiniteSet(InFlight) /\ IsFiniteSet(InFlight') /\ Cardinality(InFlight) \in Nat
    /\ Cardinality(InFlight') \in Nat
<1>1. IsFiniteSet(InFlight) /\ IsFiniteSet(InFlight')
  BY SmpcLockAssumption, FS_Subset DEF InFlight
<1> QED BY <1>1, FS_CardinalityType

\* What a move of a thread does to the number of those that may come to a match.
LEMMA InFlightMoves ==
  ASSUME LockInv, NEW t \in Receivers, NEW there \in ReceiverPCs, Goto(t, there)
  PROVE  /\ t = Settler \/ (pc[t] \in MayMatch <=> there \in MayMatch)
              => Cardinality(InFlight') = Cardinality(InFlight)
         /\ t # Settler /\ pc[t] \in MayMatch /\ there \notin MayMatch
              => Cardinality(InFlight') = Cardinality(InFlight) - 1
         /\ Cardinality(InFlight') <= Cardinality(InFlight) + 1
<1>1. pc'[t] = there /\ \A u \in Receivers : u # t => pc'[u] = pc[u]
  BY ThreadsApart DEF Goto, LockInv, PlacesOK
<1>2. CASE t = Settler \/ (pc[t] \in MayMatch <=> there \in MayMatch)
  <2>1. InFlight' = InFlight
    BY <1>1, <1>2 DEF InFlight
  <2> QED BY <1>2, <2>1, InFlightFinite
<1>3. CASE t # Settler /\ pc[t] \in MayMatch /\ there \notin MayMatch
  <2>1. InFlight' = InFlight \ {t} /\ t \in InFlight
    BY <1>1, <1>3 DEF InFlight
  <2>2. Cardinality(InFlight') = Cardinality(InFlight) - 1
    BY <2>1, InFlightFinite, FS_RemoveElement
  <2> QED BY <1>3, <2>2, InFlightFinite
<1>4. CASE t # Settler /\ pc[t] \notin MayMatch /\ there \in MayMatch
  <2>1. InFlight' = InFlight \cup {t} /\ t \notin InFlight
    BY <1>1, <1>4 DEF InFlight
  <2>2. Cardinality(InFlight') = Cardinality(InFlight) + 1
    BY <2>1, InFlightFinite, FS_AddElement
  <2> QED BY <1>4, <2>2, InFlightFinite
<1> QED BY <1>2, <1>3, <1>4

\* A writer moves none of them.
LEMMA InFlightStays ==
  ASSUME LockInv, UNCHANGED pc \/ \E w \in Writers, there \in WriterPCs : Goto(w, there)
  PROVE  Cardinality(InFlight') = Cardinality(InFlight)
<1>1. \A u \in Receivers : pc'[u] = pc[u]
  BY ThreadsApart DEF Goto, LockInv, PlacesOK
<1>2. InFlight' = InFlight
  BY <1>1 DEF InFlight
<1> QED BY <1>2

LEMMA ThreadKeepsCount ==
  ASSUME FlowIInv, NEW t \in Receivers,
         \/ t \in Messengers /\ ReceiveMessage(t) /\ Begins /\ UNCHANGED confirmVars
         \/ t = Resolver /\ ResolveComputation
         \/ t = Settler /\ SettleConfirmation
         \/ LockOnly(InsertReturns(t))
         \/ t # Settler /\ LockOnly(InsertCallsJoin(t))
         \/ LockOnly(JoinLooksUp(t)) \/ LockOnly(JoinInserts(t))
         \/ t \in Messengers /\ LockOnly(ReceiveReturns(t))
         \/ CallReturns(t) \/ SendMatch(t)
         \/ t # Settler /\ CallbackMatches(t)
  PROVE  ChannelTypes' /\ OneMatchEach'
<1> USE DEF FlowIInv
<1> DEFINE n == Cardinality(InFlight)
<1>0. n \in Nat /\ n' \in Nat
  BY InFlightFinite
<1>1. MatchesCap \in Nat /\ ConfirmationsCap \in Nat /\ MaxWork \in Nat
  BY FlowAssumption
<1>2. /\ \A there \in ReceiverPCs : Goto(t, there) =>
           /\ t = Settler \/ (pc[t] \in MayMatch <=> there \in MayMatch) => n' = n
           /\ t # Settler /\ pc[t] \in MayMatch /\ there \notin MayMatch => n' = n - 1
           /\ n' <= n + 1
  BY InFlightMoves
<1> HIDE DEF n
<1>3. CASE \/ t \in Messengers /\ ReceiveMessage(t) /\ Begins /\ UNCHANGED confirmVars
           \/ t = Resolver /\ ResolveComputation
  <2>1. n' <= n + 1
    BY <1>2, <1>3 DEF ReceiveMessage, ResolveComputation, ReceiverPCs
  <2>2. work < MaxWork /\ work' = work + 1 /\ UNCHANGED confirmVars
    BY <1>3 DEF ResolveComputation, Begins
  <2>3. ChannelTypes'
    BY <1>1, <2>2 DEF ChannelTypes, confirmVars
  <2>4. OneMatchEach'
    BY <1>0, <2>1, <2>2 DEF ChannelTypes, OneMatchEach, Registering, confirmVars, n
  <2> QED BY <2>3, <2>4
<1>4. CASE t = Settler /\ SettleConfirmation
  <2>1. n' = n
    BY <1>2, <1>4 DEF SettleConfirmation, ReceiverPCs
  <2>2. /\ confirmations > 0 /\ confirmations' = confirmations - 1
        /\ UNCHANGED <<matches, reader, watched, poller, work>>
    BY <1>4 DEF SettleConfirmation
  <2>3. ChannelTypes'
    BY <1>1, <2>2 DEF ChannelTypes
  <2>4. OneMatchEach'
    BY <1>0, <2>1, <2>2 DEF ChannelTypes, OneMatchEach, Registering, n
  <2> QED BY <2>3, <2>4
<1>5. CASE SendMatch(t)
  <2>1. t # Settler
    BY <1>5 DEF SendMatch, LockInv, PlacesOK
  <2>2. n' = n - 1
    BY <1>2, <1>5, <2>1 DEF SendMatch, ReceiverPCs, MayMatch
  <2>3. /\ matches < MatchesCap /\ matches' = matches + 1
        /\ UNCHANGED <<reader, watched, poller, confirmations, work>>
    BY <1>5 DEF SendMatch, RoomInMatches
  <2>4. ChannelTypes'
    BY <1>1, <2>3 DEF ChannelTypes
  <2>5. OneMatchEach'
    BY <1>0, <2>2, <2>3 DEF ChannelTypes, OneMatchEach, Registering, n
  <2> QED BY <2>4, <2>5
<1>6. CASE \/ LockOnly(InsertReturns(t))
           \/ t # Settler /\ LockOnly(InsertCallsJoin(t))
           \/ LockOnly(JoinLooksUp(t)) \/ LockOnly(JoinInserts(t))
           \/ t \in Messengers /\ LockOnly(ReceiveReturns(t))
           \/ CallReturns(t)
           \/ t # Settler /\ CallbackMatches(t)
  <2>1. UNCHANGED <<confirmVars, work>>
    BY <1>6 DEF LockOnly, CallReturns, CallbackMatches
  <2>2. PICK there \in ReceiverPCs : Goto(t, there) /\ (there \in MayMatch => pc[t] \in MayMatch)
    <3>1. CASE LockOnly(InsertReturns(t))
      BY <3>1 DEF LockOnly, InsertReturns, ReceiverPCs, MayMatch
    <3>2. CASE t # Settler /\ LockOnly(InsertCallsJoin(t))
      BY <3>2 DEF LockOnly, InsertCallsJoin, ReceiverPCs, MayMatch
    <3>3. CASE LockOnly(JoinLooksUp(t))
      BY <3>3 DEF LockOnly, JoinLooksUp, ReceiverPCs, MayMatch
    <3>4. CASE LockOnly(JoinInserts(t))
      BY <3>4 DEF LockOnly, JoinInserts, ReceiverPCs, MayMatch
    <3>5. CASE t \in Messengers /\ LockOnly(ReceiveReturns(t))
      BY <3>5 DEF LockOnly, ReceiveReturns, ReceiverPCs, MayMatch
    <3>6. CASE CallReturns(t)
      BY <3>6 DEF CallReturns, ReceiverPCs, MayMatch
    <3>7. CASE t # Settler /\ CallbackMatches(t)
      BY <3>7 DEF CallbackMatches, ReceiverPCs, MayMatch
    <3> QED BY <1>6, <3>1, <3>2, <3>3, <3>4, <3>5, <3>6, <3>7
  <2>3. n' <= n
    BY <1>0, <1>2, <2>2
  <2>4. ChannelTypes'
    BY <2>1 DEF ChannelTypes, confirmVars
  <2>5. OneMatchEach'
    BY <1>0, <2>1, <2>3 DEF ChannelTypes, OneMatchEach, Registering, confirmVars, n
  <2> QED BY <2>4, <2>5
<1> QED BY <1>3, <1>4, <1>5, <1>6

\* The steps of the confirmer, which move no thread.
LEMMA ConfirmerKeepsCount ==
  ASSUME FlowIInv, ConfirmerStep
  PROVE  FlowIInv'
<1> USE DEF FlowIInv
<1> DEFINE n == Cardinality(InFlight)
<1>0. n \in Nat
  BY InFlightFinite
<1>1. UNCHANGED vars /\ UNCHANGED work
  BY DEF ConfirmerStep, ConfirmReceives, ConfirmRegisters, PollLocks, PollFinds, PollSends, PollUnlocks
<1>2. LockInv'
  BY <1>1 DEF vars, LockInv, PlacesOK, LockOK, StagesOK, LocksOf, NoReader
<1>3. n' = n
  BY <1>1, InFlightStays DEF vars
<1>4. MatchesCap \in Nat /\ ConfirmationsCap \in Nat
  BY FlowAssumption
<1> HIDE DEF n
<1>5. /\ matches \in Nat /\ watched \in Nat /\ confirmations \in Nat /\ work \in Nat
      /\ matches <= MatchesCap /\ confirmations <= ConfirmationsCap
      /\ poller \in {"idle", "locked", "sending"} /\ (poller = "sending" => watched > 0)
      /\ Registering \in Nat /\ matches + Registering + watched + confirmations + n <= work
  BY <1>4 DEF ChannelTypes, Registering, OneMatchEach, n
<1> DEFINE Types ==
      /\ matches' \in 0 .. MatchesCap /\ watched' \in Nat /\ confirmations' \in 0 .. ConfirmationsCap
      /\ poller' \in {"idle", "locked", "sending"} /\ (poller' = "sending" => watched' > 0)
    Total == matches' + Registering' + watched' + confirmations' + n <= work
<1>6. ASSUME ConfirmReceives PROVE Types /\ Total
  <2>1. /\ Registering = 0 /\ (Registering' = 0 \/ Registering' = 1)
        /\ matches > 0 /\ matches' = matches - 1
        /\ watched' = watched /\ poller' = poller /\ confirmations' = confirmations
    BY <1>6 DEF ConfirmReceives, Registering
  <2>2. Types
    BY <1>4, <1>5, <2>1
  <2>3. Total
    BY <1>0, <1>5, <2>1
  <2> QED BY <2>2, <2>3
<1>7. ASSUME ConfirmRegisters PROVE Types /\ Total
  <2>1. /\ Registering = 1 /\ Registering' = 0 /\ poller = "idle"
        /\ watched' = watched \/ watched' = watched + 1
        /\ matches' = matches /\ poller' = poller /\ confirmations' = confirmations
    BY <1>7 DEF ConfirmRegisters, Registering
  <2>2. Types
    BY <1>4, <1>5, <2>1
  <2>3. Total
    BY <1>0, <1>5, <2>1
  <2> QED BY <2>2, <2>3
<1>8. ASSUME PollLocks \/ PollFinds \/ PollUnlocks PROVE Types /\ Total
  <2>1. /\ poller' \in {"idle", "locked", "sending"} /\ (poller' = "sending" => watched > 0)
        /\ Registering' = Registering /\ matches' = matches /\ watched' = watched
        /\ confirmations' = confirmations
    BY <1>5, <1>8 DEF PollLocks, PollFinds, PollUnlocks, Registering
  <2>2. Types
    BY <1>4, <1>5, <2>1
  <2>3. Total
    BY <1>0, <1>5, <2>1
  <2> QED BY <2>2, <2>3
<1>9. ASSUME PollSends PROVE Types /\ Total
  <2>1. /\ confirmations < ConfirmationsCap /\ confirmations' = confirmations + 1
        /\ watched' = watched - 1 /\ poller = "sending" /\ poller' = "locked" /\ matches' = matches
        /\ Registering' = Registering
    BY <1>9 DEF PollSends, RoomInConfirmations, Registering
  <2>2. Types
    BY <1>4, <1>5, <2>1
  <2>3. Total
    BY <1>0, <1>5, <2>1
  <2> QED BY <2>2, <2>3
<1>10. Types /\ Total
  BY <1>6, <1>7, <1>8, <1>9 DEF ConfirmerStep
<1>11. reader' \in BOOLEAN
  BY DEF ChannelTypes, ConfirmerStep, ConfirmReceives, ConfirmRegisters, PollLocks, PollFinds,
         PollSends, PollUnlocks
<1>12. ChannelTypes'
  BY <1>1, <1>10, <1>11 DEF ChannelTypes
<1> QED BY <1>1, <1>2, <1>3, <1>10, <1>12 DEF OneMatchEach, n

LEMMA WriterKeepsCount ==
  ASSUME FlowIInv, NEW w \in Writers, WriteLock(w) \/ WriterStep(w), UNCHANGED confirmVars,
         UNCHANGED work \/ Begins
  PROVE  FlowIInv'
<1> USE DEF FlowIInv
<1> DEFINE n == Cardinality(InFlight)
<1>0. n \in Nat
  BY InFlightFinite
<1>1. LockInv'
  BY WriterKeepsLock
<1>2. n' = n
  BY InFlightStays DEF WriteLock, WriterStep, WriteLocked, WriteUnlock, WriterPCs
<1> HIDE DEF n
<1>3. work' \in 0 .. MaxWork /\ work' >= work
  BY FlowAssumption DEF ChannelTypes, Begins
<1>4. ChannelTypes'
  BY <1>3 DEF ChannelTypes, confirmVars
<1>5. OneMatchEach'
  BY <1>0, <1>2, <1>3 DEF OneMatchEach, Registering, ChannelTypes, confirmVars, n
<1> QED BY <1>1, <1>4, <1>5

LEMMA FlowInitIInv == FlowInit => FlowIInv
<1> SUFFICES ASSUME FlowInit PROVE FlowIInv
  OBVIOUS
<1>1. LockInv
  BY SmpcLockAssumption, ThreadsApart DEF FlowInit, Init, LockInv, PlacesOK, LockOK, StagesOK, LocksOf,
     ReceiverPCs, WriterPCs
<1>2. InFlight = {}
  BY ThreadsApart DEF FlowInit, Init, InFlight, MayMatch
<1>3. Cardinality(InFlight) = 0
  BY <1>2, FS_EmptySet
<1>4. ChannelTypes
  <2>1. /\ matches = 0 /\ reader = FALSE /\ watched = 0 /\ poller = "idle" /\ confirmations = 0
        /\ work = 0
    BY DEF FlowInit
  <2>2. 0 \in 0 .. MatchesCap /\ 0 \in 0 .. ConfirmationsCap /\ 0 \in 0 .. MaxWork
    BY FlowAssumption
  <2>3. reader \in BOOLEAN
    BY <2>1
  <2> QED BY <2>1, <2>2, <2>3 DEF ChannelTypes
<1>5. OneMatchEach
  BY <1>3 DEF FlowInit, OneMatchEach, Registering
<1> QED BY <1>1, <1>4, <1>5 DEF FlowIInv

LEMMA FlowNextIInv == FlowIInv /\ [FlowNext]_flowVars => FlowIInv'
<1> SUFFICES ASSUME FlowIInv, [FlowNext]_flowVars PROVE FlowIInv'
  OBVIOUS
<1>0. LockInv
  BY DEF FlowIInv
<1>1. ASSUME NEW t \in Messengers, ReceiveMessage(t), Begins, UNCHANGED confirmVars PROVE FlowIInv'
  BY <1>0, <1>1, ThreadsApart, ThreadKeepsLock, ThreadKeepsCount DEF FlowIInv
<1>2. ASSUME NEW w \in Writers, WriteLock(w), Begins, UNCHANGED confirmVars PROVE FlowIInv'
  BY <1>2, WriterKeepsCount
<1>3. CASE ResolveComputation
  <2>1. LockInv' /\ ChannelTypes' /\ OneMatchEach'
    BY <1>0, <1>3, ThreadsApart, ThreadKeepsLock, ThreadKeepsCount
  <2> QED BY <2>1 DEF FlowIInv
<1>4. ASSUME NEW t \in Receivers \ {Settler}, LockOnly(InsertCallsJoin(t)) \/ CallbackMatches(t)
      PROVE  FlowIInv'
  <2>1. LockInv'
    BY <1>0, <1>4, ThreadKeepsLock DEF LockOnly
  <2>2. ChannelTypes' /\ OneMatchEach'
    BY <1>4, ThreadKeepsCount
  <2> QED BY <2>1, <2>2 DEF FlowIInv
<1>5. ASSUME NEW t \in Receivers, ThreadStep(t) PROVE FlowIInv'
  <2>1. \/ LockOnly(InsertReturns(t)) \/ LockOnly(JoinLooksUp(t)) \/ LockOnly(JoinInserts(t))
        \/ t \in Messengers /\ LockOnly(ReceiveReturns(t))
        \/ CallReturns(t)
        \/ SendMatch(t)
    BY <1>5 DEF ThreadStep, LockOnly
  <2>2. LockInv'
    BY <1>0, <2>1, ThreadKeepsLock DEF LockOnly
  <2>3. ChannelTypes' /\ OneMatchEach'
    BY <2>1, ThreadKeepsCount
  <2> QED BY <2>2, <2>3 DEF FlowIInv
<1>6. ASSUME NEW w \in Writers, LockOnly(WriterStep(w)) PROVE FlowIInv'
  BY <1>6, WriterKeepsCount DEF LockOnly
<1>7. CASE SettleConfirmation
  <2>1. LockInv' /\ ChannelTypes' /\ OneMatchEach'
    BY <1>0, <1>7, ThreadsApart, ThreadKeepsLock, ThreadKeepsCount
  <2> QED BY <2>1 DEF FlowIInv
<1>8. CASE ConfirmerStep
  BY <1>8, ConfirmerKeepsCount
<1>9. CASE UNCHANGED flowVars
  <2>1. LockInv'
    BY <1>0, <1>9 DEF flowVars, vars, LockInv, PlacesOK, LockOK, StagesOK, LocksOf, NoReader
  <2>2. ChannelTypes' /\ OneMatchEach'
    BY <1>9 DEF flowVars, vars, confirmVars, FlowIInv, ChannelTypes, OneMatchEach, Registering, InFlight
  <2> QED BY <2>1, <2>2 DEF FlowIInv
<1> QED BY <1>1, <1>2, <1>3, <1>4, <1>5, <1>6, <1>7, <1>8, <1>9 DEF FlowNext, OmeStep

\* The lock is where the threads are, and every match in the channels comes from a
\* message or a computation of its own (OmeFlow).
THEOREM FlowInvariant == FlowSpec => []FlowIInv
<1> QED BY FlowInitIInv, FlowNextIInv, PTL DEF FlowSpec

\* The variables of OmeFlow have their types: no channel holds more than its
\* capacity and no lock is released that is not held.
THEOREM FlowTypeCorrect == FlowSpec => []FlowTypeOK
<1>1. FlowIInv => FlowTypeOK
  <2> SUFFICES ASSUME FlowIInv PROVE FlowTypeOK
    OBVIOUS
  <2>1. Cardinality(InFlight) \in Nat
    BY InFlightFinite
  <2>2. watched \in 0 .. MaxWork
    BY <2>1, FlowAssumption DEF FlowIInv, ChannelTypes, OneMatchEach, Registering
  <2> QED BY <2>2 DEF FlowIInv, FlowTypeOK, LockInv, PlacesOK, LockOK, StagesOK, ChannelTypes,
             ReceiverPCs, WriterPCs
<1> QED BY <1>1, FlowInvariant, PTL

\* Connect and Disconnect change the map of Joiners by themselves: no other has
\* joinersMu and no receiver reads it (OmeFlow).
THEOREM WriterAlone ==
  FlowSpec => [](\A w \in Writers : pc[w] = "locked" =>
                   /\ \A v \in Writers : pc[v] = "locked" => v = w
                   /\ \A t \in Receivers : held[t] = 0 /\ pc[t] # "lookedUp")
<1>1. FlowIInv => \A w \in Writers : pc[w] = "locked" =>
                   /\ \A v \in Writers : pc[v] = "locked" => v = w
                   /\ \A t \in Receivers : held[t] = 0 /\ pc[t] # "lookedUp"
  <2> SUFFICES ASSUME FlowIInv, NEW w \in Writers, pc[w] = "locked"
               PROVE  /\ \A v \in Writers : pc[v] = "locked" => v = w
                      /\ \A t \in Receivers : held[t] = 0 /\ pc[t] # "lookedUp"
    OBVIOUS
  <2>1. w \in writing
    BY DEF FlowIInv, LockInv, LockOK
  <2>2. \A t \in Receivers : held[t] = 0 /\ LocksOf(t) = 0
    BY <2>1 DEF FlowIInv, LockInv, LockOK, NoReader
  <2>3. \A t \in Receivers : pc[t] # "lookedUp"
    BY <2>2 DEF LocksOf
  <2> QED BY <2>1, <2>2, <2>3 DEF FlowIInv, LockInv, LockOK
<1> QED BY <1>1, FlowInvariant, PTL

\* Where the threads are when no goroutine of the Ome can go on.
LEMMA WhereTheyWait ==
  ASSUME FlowIInv, ~OmeCanStep
  PROVE  /\ \A t \in Receivers :
              \/ pc[t] = "idle"
              \/ pc[t] = "joining" /\ waiting # {}
              \/ pc[t] = "matching" /\ matches = MatchesCap
         /\ \A w \in Writers : pc[w] \in {"idle", "locking"}
         /\ writing = {}
<1> USE DEF FlowIInv
<1>1. \A w \in Writers : pc[w] \in {"idle", "locking"}
  BY DEF OmeCanStep, WriterCanStep, LockInv, PlacesOK, WriterPCs
<1>2. writing = {}
  BY <1>1 DEF LockInv, LockOK
<1>3. ASSUME NEW t \in Receivers
      PROVE  \/ pc[t] = "idle"
             \/ pc[t] = "joining" /\ waiting # {}
             \/ pc[t] = "matching" /\ matches = MatchesCap
  <2>1. ~ThreadCanStep(t) /\ pc[t] \in ReceiverPCs
    BY DEF OmeCanStep, LockInv, PlacesOK
  <2>2. ~RoomInMatches => matches = MatchesCap
    BY FlowAssumption DEF RoomInMatches, ChannelTypes
  <2> QED BY <1>2, <2>1, <2>2 DEF ThreadCanStep, ReceiverPCs
<1> QED BY <1>1, <1>2, <1>3

\* A writer that waits for the lock waits for a receiver that waits for another or for
\* room in matches.
LEMMA WriterWaitsFor ==
  ASSUME FlowIInv, ~OmeCanStep, waiting # {}
  PROVE  \E t \in Messengers : held[t] = 1 /\ pc[t] \in {"joining", "matching"}
<1> USE DEF FlowIInv
<1>1. PICK w \in Writers : pc[w] = "locking"
  BY DEF LockInv, LockOK
<1>2. ~NoReader
  BY <1>1, WhereTheyWait DEF OmeCanStep, WriterCanStep
<1>3. PICK t \in Receivers : held[t] # 0
  BY <1>2 DEF NoReader
<1>4. pc[t] \in {"idle", "joining", "matching"}
  BY WhereTheyWait
<1>5. t \in Messengers /\ held[t] = 1 /\ pc[t] # "idle"
  BY <1>3, <1>4 DEF LockInv, LockOK, LocksOf
<1> QED BY <1>4, <1>5, ThreadsApart

\* The Ome gets stuck in two ways only, Nested and Jammed, for any number of
\* peers, any number of calls of Connect and Disconnect and any capacity of the
\* channels (OmeFlow).
THEOREM OnlyNestedOrJammed == FlowSpec => []StuckOnlyIfJammed
<1>1. FlowIInv => StuckOnlyIfJammed
  <2> SUFFICES ASSUME FlowIInv, ~OmeCanStep, ~Nested PROVE Settled \/ Jammed
    BY DEF StuckOnlyIfJammed
  <2> USE DEF FlowIInv
  <2>1. /\ poller # "locked"
        /\ reader \/ matches = 0
        /\ poller = "idle" => ~reader /\ watched = 0
        /\ poller = "sending" => confirmations = ConfirmationsCap
    BY FlowAssumption DEF OmeCanStep, ConfirmerCanStep, ChannelTypes, RoomInConfirmations
  <2>2. confirmations > 0 => pc[Settler] = "joining" /\ waiting # {}
    BY WhereTheyWait, ThreadsApart DEF OmeCanStep, LockInv, PlacesOK
  <2>3. waiting # {} => \E t \in Messengers : pc[t] = "matching" /\ held[t] = 1
    BY WriterWaitsFor, ThreadsApart DEF Nested
  <2>4. ASSUME NEW t \in Receivers, pc[t] = "matching" PROVE matches = MatchesCap /\ matches > 0
    BY <2>4, WhereTheyWait, FlowAssumption
  <2>5. CASE poller = "sending"
    <3>1. confirmations > 0
      BY <2>1, <2>5, FlowAssumption
    <3>2. PICK t \in Messengers : pc[t] = "matching" /\ held[t] = 1
      BY <2>2, <2>3, <3>1
    <3>3. matches = MatchesCap /\ reader
      BY <2>1, <2>4, <3>2, ThreadsApart
    <3> QED BY <2>1, <2>2, <2>5, <3>1, <3>2, <3>3 DEF Jammed
  <2>6. CASE poller = "idle"
    <3>1. ~reader /\ watched = 0 /\ matches = 0
      BY <2>1, <2>6
    <3>2. \A t \in Receivers : pc[t] # "matching"
      BY <2>4, <3>1
    <3>3. waiting = {}
      BY <2>3, <3>2, ThreadsApart
    <3>4. confirmations = 0
      BY <2>2, <3>3 DEF ChannelTypes
    <3>5. \A t \in Receivers : pc[t] = "idle"
      BY <3>2, <3>3, WhereTheyWait
    <3>6. \A w \in Writers : pc[w] = "idle"
      BY <3>3, WhereTheyWait DEF LockInv, LockOK
    <3> QED BY <3>1, <3>4, <3>5, <3>6 DEF Settled, Threads
  <2> QED BY <2>1, <2>5, <2>6 DEF ChannelTypes
<1> QED BY <1>1, FlowInvariant, PTL
=============================================================================
