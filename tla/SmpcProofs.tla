----------------------------- MODULE SmpcProofs -----------------------------
(***************************************************************************)
(* Proofs about Smpc.tla, for every finite set of nodes, every set of       *)
(* JoinIDs, any number of broken links and any nodes that leave.            *)
(***************************************************************************)
EXTENDS Smpc, FiniteSetTheorems, TLAPS

\* A JoinSet between two insertions: with enough Joins the values are known, were
\* reconstructed from Joins of the set, and no callback waits.
JoinSetOK(js) ==
  IF js.ValuesOk
    THEN /\ js.Callback = NilCallback /\ Cardinality(js.Set) >= k
         /\ \A i \in DOMAIN js.Values : js.Values[i] \subseteq js.Set
    ELSE Cardinality(js.Set) < k

SetsInv == \A n \in Nodes, id \in JoinIDs : JoinSetOK(joiners[n][id])

\* Every share, in a JoinSet or on its way, is one of a node that called Join.
SharesInv ==
  /\ \A n \in Nodes, id \in JoinIDs : \A m \in Has(n, id) : id \in selfJoins[m]
  /\ \A m \in sending \cup wire \cup responding : m.id \in selfJoins[m.from]
  /\ \A m \in sending : m.type = "join"
  /\ \A n \in Nodes, id \in JoinIDs : joining[n][id] # "idle" => id \in selfJoins[n]

\* Where the callback of a Join is: not yet set, waiting in the JoinSet, or called.
CallbackInv ==
  \A n \in Nodes, id \in JoinIDs :
    /\ joining[n][id] \in {"idle", "kept", "refused"} =>
         called[n][id] = 0 /\ joiners[n][id].Callback = NilCallback
    /\ joining[n][id] \in {"inserted", "sent"} =>
         /\ called[n][id] \in {0, 1} /\ phase[n] # "apart"
         /\ HasJoiner(n) =>
              IF joiners[n][id].ValuesOk
                THEN called[n][id] = 1
                ELSE called[n][id] = 0 /\ joiners[n][id].Callback = NewCallback

\* Only nodes that are connected have links.
LinksInv == \A n \in Nodes : \A l \in links : n \in l => phase[n] = "connected"

\* A share that is to arrive has arrived, is on its way, or will be sent in response
\* to a Join that is on its way or just answered.
Underway(n, peer, id) ==
  \/ \E m \in wire : m.from = n /\ m.to = peer /\ m.id = id
  \/ \E m \in wire \cup responding :
       m.type = "join" /\ m.from = peer /\ m.to = n /\ m.id = id

ExchangeInv ==
  \A n, peer \in Nodes, id \in JoinIDs :
    <<n, peer, id>> \in exchanges =>
      /\ Reaches(n, peer) /\ Reaches(peer, n) /\ id \in selfJoins[n]
      /\ n \in Has(peer, id) \/ joiners[peer][id].ValuesOk \/ Underway(n, peer, id)

\* The inductive invariant.
IInv == TypeOK /\ SetsInv /\ SharesInv /\ CallbackInv /\ LinksInv /\ ExchangeInv
-----------------------------------------------------------------------------

\* What an insertion does to the JoinSet and to the callback cb that it finds there
\* or sets.
InsertEffect(n, from, id, cb, js) ==
  /\ joiners' = [joiners EXCEPT ![n][id] = js]
  /\ JoinSetOK(js)
  /\ joiners[n][id].ValuesOk => js.ValuesOk /\ js.Values = joiners[n][id].Values
  /\ js.Set = IF joiners[n][id].ValuesOk THEN joiners[n][id].Set
                                         ELSE joiners[n][id].Set \cup {from}
  /\ ~js.ValuesOk => js.Callback = cb
  /\ called' = IF js.ValuesOk /\ cb # NilCallback
                 THEN [called EXCEPT ![n][id] = @ + 1] ELSE called

\* The critical section of insertJoin at a node.
LEMMA InsertHasEffect ==
  ASSUME TypeOK, SetsInv, NEW n \in Nodes, NEW from \in Nodes, NEW id \in JoinIDs,
         NEW callback \in {NilCallback, NewCallback}, NEW override \in BOOLEAN,
         Insert(n, JoinOf(from, id), callback, override)
  PROVE  \E js \in JoinSetType :
           InsertEffect(n, from, id,
                        IF override THEN callback ELSE joiners[n][id].Callback, js)
<1> DEFINE old == joiners[n][id]
           join == JoinOf(from, id)
           loaded == LoadJoinSet(old, join)
           inserted == AcceptJoin(loaded, join, callback, override)
           cb == IF override THEN callback ELSE old.Callback
<1>1. /\ old \in JoinSetType /\ JoinSetOK(old)
      /\ join.ID = id /\ join.Index = from /\ join.Len = 1
  BY DEF TypeOK, SetsInv, JoinOf
<1>2. /\ loaded \in JoinSetType
      /\ loaded.Set = old.Set /\ loaded.ValuesOk = old.ValuesOk
      /\ loaded.Values = old.Values /\ loaded.Callback = old.Callback
  BY <1>1 DEF LoadJoinSet, NewJoinSet, JoinSetType
<1>3. /\ inserted \in JoinSetType
      /\ inserted.Callback = cb /\ inserted.ValuesOk = old.ValuesOk
      /\ inserted.Values = old.Values
      /\ inserted.Set = (IF old.ValuesOk THEN old.Set ELSE old.Set \cup {from})
  BY <1>1, <1>2 DEF AcceptJoin, JoinSetType
<1>4. IsFiniteSet(inserted.Set) /\ Cardinality(inserted.Set) \in Nat
  <2>1. IsFiniteSet(inserted.Set)
    BY <1>3, FS_Subset, SmpcAssumption DEF JoinSetType
  <2> QED BY <2>1, FS_CardinalityType
<1>5. PICK known \in IF TooFewJoins(inserted) THEN {inserted} ELSE ReconstructJoinSet(inserted) :
        /\ joiners' = [joiners EXCEPT ![n][id] =
                         IF known.ValuesOk THEN ClearCallback(known) ELSE known]
        /\ called' = IF known.ValuesOk /\ known.Callback # NilCallback
                       THEN [called EXCEPT ![n][id] = @ + 1] ELSE called
  BY <1>1 DEF Insert
<1> HIDE DEF loaded, inserted, join
<1>6. /\ known \in JoinSetType /\ known.Callback = cb /\ known.Set = inserted.Set
      /\ known.ValuesOk <=> ~TooFewJoins(inserted)
      /\ known.ValuesOk => \A i \in DOMAIN known.Values : known.Values[i] \subseteq known.Set
      /\ old.ValuesOk => known.ValuesOk /\ known.Values = old.Values
  <2>1. CASE TooFewJoins(inserted)
    <3>1. ~inserted.ValuesOk
      BY <1>1, <1>3, <1>4, <2>1, JoinSetsAssumption DEF JoinSetOK, TooFewJoins
    <3> QED BY <1>3, <1>5, <2>1, <3>1
  <2>2. CASE ~TooFewJoins(inserted) /\ inserted.ValuesOk
    BY <1>1, <1>3, <1>5, <2>2 DEF ReconstructJoinSet, JoinSetOK
  <2>3. CASE ~TooFewJoins(inserted) /\ ~inserted.ValuesOk
    <3>1. PICK values \in Reconstructions(inserted) :
            known = [inserted EXCEPT !.ValuesOk = TRUE, !.Values = values]
      BY <1>5, <2>3 DEF ReconstructJoinSet
    <3>2. inserted.ValuesLen \in {-1, 1} /\ inserted.Set \in SUBSET Nodes
      BY <1>3 DEF JoinSetType
    <3>3. values \in [1 .. inserted.ValuesLen -> SUBSET inserted.Set]
      BY <3>1 DEF Reconstructions
    <3>4. values \in JoinValues
      BY <3>2, <3>3 DEF JoinValues
    <3> QED BY <1>3, <2>3, <3>1, <3>3, <3>4 DEF JoinSetType
  <2> QED BY <2>1, <2>2, <2>3
<1> DEFINE js == IF known.ValuesOk THEN ClearCallback(known) ELSE known
<1>7. /\ js \in JoinSetType /\ js.ValuesOk = known.ValuesOk /\ js.Set = known.Set
      /\ js.Values = known.Values
      /\ js.Callback = IF known.ValuesOk THEN NilCallback ELSE cb
  BY <1>6 DEF ClearCallback, JoinSetType
<1>8. JoinSetOK(js)
  BY <1>4, <1>6, <1>7, JoinSetsAssumption DEF JoinSetOK, TooFewJoins
<1>9. InsertEffect(n, from, id, cb, js)
  BY <1>1, <1>3, <1>5, <1>6, <1>7, <1>8 DEF InsertEffect
<1> QED BY <1>7, <1>9

\* The state after an insertion, node by node.
LEMMA InsertPointwise ==
  ASSUME TypeOK, NEW n \in Nodes, NEW from \in Nodes, NEW id \in JoinIDs,
         NEW cb, NEW js \in JoinSetType, InsertEffect(n, from, id, cb, js)
  PROVE  /\ joiners' \in [Nodes -> [JoinIDs -> JoinSetType]]
         /\ called' \in [Nodes -> [JoinIDs -> Nat]]
         /\ \A m \in Nodes, other \in JoinIDs :
              IF m = n /\ other = id
                THEN /\ joiners'[m][other] = js
                     /\ called'[m][other] = IF js.ValuesOk /\ cb # NilCallback
                                             THEN called[m][other] + 1 ELSE called[m][other]
                ELSE /\ joiners'[m][other] = joiners[m][other]
                     /\ called'[m][other] = called[m][other]
BY DEF InsertEffect, TypeOK

\* An insertion keeps JoinSets well formed, and no JoinSet loses a share.
LEMMA InsertKeepsSets ==
  ASSUME TypeOK, SetsInv, NEW n \in Nodes, NEW from \in Nodes, NEW id \in JoinIDs,
         NEW cb, NEW js \in JoinSetType, InsertEffect(n, from, id, cb, js)
  PROVE  /\ SetsInv'
         /\ \A m \in Nodes, other \in JoinIDs :
              /\ Has(m, other) \subseteq Has(m, other)'
              /\ Has(m, other)' \subseteq
                   Has(m, other) \cup (IF m = n /\ other = id THEN {from} ELSE {})
              /\ joiners[m][other].ValuesOk => joiners'[m][other].ValuesOk
         /\ from \in Has(n, id)' \/ joiners'[n][id].ValuesOk
<1>1. SetsInv'
  BY InsertPointwise DEF SetsInv, InsertEffect
<1>2. ASSUME NEW m \in Nodes, NEW other \in JoinIDs
      PROVE  /\ Has(m, other) \subseteq Has(m, other)'
             /\ Has(m, other)' \subseteq
                  Has(m, other) \cup (IF m = n /\ other = id THEN {from} ELSE {})
             /\ joiners[m][other].ValuesOk => joiners'[m][other].ValuesOk
  <2>1. CASE m = n /\ other = id
    <3>1. joiners'[n][id] = js
      BY InsertPointwise
    <3> QED BY <2>1, <3>1 DEF InsertEffect, Has
  <2>2. CASE ~(m = n /\ other = id)
    <3>1. joiners'[m][other] = joiners[m][other]
      BY <2>2, InsertPointwise
    <3> QED BY <3>1 DEF Has
  <2> QED BY <2>1, <2>2
<1>3. from \in Has(n, id)' \/ joiners'[n][id].ValuesOk
  <2>1. joiners'[n][id] = js
    BY InsertPointwise
  <2> QED BY <2>1 DEF InsertEffect, Has
<1> QED BY <1>1, <1>2, <1>3

\* The initial state satisfies the inductive invariant.
LEMMA InitIInv == Init => IInv
<1> SUFFICES ASSUME Init PROVE IInv
  OBVIOUS
<1>1. /\ NoJoinSet.Set = {} /\ NoJoinSet.ValuesOk = FALSE
      /\ NoJoinSet.Callback = NilCallback
  BY DEF NoJoinSet
<1>2. NoJoinSet \in JoinSetType
  BY DEF NoJoinSet, JoinSetType
<1>3. \A n \in Nodes, id \in JoinIDs : joiners[n][id] = NoJoinSet
  BY DEF Init
<1>4. TypeOK
  BY <1>2, SmpcAssumption DEF Init, TypeOK, Phases
<1>5. SetsInv
  <2>1. Cardinality({}) < k
    BY FS_EmptySet, JoinSetsAssumption
  <2> QED BY <1>1, <1>3, <2>1 DEF SetsInv, JoinSetOK
<1>6. SharesInv /\ CallbackInv /\ LinksInv /\ ExchangeInv
  BY <1>1, <1>3 DEF Init, SharesInv, CallbackInv, LinksInv, ExchangeInv, Has
<1> QED BY <1>4, <1>5, <1>6 DEF IInv

\* The steps that insert a Join: Join itself.
LEMMA JoinInsertKeeps ==
  ASSUME IInv, NEW n \in Nodes, NEW id \in JoinIDs, JoinInsert(n, id)
  PROVE  IInv'
<1> USE DEF IInv, netVars
<1>1. CASE ~HasJoiner(n) /\ joining' = [joining EXCEPT ![n][id] = "refused"]
           /\ UNCHANGED <<joiners, called>>
  <2>1. TypeOK'
    BY <1>1 DEF JoinInsert, TypeOK
  <2>2. SetsInv'
    BY <1>1 DEF JoinInsert, SetsInv
  <2>3. SharesInv'
    BY <1>1 DEF JoinInsert, SharesInv, Has, TypeOK
  <2>4. CallbackInv'
    BY <1>1 DEF JoinInsert, CallbackInv, TypeOK, HasJoiner
  <2>5. LinksInv'
    BY DEF JoinInsert, LinksInv
  <2>6. ExchangeInv'
    <3> SUFFICES ASSUME NEW m \in Nodes, NEW peer \in Nodes, NEW other \in JoinIDs,
                        <<m, peer, other>> \in exchanges'
                 PROVE  ExchangeInv!(m, peer, other)!2'
      BY DEF ExchangeInv
    <3> QED BY <1>1 DEF JoinInsert, ExchangeInv, Reaches, Has, Underway
  <2> QED BY <2>1, <2>2, <2>3, <2>4, <2>5, <2>6
<1>2. CASE HasJoiner(n) /\ joining' = [joining EXCEPT ![n][id] = "inserted"]
           /\ Insert(n, JoinOf(n, id), NewCallback, TRUE)
  <2>1. PICK js \in JoinSetType : InsertEffect(n, n, id, NewCallback, js)
    BY <1>2, InsertHasEffect
  <2>2. TypeOK'
    BY <1>2, <2>1, InsertPointwise DEF JoinInsert, TypeOK
  <2>3. SetsInv'
    BY <2>1, InsertKeepsSets
  <2>4. SharesInv'
    BY <1>2, <2>1, InsertKeepsSets DEF JoinInsert, SharesInv, TypeOK
  <2>5. CallbackInv'
    <3>1. called[n][id] = 0 /\ joiners[n][id].Callback = NilCallback
      BY DEF JoinInsert, CallbackInv
    <3>2. NewCallback # NilCallback /\ phase[n] # "apart"
      BY <1>2, SmpcAssumption DEF HasJoiner
    <3> SUFFICES ASSUME NEW m \in Nodes, NEW other \in JoinIDs
                 PROVE  CallbackInv!(m, other)'
      BY DEF CallbackInv
    <3>3. CASE m = n /\ other = id
      BY <1>2, <2>1, <3>1, <3>2, <3>3, InsertPointwise DEF JoinInsert, TypeOK, InsertEffect
    <3>4. CASE ~(m = n /\ other = id)
      BY <1>2, <2>1, <3>4, InsertPointwise DEF JoinInsert, TypeOK, CallbackInv, HasJoiner
    <3> QED BY <3>3, <3>4
  <2>6. LinksInv'
    BY DEF JoinInsert, LinksInv
  <2>7. ExchangeInv'
    <3> SUFFICES ASSUME NEW m \in Nodes, NEW peer \in Nodes, NEW other \in JoinIDs,
                        <<m, peer, other>> \in exchanges'
                 PROVE  ExchangeInv!(m, peer, other)!2'
      BY DEF ExchangeInv
    <3>1. /\ Has(peer, other) \subseteq Has(peer, other)'
          /\ joiners[peer][other].ValuesOk => joiners'[peer][other].ValuesOk
      BY <2>1, InsertKeepsSets
    <3>2. /\ UNCHANGED <<exchanges, selfJoins, links, senders>>
          /\ Underway(m, peer, other) => Underway(m, peer, other)'
      BY DEF JoinInsert, Underway
    <3> QED BY <3>1, <3>2 DEF ExchangeInv, Reaches
  <2> QED BY <2>2, <2>3, <2>4, <2>5, <2>6, <2>7
<1> QED BY <1>1, <1>2 DEF JoinInsert

\* What the two handlers of messages do to the JoinSets.
LEMMA ReceiveEffect ==
  ASSUME IInv, NEW m \in wire, InsertReceived(m)
  PROVE  /\ joiners' \in [Nodes -> [JoinIDs -> JoinSetType]]
         /\ called' \in [Nodes -> [JoinIDs -> Nat]]
         /\ SetsInv'
         /\ \A n \in Nodes, id \in JoinIDs :
              /\ Has(n, id) \subseteq Has(n, id)'
              /\ Has(n, id)' \subseteq
                   Has(n, id) \cup (IF n = m.to /\ id = m.id THEN {m.from} ELSE {})
              /\ joiners[n][id].ValuesOk => joiners'[n][id].ValuesOk
         /\ HasJoiner(m.to) => m.from \in Has(m.to, m.id)' \/ joiners'[m.to][m.id].ValuesOk
         /\ UNCHANGED <<phase, joining>> => CallbackInv'
<1> USE DEF IInv
<1>1. m.to \in Nodes /\ m.from \in Nodes /\ m.id \in JoinIDs
  BY DEF TypeOK, Messages
<1>2. CASE ~HasJoiner(m.to)
  BY <1>1, <1>2 DEF InsertReceived, TypeOK, SetsInv, Has, CallbackInv, HasJoiner
<1>3. CASE HasJoiner(m.to)
  <2> DEFINE cb == joiners[m.to][m.id].Callback
  <2>1. Insert(m.to, JoinOf(m.from, m.id), NilCallback, FALSE)
    BY <1>3 DEF InsertReceived
  <2>2. PICK js \in JoinSetType : InsertEffect(m.to, m.from, m.id, cb, js)
    BY <1>1, <2>1, InsertHasEffect
  <2>3. ASSUME UNCHANGED <<phase, joining>>
        PROVE  CallbackInv'
    <3> SUFFICES ASSUME NEW n \in Nodes, NEW id \in JoinIDs
                 PROVE  CallbackInv!(n, id)'
      BY DEF CallbackInv
    <3>1. CASE n = m.to /\ id = m.id
      <4>1. JoinSetOK(joiners[n][id]) /\ CallbackInv!(n, id)
        BY DEF SetsInv, CallbackInv
      <4>2. /\ joiners'[n][id] = js
            /\ called'[n][id] = IF js.ValuesOk /\ cb # NilCallback
                                 THEN called[n][id] + 1 ELSE called[n][id]
        BY <1>1, <2>2, <3>1, InsertPointwise
      <4>3. NewCallback # NilCallback /\ HasJoiner(n)
        BY <1>3, <3>1, SmpcAssumption
      <4>4. called[n][id] \in Nat /\ HasJoiner(n)' = HasJoiner(n)
        BY <2>3 DEF TypeOK, HasJoiner
      <4>5. /\ joiners[n][id].ValuesOk => js.ValuesOk
            /\ ~js.ValuesOk => js.Callback = cb
            /\ js.ValuesOk => js.Callback = NilCallback
        BY <2>2, <3>1 DEF InsertEffect, JoinSetOK
      <4>6. joiners[n][id].ValuesOk => cb = NilCallback
        BY <3>1, <4>1 DEF JoinSetOK
      <4> QED BY <2>3, <3>1, <4>1, <4>2, <4>3, <4>4, <4>5, <4>6
    <3>2. CASE ~(n = m.to /\ id = m.id)
      <4>1. joiners'[n][id] = joiners[n][id] /\ called'[n][id] = called[n][id]
        BY <1>1, <2>2, <3>2, InsertPointwise
      <4> QED BY <2>3, <4>1 DEF CallbackInv, HasJoiner
    <3> QED BY <3>1, <3>2
  <2> QED BY <1>1, <2>2, <2>3, InsertPointwise, InsertKeepsSets
<1> QED BY <1>2, <1>3

\* The handlers of messages keep the invariant.
LEMMA HandleMessageJoinKeeps ==
  ASSUME IInv, NEW m \in wire, HandleMessageJoin(m) \/ HandleMessageJoinResponse(m)
  PROVE  IInv'
<1> USE DEF IInv
<1>1. m.to \in Nodes /\ m.from \in Nodes /\ m.id \in JoinIDs /\ m \in Messages
  BY DEF TypeOK, Messages
<1>2. /\ InsertReceived(m) /\ wire' = wire \ {m}
      /\ UNCHANGED <<phase, senders, links, breaks, selfJoins, joining, sending, exchanges>>
      /\ responding' = responding \cup {m} \/ (responding' = responding /\ m.type # "join")
  BY DEF HandleMessageJoin, HandleMessageJoinResponse, netVars
<1>3. TypeOK'
  BY <1>1, <1>2, ReceiveEffect DEF TypeOK
<1>4. SetsInv' /\ CallbackInv'
  BY <1>2, ReceiveEffect
<1>5. SharesInv'
  <2>1. m.id \in selfJoins[m.from]
    BY DEF SharesInv
  <2>2. \A n \in Nodes, id \in JoinIDs : \A i \in Has(n, id)' : id \in selfJoins[i]
    BY <1>1, <1>2, <2>1, ReceiveEffect DEF SharesInv
  <2> QED BY <1>2, <2>1, <2>2 DEF SharesInv
<1>6. LinksInv'
  BY <1>2 DEF LinksInv
<1>7. ExchangeInv'
  <2> SUFFICES ASSUME NEW n \in Nodes, NEW peer \in Nodes, NEW id \in JoinIDs,
                      <<n, peer, id>> \in exchanges
               PROVE  ExchangeInv!(n, peer, id)!2'
    BY <1>2 DEF ExchangeInv
  <2>1. ExchangeInv!(n, peer, id)!2
    BY DEF ExchangeInv
  <2>2. Reaches(n, peer)' /\ Reaches(peer, n)' /\ id \in selfJoins'[n]
    BY <1>2, <2>1 DEF Reaches
  <2>3. HasJoiner(peer)
    BY <2>1 DEF Reaches, LinksInv, HasJoiner
  <2>4. CASE n \in Has(peer, id) \/ joiners[peer][id].ValuesOk
    BY <1>2, <2>2, <2>4, ReceiveEffect
  <2>5. CASE \E w \in wire : w.from = n /\ w.to = peer /\ w.id = id
    <3>1. PICK w \in wire : w.from = n /\ w.to = peer /\ w.id = id
      BY <2>5
    <3>2. CASE w = m
      BY <1>2, <2>2, <2>3, <3>1, <3>2, ReceiveEffect
    <3>3. CASE w # m
      BY <1>2, <2>2, <3>1, <3>3 DEF Underway
    <3> QED BY <3>2, <3>3
  <2>6. CASE \E w \in wire \cup responding :
                w.type = "join" /\ w.from = peer /\ w.to = n /\ w.id = id
    BY <1>2, <2>2, <2>6 DEF Underway
  <2> QED BY <2>1, <2>4, <2>5, <2>6 DEF Underway
<1> QED BY <1>3, <1>4, <1>5, <1>6, <1>7

\* The goroutines that send keep the invariant.
LEMMA SenderSendKeeps ==
  ASSUME IInv, NEW m \in sending, SenderSend(m)
  PROVE  IInv'
<1> USE DEF IInv
<1>1. /\ m.to \in Nodes /\ m.from \in Nodes /\ m.id \in JoinIDs /\ m \in Messages
      /\ m.type = "join" /\ m.id \in selfJoins[m.from]
  BY DEF TypeOK, Messages, SharesInv
<1>2. TypeOK'
  BY <1>1 DEF TypeOK, SenderSend, netVars
<1>3. SetsInv' /\ CallbackInv' /\ LinksInv'
  BY DEF SenderSend, netVars, SetsInv, CallbackInv, LinksInv, HasJoiner
<1>4. SharesInv'
  BY DEF SenderSend, SharesInv, Has
<1>5. ExchangeInv'
  <2> SUFFICES ASSUME NEW n \in Nodes, NEW peer \in Nodes, NEW id \in JoinIDs,
                      <<n, peer, id>> \in exchanges'
               PROVE  ExchangeInv!(n, peer, id)!2'
    BY DEF ExchangeInv
  <2>1. wire \subseteq wire' /\ UNCHANGED <<responding, senders, links, selfJoins, joiners>>
    BY DEF SenderSend, netVars
  <2>2. CASE <<n, peer, id>> \in exchanges
    <3>1. ExchangeInv!(n, peer, id)!2
      BY <2>2 DEF ExchangeInv
    <3>2. Underway(n, peer, id) => Underway(n, peer, id)'
      BY <2>1 DEF Underway
    <3> QED BY <2>1, <3>1, <3>2 DEF Reaches, Has
  <2>3. CASE <<n, peer, id>> \notin exchanges
    <3>1. /\ Paired(m) /\ id = m.id
          /\ (n = m.from /\ peer = m.to) \/ (n = m.to /\ peer = m.from)
      BY <2>3 DEF SenderSend
    <3>2. m \in wire'
      BY <3>1 DEF SenderSend, Paired
    <3>3. Underway(n, peer, id)'
      BY <1>1, <3>1, <3>2 DEF Underway
    <3>4. Reaches(n, peer)' /\ Reaches(peer, n)' /\ id \in selfJoins'[n]
      BY <1>1, <2>1, <3>1 DEF Paired, Reaches
    <3> QED BY <3>3, <3>4
  <2> QED BY <2>2, <2>3
<1> QED BY <1>2, <1>3, <1>4, <1>5

\* The goroutines that respond keep the invariant: a node that still can answers.
LEMMA RespondKeeps ==
  ASSUME IInv, NEW m \in responding, Respond(m)
  PROVE  IInv'
<1> USE DEF IInv
<1> DEFINE response == [type |-> "joinResponse", from |-> m.to, to |-> m.from, id |-> m.id]
<1>1. /\ m.to \in Nodes /\ m.from \in Nodes /\ m.id \in JoinIDs
      /\ response \in Messages
  BY DEF TypeOK, Messages
<1>2. /\ wire \subseteq wire' /\ wire' \subseteq wire \cup {response}
      /\ m.id \in selfJoins[m.to] /\ Reaches(m.to, m.from) => response \in wire'
      /\ response \in wire' => response \in wire \/ m.id \in selfJoins[m.to]
      /\ responding' = responding \ {m}
      /\ UNCHANGED <<phase, senders, links, breaks, joiners, selfJoins, joining, sending,
                     called, exchanges>>
  BY DEF Respond, netVars
<1>3. TypeOK'
  BY <1>1, <1>2 DEF TypeOK
<1>4. SetsInv' /\ CallbackInv' /\ LinksInv'
  BY <1>2 DEF SetsInv, CallbackInv, LinksInv, HasJoiner
<1>5. SharesInv'
  <2>1. ASSUME NEW w \in wire' PROVE w.id \in selfJoins[w.from]
    BY <1>2 DEF SharesInv
  <2> QED BY <1>2, <2>1 DEF SharesInv, Has
<1>6. ExchangeInv'
  <2> SUFFICES ASSUME NEW n \in Nodes, NEW peer \in Nodes, NEW id \in JoinIDs,
                      <<n, peer, id>> \in exchanges
               PROVE  ExchangeInv!(n, peer, id)!2'
    BY <1>2 DEF ExchangeInv
  <2>1. ExchangeInv!(n, peer, id)!2
    BY DEF ExchangeInv
  <2>2. Reaches(n, peer)' /\ Reaches(peer, n)' /\ id \in selfJoins'[n]
    BY <1>2, <2>1 DEF Reaches
  <2>3. CASE n \in Has(peer, id) \/ joiners[peer][id].ValuesOk
    BY <1>2, <2>2, <2>3 DEF Has
  <2>4. CASE \E w \in wire : w.from = n /\ w.to = peer /\ w.id = id
    BY <1>2, <2>2, <2>4 DEF Underway
  <2>5. CASE \E w \in wire \cup responding :
                w.type = "join" /\ w.from = peer /\ w.to = n /\ w.id = id
    <3>1. PICK w \in wire \cup responding :
                w.type = "join" /\ w.from = peer /\ w.to = n /\ w.id = id
      BY <2>5
    <3>2. CASE w = m
      <4>1. response \in wire' /\ response.from = n /\ response.to = peer /\ response.id = id
        BY <1>2, <2>1, <3>1, <3>2
      <4> QED BY <2>2, <4>1 DEF Underway
    <3>3. CASE w # m
      BY <1>2, <2>2, <3>1, <3>3 DEF Underway
    <3> QED BY <3>2, <3>3
  <2> QED BY <2>1, <2>3, <2>4, <2>5 DEF Underway
<1> QED BY <1>3, <1>4, <1>5, <1>6

\* Where shares, messages, senders and links stay or grow, so does what an exchange
\* relies on.
LEMMA ExchangeStays ==
  ASSUME IInv, exchanges' \subseteq exchanges,
         \A n \in Nodes : senders[n] \subseteq senders'[n] /\ selfJoins[n] \subseteq selfJoins'[n],
         UNCHANGED <<joiners, wire, responding>>, links \subseteq links'
  PROVE  ExchangeInv'
<1> SUFFICES ASSUME NEW n \in Nodes, NEW peer \in Nodes, NEW id \in JoinIDs,
                    <<n, peer, id>> \in exchanges'
             PROVE  ExchangeInv!(n, peer, id)!2'
  BY DEF ExchangeInv
<1>1. ExchangeInv!(n, peer, id)!2
  BY DEF IInv, ExchangeInv
<1>2. Underway(n, peer, id)' = Underway(n, peer, id) /\ Has(peer, id)' = Has(peer, id)
  BY DEF Underway, Has
<1> QED BY <1>1, <1>2 DEF Reaches

\* The steps of Connect keep the invariant.
LEMMA ConnectKeeps ==
  ASSUME IInv, NEW n \in Nodes, Connect(n) \/ ConnectNetwork(n)
  PROVE  IInv'
<1> USE DEF IInv
<1>1. PICK next \in {"joiner", "connected"} : phase' = [phase EXCEPT ![n] = next]
  BY DEF Connect, ConnectNetwork
<1>2. /\ phase[n] \in {"apart", "joiner"}
      /\ UNCHANGED <<joiners, senders, links, breaks, selfJoins, joining, sending, wire,
                     responding, called, exchanges>>
  BY DEF Connect, ConnectNetwork
<1>3. /\ phase' \in [Nodes -> Phases]
      /\ \A m \in Nodes : phase'[m] = IF m = n THEN next ELSE phase[m]
  BY <1>1 DEF TypeOK, Phases
<1>4. TypeOK'
  BY <1>2, <1>3 DEF TypeOK
<1>5. SetsInv' /\ SharesInv'
  BY <1>2 DEF SetsInv, SharesInv, Has
<1>6. CallbackInv'
  <2> SUFFICES ASSUME NEW m \in Nodes, NEW id \in JoinIDs
               PROVE  CallbackInv!(m, id)'
    BY DEF CallbackInv
  <2>1. CallbackInv!(m, id)
    BY DEF CallbackInv
  <2>2. CASE m # n
    BY <1>2, <1>3, <2>1, <2>2 DEF HasJoiner
  <2>3. CASE m = n
    <3>1. CASE phase[n] = "joiner"
      BY <1>2, <1>3, <2>1, <2>3, <3>1 DEF HasJoiner
    <3>2. CASE phase[n] = "apart"
      BY <1>2, <1>3, <2>1, <2>3, <3>2 DEF TypeOK
    <3> QED BY <1>2, <3>1, <3>2
  <2> QED BY <2>2, <2>3
<1>7. LinksInv'
  BY <1>2, <1>3 DEF LinksInv
<1>8. ExchangeInv'
  BY <1>2, ExchangeStays
<1> QED BY <1>4, <1>5, <1>6, <1>7, <1>8

\* A sender that is stored keeps the invariant.
LEMMA StoreSenderKeeps ==
  ASSUME IInv, NEW n \in Nodes, NEW peer \in Nodes, StoreSender(n, peer)
  PROVE  IInv'
<1> USE DEF IInv
<1>1. /\ senders' = [senders EXCEPT ![n] = @ \cup {peer}]
      /\ UNCHANGED <<phase, joiners, links, breaks, selfJoins, joining, sending, wire,
                     responding, called, exchanges>>
  BY DEF StoreSender
<1>2. /\ senders' \in [Nodes -> SUBSET Nodes]
      /\ \A m \in Nodes : senders[m] \subseteq senders'[m]
  BY <1>1 DEF TypeOK
<1>3. TypeOK'
  BY <1>1, <1>2 DEF TypeOK
<1>4. SetsInv' /\ SharesInv'
  BY <1>1 DEF SetsInv, SharesInv, Has
<1>5. CallbackInv' /\ LinksInv'
  BY <1>1 DEF CallbackInv, HasJoiner, LinksInv
<1>6. ExchangeInv'
  BY <1>1, <1>2, ExchangeStays
<1> QED BY <1>3, <1>4, <1>5, <1>6

\* A stream that comes up keeps the invariant.
LEMMA LinkUpKeeps ==
  ASSUME IInv, NEW n \in Nodes, NEW peer \in Nodes, LinkUp(n, peer)
  PROVE  IInv'
<1> USE DEF IInv
<1>1. /\ links' = links \cup {{n, peer}}
      /\ phase[n] = "connected" /\ phase[peer] = "connected"
      /\ UNCHANGED <<phase, joiners, senders, breaks, selfJoins, joining, sending, wire,
                     responding, called, exchanges>>
  BY DEF LinkUp, HasNetwork
<1>2. TypeOK'
  <2>1. links' \subseteq {{a, b} : a, b \in Nodes}
    BY <1>1 DEF TypeOK
  <2> QED BY <1>1, <2>1 DEF TypeOK
<1>3. SetsInv' /\ SharesInv'
  BY <1>1 DEF SetsInv, SharesInv, Has
<1>4. CallbackInv'
  BY <1>1 DEF CallbackInv, HasJoiner
<1>5. LinksInv'
  BY <1>1 DEF LinksInv
<1>6. ExchangeInv'
  BY <1>1, ExchangeStays
<1> QED BY <1>2, <1>3, <1>4, <1>5, <1>6

\* Where links go down, their messages and exchanges go with them, and what the
\* other exchanges rely on stays.
LEMMA ExchangeShrinks ==
  ASSUME IInv, exchanges' \subseteq exchanges,
         UNCHANGED <<joiners, responding, selfJoins>>,
         \A a, b \in Nodes, id \in JoinIDs : <<a, b, id>> \in exchanges' =>
           /\ Reaches(a, b) /\ Reaches(b, a) => Reaches(a, b)' /\ Reaches(b, a)'
           /\ \A w \in wire : {w.from, w.to} = {a, b} => w \in wire'
  PROVE  ExchangeInv'
<1> SUFFICES ASSUME NEW a \in Nodes, NEW b \in Nodes, NEW id \in JoinIDs,
                    <<a, b, id>> \in exchanges'
             PROVE  ExchangeInv!(a, b, id)!2'
  BY DEF ExchangeInv
<1>1. ExchangeInv!(a, b, id)!2
  BY DEF IInv, ExchangeInv
<1>2. Underway(a, b, id) => Underway(a, b, id)'
  BY DEF Underway
<1>3. Reaches(a, b)' /\ Reaches(b, a)' /\ id \in selfJoins'[a]
  BY <1>1
<1>4. Has(b, id)' = Has(b, id) /\ joiners'[b][id] = joiners[b][id]
  BY DEF Has
<1> QED BY <1>1, <1>2, <1>3, <1>4

\* A link that breaks keeps the invariant.
LEMMA LinkDownKeeps ==
  ASSUME IInv, NEW n \in Nodes, NEW peer \in Nodes, LinkDown(n, peer)
  PROVE  IInv'
<1> USE DEF IInv
<1>1. /\ links' = links \ {{n, peer}}
      /\ breaks < MaxBreaks /\ breaks' = breaks + 1
      /\ wire' = {m \in wire : {m.from, m.to} # {n, peer}}
      /\ exchanges' = {e \in exchanges : {e[1], e[2]} # {n, peer}}
      /\ UNCHANGED <<phase, joiners, senders, selfJoins, joining, sending, responding, called>>
  BY DEF LinkDown
<1>2. TypeOK'
  <2>1. breaks' \in 0 .. MaxBreaks
    BY <1>1, SmpcAssumption DEF TypeOK
  <2> QED BY <1>1, <2>1 DEF TypeOK
<1>3. SetsInv' /\ SharesInv'
  BY <1>1 DEF SetsInv, SharesInv, Has
<1>4. CallbackInv' /\ LinksInv'
  BY <1>1 DEF CallbackInv, HasJoiner, LinksInv
<1>5. ExchangeInv'
  <2>1. ASSUME NEW a \in Nodes, NEW b \in Nodes, NEW id \in JoinIDs,
               <<a, b, id>> \in exchanges'
        PROVE  /\ Reaches(a, b) /\ Reaches(b, a) => Reaches(a, b)' /\ Reaches(b, a)'
               /\ \A w \in wire : {w.from, w.to} = {a, b} => w \in wire'
    <3>1. {a, b} # {n, peer}
      BY <1>1, <2>1
    <3>2. Reaches(a, b) /\ Reaches(b, a) => Reaches(a, b)' /\ Reaches(b, a)'
      <4>1. {b, a} = {a, b}
        OBVIOUS
      <4> QED BY <1>1, <3>1, <4>1 DEF Reaches
    <3>3. \A w \in wire : {w.from, w.to} = {a, b} => w \in wire'
      BY <1>1, <3>1
    <3> QED BY <3>2, <3>3
  <2>2. exchanges' \subseteq exchanges
    BY <1>1
  <2> QED BY <1>1, <2>1, <2>2, ExchangeShrinks
<1> QED BY <1>2, <1>3, <1>4, <1>5

\* A node that leaves the network keeps the invariant.
LEMMA DisconnectNetworkKeeps ==
  ASSUME IInv, NEW n \in Nodes, DisconnectNetwork(n)
  PROVE  IInv'
<1> USE DEF IInv
<1>1. /\ phase[n] = "connected" /\ phase' = [phase EXCEPT ![n] = "leaving"]
      /\ senders' = [senders EXCEPT ![n] = {}]
      /\ links' = {l \in links : n \notin l}
      /\ wire' = {m \in wire : n \notin {m.from, m.to}}
      /\ exchanges' = {e \in exchanges : n \notin {e[1], e[2]}}
      /\ UNCHANGED <<joiners, breaks, selfJoins, joining, sending, responding, called>>
  BY DEF DisconnectNetwork
<1>2. /\ phase' \in [Nodes -> Phases] /\ senders' \in [Nodes -> SUBSET Nodes]
      /\ \A m \in Nodes : m # n => phase'[m] = phase[m] /\ senders'[m] = senders[m]
      /\ phase'[n] = "leaving"
  BY <1>1 DEF TypeOK, Phases
<1>3. TypeOK'
  BY <1>1, <1>2 DEF TypeOK
<1>4. SetsInv' /\ SharesInv'
  BY <1>1 DEF SetsInv, SharesInv, Has
<1>5. CallbackInv'
  <2> SUFFICES ASSUME NEW m \in Nodes, NEW id \in JoinIDs
               PROVE  CallbackInv!(m, id)'
    BY DEF CallbackInv
  <2>1. CallbackInv!(m, id)
    BY DEF CallbackInv
  <2>2. HasJoiner(m)' = HasJoiner(m) /\ (phase[m] # "apart" => phase'[m] # "apart")
    BY <1>1, <1>2 DEF HasJoiner
  <2> QED BY <1>1, <2>1, <2>2
<1>6. LinksInv'
  BY <1>1, <1>2 DEF LinksInv
<1>7. ExchangeInv'
  <2>1. ASSUME NEW a \in Nodes, NEW b \in Nodes, NEW id \in JoinIDs,
               <<a, b, id>> \in exchanges'
        PROVE  /\ Reaches(a, b) /\ Reaches(b, a) => Reaches(a, b)' /\ Reaches(b, a)'
               /\ \A w \in wire : {w.from, w.to} = {a, b} => w \in wire'
    <3>1. n # a /\ n # b
      BY <1>1, <2>1
    <3>2. Reaches(a, b) /\ Reaches(b, a) => Reaches(a, b)' /\ Reaches(b, a)'
      BY <1>1, <1>2, <3>1 DEF Reaches
    <3>3. \A w \in wire : {w.from, w.to} = {a, b} => w \in wire'
      BY <1>1, <3>1
    <3> QED BY <3>2, <3>3
  <2>2. exchanges' \subseteq exchanges
    BY <1>1
  <2> QED BY <1>1, <2>1, <2>2, ExchangeShrinks
<1> QED BY <1>3, <1>4, <1>5, <1>6, <1>7

\* A node that forgets its Joiner has no link and no exchange any more.
LEMMA DisconnectKeeps ==
  ASSUME IInv, NEW n \in Nodes, Disconnect(n)
  PROVE  IInv'
<1> USE DEF IInv, Disconnect
<1>1. /\ NoJoinSet.Set = {} /\ NoJoinSet.ValuesOk = FALSE
      /\ NoJoinSet.Callback = NilCallback
  BY DEF NoJoinSet
<1>2. NoJoinSet \in JoinSetType
  BY DEF NoJoinSet, JoinSetType
<1>3. TypeOK'
  BY <1>2 DEF TypeOK, Phases
<1>4. \A m \in Nodes, id \in JoinIDs :
        joiners'[m][id] = IF m = n THEN NoJoinSet ELSE joiners[m][id]
  BY DEF TypeOK
<1>5. SetsInv'
  <2>1. Cardinality({}) < k
    BY FS_EmptySet, JoinSetsAssumption
  <2>2. JoinSetOK(NoJoinSet)
    BY <1>1, <2>1 DEF JoinSetOK
  <2> QED BY <1>4, <2>2 DEF SetsInv
<1>6. SharesInv'
  BY <1>1, <1>4 DEF SharesInv, Has
<1>7. CallbackInv'
  BY <1>1, <1>4 DEF CallbackInv, HasJoiner, TypeOK
<1>8. LinksInv'
  BY DEF LinksInv, TypeOK
<1>9. ExchangeInv'
  <2> SUFFICES ASSUME NEW a \in Nodes, NEW b \in Nodes, NEW id \in JoinIDs,
                      <<a, b, id>> \in exchanges
               PROVE  ExchangeInv!(a, b, id)!2'
    BY DEF ExchangeInv
  <2>1. ExchangeInv!(a, b, id)!2
    BY DEF ExchangeInv
  <2>2. b # n
    BY <2>1 DEF Reaches, LinksInv
  <2>3. Underway(a, b, id)' = Underway(a, b, id) /\ Has(b, id)' = Has(b, id)
    BY <1>4, <2>2 DEF Underway, Has
  <2> QED BY <1>4, <2>1, <2>2, <2>3 DEF Reaches
<1> QED BY <1>3, <1>5, <1>6, <1>7, <1>8, <1>9

\* The first part of Join keeps the invariant.
LEMMA JoinKeeps ==
  ASSUME IInv, NEW n \in Nodes, NEW id \in JoinIDs, Join(n, id)
  PROVE  IInv'
<1> USE DEF IInv
<1>1. /\ joining[n][id] = "idle"
      /\ selfJoins' = [selfJoins EXCEPT ![n] = @ \cup {id}]
      /\ joining' = [joining EXCEPT ![n][id] = "kept"]
      /\ UNCHANGED <<phase, senders, links, breaks, joiners, sending, wire, responding,
                     called, exchanges>>
  BY DEF Join, netVars
<1>2. /\ selfJoins' \in [Nodes -> SUBSET JoinIDs]
      /\ joining' \in [Nodes -> [JoinIDs -> {"idle", "kept", "refused", "inserted", "sent"}]]
      /\ \A m \in Nodes : selfJoins[m] \subseteq selfJoins'[m]
      /\ id \in selfJoins'[n]
      /\ \A m \in Nodes, other \in JoinIDs :
           joining'[m][other] = IF m = n /\ other = id THEN "kept" ELSE joining[m][other]
  BY <1>1 DEF TypeOK
<1>3. TypeOK'
  BY <1>1, <1>2 DEF TypeOK
<1>4. SetsInv' /\ LinksInv'
  BY <1>1 DEF SetsInv, LinksInv
<1>5. SharesInv'
  <2>1. ASSUME NEW m \in Nodes, NEW other \in JoinIDs, NEW i \in Has(m, other)'
        PROVE  other \in selfJoins'[i]
    <3>1. i \in Has(m, other) /\ i \in Nodes
      BY <1>1 DEF Has, TypeOK, JoinSetType
    <3> QED BY <1>2, <3>1 DEF SharesInv
  <2>2. ASSUME NEW m \in sending \cup wire \cup responding
        PROVE  m.id \in selfJoins'[m.from]
    BY <1>2 DEF SharesInv, TypeOK, Messages
  <2>3. \A m \in Nodes, other \in JoinIDs : joining'[m][other] # "idle" => other \in selfJoins'[m]
    BY <1>2 DEF SharesInv
  <2> QED BY <1>1, <2>1, <2>2, <2>3 DEF SharesInv
<1>6. CallbackInv'
  BY <1>1, <1>2 DEF CallbackInv, HasJoiner
<1>7. ExchangeInv'
  BY <1>1, <1>2, ExchangeStays
<1> QED BY <1>3, <1>4, <1>5, <1>6, <1>7

\* The last part of Join keeps the invariant.
LEMMA JoinSendKeeps ==
  ASSUME IInv, NEW n \in Nodes, NEW id \in JoinIDs, JoinSend(n, id)
  PROVE  IInv'
<1> USE DEF IInv
<1> DEFINE message(peer) == [type |-> "join", from |-> n, to |-> peer, id |-> id]
<1>1. /\ joining[n][id] = "inserted"
      /\ joining' = [joining EXCEPT ![n][id] = "sent"]
      /\ sending' = sending \cup {message(peer) : peer \in senders[n]}
      /\ UNCHANGED <<phase, senders, links, breaks, joiners, selfJoins, wire, responding,
                     called, exchanges>>
  BY DEF JoinSend, netVars
<1>2. /\ joining' \in [Nodes -> [JoinIDs -> {"idle", "kept", "refused", "inserted", "sent"}]]
      /\ \A m \in Nodes, other \in JoinIDs :
           joining'[m][other] = IF m = n /\ other = id THEN "sent" ELSE joining[m][other]
  BY <1>1 DEF TypeOK
<1>3. ASSUME NEW m \in sending', m \notin sending
      PROVE  m \in Messages /\ m.from = n /\ m.id = id /\ m.type = "join"
  <2>1. PICK peer \in senders[n] : m = message(peer)
    BY <1>1, <1>3
  <2>2. peer \in Nodes
    BY <2>1 DEF TypeOK
  <2> QED BY <2>1, <2>2 DEF Messages
<1>4. TypeOK'
  BY <1>1, <1>2, <1>3 DEF TypeOK
<1>5. SetsInv' /\ LinksInv'
  BY <1>1 DEF SetsInv, LinksInv
<1>6. SharesInv'
  <2>1. id \in selfJoins[n]
    BY <1>1 DEF SharesInv
  <2>2. ASSUME NEW m \in sending' PROVE m.id \in selfJoins[m.from] /\ m.type = "join"
    BY <1>3, <2>1 DEF SharesInv
  <2>3. \A m \in Nodes, other \in JoinIDs : joining'[m][other] # "idle" => other \in selfJoins[m]
    BY <1>2, <2>1 DEF SharesInv
  <2> QED BY <1>1, <2>2, <2>3 DEF SharesInv, Has
<1>7. CallbackInv'
  BY <1>1, <1>2 DEF CallbackInv, HasJoiner
<1>8. ExchangeInv'
  BY <1>1, ExchangeStays
<1> QED BY <1>4, <1>5, <1>6, <1>7, <1>8

\* Every step keeps the inductive invariant.
LEMMA NextIInv == IInv /\ [Next]_vars => IInv'
<1> SUFFICES ASSUME IInv, [Next]_vars PROVE IInv'
  OBVIOUS
<1>1. ASSUME NEW n \in Nodes, Connect(n) \/ ConnectNetwork(n) PROVE IInv'
  BY <1>1, ConnectKeeps
<1>2. ASSUME NEW n \in Nodes, DisconnectNetwork(n) PROVE IInv'
  BY <1>2, DisconnectNetworkKeeps
<1>3. ASSUME NEW n \in Nodes, Disconnect(n) PROVE IInv'
  BY <1>3, DisconnectKeeps
<1>4. ASSUME NEW n \in Nodes, NEW peer \in Nodes,
             StoreSender(n, peer) \/ LinkUp(n, peer) \/ LinkDown(n, peer)
      PROVE  IInv'
  BY <1>4, StoreSenderKeeps, LinkUpKeeps, LinkDownKeeps
<1>5. ASSUME NEW n \in Nodes, NEW id \in JoinIDs,
             Join(n, id) \/ JoinInsert(n, id) \/ JoinSend(n, id)
      PROVE  IInv'
  BY <1>5, JoinKeeps, JoinInsertKeeps, JoinSendKeeps
<1>6. ASSUME NEW m \in sending, SenderSend(m) PROVE IInv'
  BY <1>6, SenderSendKeeps
<1>7. ASSUME NEW m \in wire, HandleMessageJoin(m) \/ HandleMessageJoinResponse(m) PROVE IInv'
  BY <1>7, HandleMessageJoinKeeps
<1>8. ASSUME NEW m \in responding, Respond(m) PROVE IInv'
  BY <1>8, RespondKeeps
<1>9. CASE UNCHANGED vars
  <2>1. UNCHANGED <<phase, joiners, senders, links, breaks, selfJoins, joining, sending,
                    wire, responding, called, exchanges>>
    BY <1>9 DEF vars
  <2>2. TypeOK'
    BY <2>1 DEF IInv, TypeOK
  <2>3. SetsInv' /\ SharesInv'
    BY <2>1 DEF IInv, SetsInv, SharesInv, Has
  <2>4. CallbackInv' /\ LinksInv'
    BY <2>1 DEF IInv, CallbackInv, LinksInv, HasJoiner
  <2>5. ExchangeInv'
    BY <2>1, ExchangeStays
  <2> QED BY <2>2, <2>3, <2>4, <2>5 DEF IInv
<1> QED BY <1>1, <1>2, <1>3, <1>4, <1>5, <1>6, <1>7, <1>8, <1>9 DEF Next
-----------------------------------------------------------------------------

\* The inductive invariant holds in every state of every behaviour.
THEOREM SmpcInvariant == Spec => []IInv
BY InitIInv, NextIInv, PTL DEF Spec

\* The variables of the network of smpcers keep their types.
THEOREM SmpcTypeCorrect == Spec => []TypeOK
<1>1. IInv => TypeOK
  BY DEF IInv
<1> QED BY <1>1, SmpcInvariant, PTL

\* However messages are lost or reordered, no node learns a value before the
\* threshold of Connect has called Join for it, and a value is only ever put together
\* from shares of nodes that did.
THEOREM ThresholdRespected == Spec => []RevealedByThreshold
<1>1. ASSUME IInv PROVE RevealedByThreshold
  <2> SUFFICES ASSUME NEW n \in Nodes, NEW id \in JoinIDs, joiners[n][id].ValuesOk
               PROVE  /\ Cardinality({m \in Nodes : id \in selfJoins[m]}) >= k
                      /\ \A i \in DOMAIN joiners[n][id].Values :
                           \A m \in joiners[n][id].Values[i] : id \in selfJoins[m]
    BY DEF RevealedByThreshold
  <2> DEFINE callers == {m \in Nodes : id \in selfJoins[m]}
  <2>1. /\ Cardinality(Has(n, id)) >= k
        /\ \A i \in DOMAIN joiners[n][id].Values : joiners[n][id].Values[i] \subseteq Has(n, id)
    BY <1>1 DEF IInv, SetsInv, JoinSetOK, Has
  <2>2. Has(n, id) \subseteq Nodes
    BY <1>1 DEF IInv, TypeOK, JoinSetType, Has
  <2>3. \A m \in Has(n, id) : id \in selfJoins[m]
    BY <1>1 DEF IInv, SharesInv
  <2>4. Cardinality(Has(n, id)) <= Cardinality(callers)
    <3>1. IsFiniteSet(callers)
      BY FS_Subset, SmpcAssumption
    <3>2. Has(n, id) \subseteq callers
      BY <2>2, <2>3
    <3> QED BY <3>1, <3>2, FS_Subset
  <2>5. Cardinality(callers) \in Nat /\ Cardinality(Has(n, id)) \in Nat
    BY <2>2, FS_Subset, FS_CardinalityType, SmpcAssumption
  <2>6. Cardinality(callers) >= k
    BY <2>1, <2>4, <2>5, JoinSetsAssumption
  <2> QED BY <2>1, <2>3, <2>6
<1> QED BY <1>1, SmpcInvariant, PTL

\* A node whose Join was inserted has had its callback called, once, exactly when it
\* holds k shares; a Join that returned an error is never called back.
THEOREM CallbackAtQuorum == Spec => []NoSilentQuorum
<1>1. ASSUME IInv PROVE NoSilentQuorum
  <2> SUFFICES ASSUME NEW n \in Nodes, NEW id \in JoinIDs
               PROVE  NoSilentQuorum!(n, id)
    BY DEF NoSilentQuorum
  <2>1. CallbackInv!(n, id) /\ JoinSetOK(joiners[n][id])
    BY <1>1 DEF IInv, CallbackInv, SetsInv
  <2>2. joining[n][id] \in {"idle", "kept", "refused", "inserted", "sent"}
    BY <1>1 DEF IInv, TypeOK
  <2>3. Has(n, id) \subseteq Nodes
    BY <1>1 DEF IInv, TypeOK, JoinSetType, Has
  <2>4. Cardinality(Has(n, id)) \in Nat
    BY <2>3, FS_Subset, FS_CardinalityType, SmpcAssumption
  <2>5. joiners[n][id].ValuesOk <=> Cardinality(Has(n, id)) >= k
    BY <2>1, <2>4, JoinSetsAssumption DEF JoinSetOK, Has
  <2> QED BY <2>1, <2>2, <2>5
<1> QED BY <1>1, SmpcInvariant, PTL

\* The pairwise exchange: two nodes that could reach each other when the later Join was
\* sent both have the other's share once nothing between them is under way, because a
\* Join, or the JoinResponse it provokes, carries it.
THEOREM ExchangeIsMutual == Spec => []ExchangeCompletes
<1>1. ASSUME IInv PROVE ExchangeCompletes
  <2> SUFFICES ASSUME NEW n \in Nodes, NEW peer \in Nodes, NEW id \in JoinIDs,
                      <<n, peer, id>> \in exchanges, Settled(n, peer, id)
               PROVE  n \in Has(peer, id) \/ joiners[peer][id].ValuesOk
    BY DEF ExchangeCompletes
  <2>1. ~Underway(n, peer, id)
    BY DEF Settled, Underway
  <2> QED BY <1>1, <2>1 DEF IInv, ExchangeInv
<1> QED BY <1>1, SmpcInvariant, PTL

\* What is known is not forgotten before Disconnect, and an insertion changes nothing else.
Keeps(n, id) ==
  joiners[n][id].ValuesOk =>
    /\ joiners'[n][id].ValuesOk /\ joiners'[n][id].Values = joiners[n][id].Values
    /\ joiners'[n][id].Set = joiners[n][id].Set

LEMMA InsertKeepsValues ==
  ASSUME IInv, NEW n \in Nodes, NEW id \in JoinIDs, NEW m \in Nodes, NEW other \in JoinIDs,
         NEW from \in Nodes, NEW callback \in {NilCallback, NewCallback}, NEW override \in BOOLEAN,
         Insert(m, JoinOf(from, other), callback, override)
  PROVE  Keeps(n, id)
<1> DEFINE cb == IF override THEN callback ELSE joiners[m][other].Callback
<1>1. PICK js \in JoinSetType : InsertEffect(m, from, other, cb, js)
  BY InsertHasEffect DEF IInv
<1> HIDE DEF cb
<1>2. CASE n = m /\ id = other
  <2>1. joiners'[n][id] = js
    BY <1>1, <1>2, InsertPointwise DEF IInv
  <2> QED BY <1>1, <1>2, <2>1 DEF InsertEffect, Keeps
<1>3. CASE ~(n = m /\ id = other)
  <2>1. joiners'[n][id] = joiners[n][id]
    BY <1>1, <1>3, InsertPointwise DEF IInv
  <2> QED BY <2>1 DEF Keeps
<1> QED BY <1>2, <1>3

\* A value that a node has revealed is the same, and of the same shares, for every later
\* Join and message, until the node disconnects from the network: a Join that comes
\* late or twice, or a response to a Join that was answered otherwise, changes nothing.
THEOREM RevealedOnce ==
  Spec => [][\A n \in Nodes, id \in JoinIDs : Disconnect(n) \/ Keeps(n, id)]_vars
<1>1. ASSUME IInv, Next, NEW n \in Nodes, NEW id \in JoinIDs, ~Disconnect(n) PROVE Keeps(n, id)
  <2>1. CASE joiners' = joiners
    BY <2>1 DEF Keeps
  <2>2. ASSUME NEW m \in Nodes, Disconnect(m) PROVE Keeps(n, id)
    <3>1. m # n
      BY <1>1, <2>2
    <3>2. joiners'[n] = joiners[n]
      BY <1>1, <2>2, <3>1 DEF Disconnect, IInv, TypeOK
    <3> QED BY <3>2 DEF Keeps
  <2>3. ASSUME NEW m \in Nodes, NEW other \in JoinIDs, JoinInsert(m, other) PROVE Keeps(n, id)
    <3>1. CASE joiners' = joiners
      BY <3>1 DEF Keeps
    <3>2. CASE Insert(m, JoinOf(m, other), NewCallback, TRUE)
      BY <1>1, <3>2, InsertKeepsValues
    <3> QED BY <2>3, <3>1, <3>2 DEF JoinInsert
  <2>4. ASSUME NEW m \in wire, InsertReceived(m) PROVE Keeps(n, id)
    <3>1. m.to \in Nodes /\ m.from \in Nodes /\ m.id \in JoinIDs
      BY <1>1 DEF IInv, TypeOK, Messages
    <3>2. CASE joiners' = joiners
      BY <3>2 DEF Keeps
    <3>3. CASE Insert(m.to, JoinOf(m.from, m.id), NilCallback, FALSE)
      BY <1>1, <3>1, <3>3, InsertKeepsValues
    <3> QED BY <2>4, <3>2, <3>3 DEF InsertReceived
  <2>5. ASSUME NEW m \in wire, HandleMessageJoin(m) \/ HandleMessageJoinResponse(m)
        PROVE  Keeps(n, id)
    BY <2>4, <2>5 DEF HandleMessageJoin, HandleMessageJoinResponse
  <2>6. \/ joiners' = joiners
        \/ \E m \in Nodes : Disconnect(m)
        \/ \E m \in Nodes, other \in JoinIDs : JoinInsert(m, other)
        \/ \E m \in wire : HandleMessageJoin(m) \/ HandleMessageJoinResponse(m)
    BY <1>1 DEF Next, Connect, ConnectNetwork, DisconnectNetwork, StoreSender, LinkUp, LinkDown,
                Join, JoinSend, SenderSend, Respond
  <2> QED BY <2>1, <2>2, <2>3, <2>5, <2>6
<1>2. IInv /\ [Next]_vars =>
        [\A n \in Nodes, id \in JoinIDs : Disconnect(n) \/ Keeps(n, id)]_vars
  BY <1>1
<1> QED BY <1>2, SmpcInvariant, PTL DEF Spec
=============================================================================
