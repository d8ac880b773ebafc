---------------------------- MODULE JoinerProofs ----------------------------
(***************************************************************************)
(* Proofs about Joiner.tla, for every threshold k, every set of JoinIDs,    *)
(* callbacks and (finite) share indices.                                    *)
(***************************************************************************)
EXTENDS Joiner, FiniteSetTheorems, TLAPS

\* A JoinSet outside of joinSetsMu: either it has too few Joins, or it has
\* exactly k, its values were reconstructed from all of them, and it holds no
\* callback.
JoinSetOK(joinSet) ==
  /\ ~joinSet.ValuesOk => TooFewJoins(joinSet)
  /\ joinSet.ValuesOk =>
       /\ joinSet.Callback = NilCallback
       /\ Cardinality(joinSet.Set) = k
       /\ joinSet.Values \in JoinValues
       /\ \A i \in DOMAIN joinSet.Values : joinSet.Values[i] = joinSet.Set

SetsInv == \A id \in JoinIDs : JoinSetOK(joinSets[id])

\* Every callback is in one place.
CallbacksInv ==
  /\ accepted \cap refused = {}
  /\ calling \subseteq taken
  /\ \A id \in JoinIDs : joinSets[id].Callback # NilCallback =>
       /\ joinSets[id].Callback \in accepted
       /\ \A call \in taken : call.callback # joinSets[id].Callback
       /\ \A other \in JoinIDs :
            joinSets[other].Callback = joinSets[id].Callback => other = id
  /\ \A call \in taken :
       /\ call.callback \in accepted
       /\ called[call.callback] = (IF call \in calling THEN 0 ELSE 1)
       /\ \A other \in taken : other.callback = call.callback => other = call
  /\ \A cb \in Callbacks : (\A call \in taken : call.callback # cb) => called[cb] = 0

AccountInv ==
  \A cb \in accepted :
    \/ \E id \in JoinIDs : WaitsIn(cb, id)
    \/ \E call \in taken : call.callback = cb
    \/ cb \in overridden

TakenInv ==
  \A call \in taken :
    joinSets[call.id].ValuesOk /\ call.values = joinSets[call.id].Values

\* The inductive invariant.
IInv == TypeOK /\ SetsInv /\ CallbacksInv /\ AccountInv /\ TakenInv
-----------------------------------------------------------------------------

\* What a critical section that returns nil has done to the JoinSet and which
\* callback it took out of it.
StoreEffect(join, cb, js) ==
  /\ joinSets' = [joinSets EXCEPT ![join.ID] = js]
  /\ JoinSetOK(js)
  /\ joinSets[join.ID].ValuesOk =>
       js.ValuesOk /\ js = [joinSets[join.ID] EXCEPT !.Callback = js.Callback]
  /\ \/ ~js.ValuesOk /\ js.Callback = cb /\ UNCHANGED <<calling, taken>>
     \/ js.ValuesOk /\ js.Callback = NilCallback /\ cb = NilCallback
          /\ UNCHANGED <<calling, taken>>
     \/ /\ js.ValuesOk /\ js.Callback = NilCallback /\ cb # NilCallback
        /\ calling' = calling \cup {[callback |-> cb, id |-> join.ID, values |-> js.Values]}
        /\ taken' = taken \cup {[callback |-> cb, id |-> join.ID, values |-> js.Values]}

\* The effect of the critical section of insertJoin.
LEMMA StoreJoinEffect ==
  ASSUME TypeOK, SetsInv, NEW join \in Joins, ~RefusesJoin(join),
         NEW callback \in Callbacks \cup {NilCallback},
         NEW override \in BOOLEAN,
         StoreJoin(join, callback, override)
  PROVE  \E js \in JoinSetType :
           StoreEffect(join, IF override THEN callback ELSE joinSets[join.ID].Callback, js)
<1> DEFINE old == joinSets[join.ID]
           loaded == LoadJoinSet(old, join)
           inserted == AcceptJoin(loaded, join, callback, override)
           cb == IF override THEN callback ELSE old.Callback
<1>1. /\ old \in JoinSetType /\ JoinSetOK(old)
      /\ join.ID \in JoinIDs /\ join.Index \in JoinIndices /\ join.Len \in JoinLengths
  BY DEF TypeOK, SetsInv, Joins
<1>2. /\ loaded \in JoinSetType /\ loaded.ValuesLen = join.Len
      /\ loaded.Set = old.Set /\ loaded.ValuesOk = old.ValuesOk
      /\ loaded.Values = old.Values /\ loaded.Callback = old.Callback
      /\ old.ValuesOk => loaded = old
  <2>1. CASE old = NoJoinSet
    <3>1. loaded = [old EXCEPT !.ValuesLen = join.Len]
      BY <2>1 DEF LoadJoinSet, NewJoinSet
    <3>2. old.ValuesOk = FALSE
      BY <2>1 DEF NoJoinSet
    <3> QED BY <1>1, <3>1, <3>2 DEF JoinSetType
  <2>2. CASE old # NoJoinSet
    BY <1>1, <2>2 DEF LoadJoinSet, RefusesJoin
  <2> QED BY <2>1, <2>2
<1>3. /\ inserted \in JoinSetType /\ inserted.ValuesLen = join.Len
      /\ inserted.Callback = cb /\ inserted.ValuesOk = old.ValuesOk
      /\ inserted.Values = old.Values
      /\ inserted.Set = (IF old.ValuesOk THEN old.Set ELSE old.Set \cup {join.Index})
      /\ old.ValuesOk => inserted = [old EXCEPT !.Callback = cb]
  BY <1>1, <1>2 DEF AcceptJoin, JoinSetType
<1> HIDE DEF loaded, inserted
<1>4. /\ IsFiniteSet(old.Set) /\ Cardinality(old.Set) \in Nat
      /\ IsFiniteSet(inserted.Set) /\ Cardinality(inserted.Set) \in Nat
      /\ Cardinality(inserted.Set) <= Cardinality(old.Set) + 1
  <2>1. old.Set \in SUBSET JoinIndices /\ inserted.Set \in SUBSET JoinIndices
    BY <1>1, <1>3 DEF JoinSetType
  <2>2. IsFiniteSet(old.Set) /\ IsFiniteSet(inserted.Set)
    BY <2>1, FS_Subset, JoinerAssumption
  <2>3. Cardinality(old.Set) \in Nat /\ Cardinality(inserted.Set) \in Nat
    BY <2>2, FS_CardinalityType
  <2>4. \/ inserted.Set = old.Set
        \/ inserted.Set = old.Set \cup {join.Index}
    BY <1>3
  <2>5. Cardinality(old.Set \cup {join.Index}) <= Cardinality(old.Set) + 1
    <3>1. Cardinality(old.Set \cup {join.Index}) =
            IF join.Index \in old.Set THEN Cardinality(old.Set) ELSE Cardinality(old.Set) + 1
      BY <2>2, FS_AddElement
    <3> QED BY <2>3, <3>1
  <2> QED BY <2>2, <2>3, <2>4, <2>5
<1>5. CASE /\ TooFewJoins(inserted)
           /\ joinSets' = [joinSets EXCEPT ![join.ID] = inserted]
           /\ UNCHANGED <<calling, taken>>
  <2>1. ~inserted.ValuesOk
    BY <1>1, <1>3, <1>5, JoinSetsAssumption DEF JoinSetOK, TooFewJoins
  <2>2. StoreEffect(join, cb, inserted)
    BY <1>3, <1>5, <2>1 DEF StoreEffect, JoinSetOK
  <2> QED BY <1>3, <2>2
<1>6. CASE /\ ~TooFewJoins(inserted)
           /\ \E known \in ReconstructJoinSet(inserted) :
                /\ joinSets' = [joinSets EXCEPT ![join.ID] = ClearCallback(known)]
                /\ TakeCallback(known, join.ID)
  <2>1. PICK known \in ReconstructJoinSet(inserted) :
                /\ joinSets' = [joinSets EXCEPT ![join.ID] = ClearCallback(known)]
                /\ TakeCallback(known, join.ID)
    BY <1>6
  <2> DEFINE js == ClearCallback(known)
  <2>2. Cardinality(inserted.Set) = k
    BY <1>1, <1>3, <1>4, <1>6, JoinSetsAssumption DEF JoinSetOK, TooFewJoins
  <2>3. ASSUME NEW values \in Reconstructions(inserted)
        PROVE  /\ values \in JoinValues
               /\ \A i \in DOMAIN values : values[i] = inserted.Set
    <3>1. values \in [1 .. join.Len -> SUBSET inserted.Set]
      BY <1>3 DEF Reconstructions
    <3>2. values \in JoinValues
      BY <1>1, <1>3, <3>1 DEF JoinValues, JoinSetType
    <3>3. ASSUME NEW i \in DOMAIN values  PROVE values[i] = inserted.Set
      BY <1>4, <2>2, FS_Subset DEF Reconstructions
    <3> QED BY <3>2, <3>3
  <2>4. /\ known \in JoinSetType /\ known.Callback = cb /\ known.ValuesOk
        /\ known.Set = inserted.Set
        /\ known.Values \in JoinValues
        /\ \A i \in DOMAIN known.Values : known.Values[i] = inserted.Set
        /\ old.ValuesOk => known = inserted
    <3>1. CASE inserted.ValuesOk
      BY <1>1, <1>3, <2>1, <3>1 DEF ReconstructJoinSet, JoinSetOK
    <3>2. CASE ~inserted.ValuesOk
      <4>1. PICK values \in Reconstructions(inserted) :
              known = [inserted EXCEPT !.ValuesOk = TRUE, !.Values = values]
        BY <2>1, <3>2 DEF ReconstructJoinSet
      <4>2. values \in JoinValues /\ \A i \in DOMAIN values : values[i] = inserted.Set
        BY <2>3
      <4>3. known.Values = values
        BY <1>3, <4>1 DEF JoinSetType
      <4> QED BY <1>3, <3>2, <4>1, <4>2, <4>3 DEF JoinSetType
    <3> QED BY <3>1, <3>2
  <2>5. /\ js \in JoinSetType /\ js.Callback = NilCallback /\ js.ValuesOk
        /\ js.Set = inserted.Set /\ js.Values = known.Values
        /\ old.ValuesOk => js = [old EXCEPT !.Callback = js.Callback]
    BY <1>1, <1>3, <2>4 DEF ClearCallback, JoinSetType
  <2>6. JoinSetOK(js)
    BY <2>2, <2>4, <2>5 DEF JoinSetOK
  <2>7. \/ cb = NilCallback /\ UNCHANGED <<calling, taken>>
        \/ /\ cb # NilCallback
           /\ calling' = calling \cup {[callback |-> cb, id |-> join.ID, values |-> js.Values]}
           /\ taken' = taken \cup {[callback |-> cb, id |-> join.ID, values |-> js.Values]}
    BY <2>1, <2>4, <2>5 DEF TakeCallback
  <2>8. StoreEffect(join, cb, js)
    BY <2>1, <2>5, <2>6, <2>7 DEF StoreEffect
  <2> QED BY <2>5, <2>8
<1> QED BY <1>5, <1>6 DEF StoreJoin, loaded, inserted

\* A critical section with the effect above keeps every JoinSet well formed
\* and every taken call in agreement with its JoinSet.
LEMMA StoreKeepsSets ==
  ASSUME TypeOK, SetsInv, TakenInv, NEW join \in Joins,
         NEW cb \in Callbacks \cup {NilCallback}, NEW js \in JoinSetType,
         StoreEffect(join, cb, js)
  PROVE  /\ joinSets' \in [JoinIDs -> JoinSetType]
         /\ calling \cup taken \subseteq Calls => calling' \cup taken' \subseteq Calls
         /\ SetsInv' /\ TakenInv'
<1>1. join.ID \in JoinIDs
  BY DEF Joins
<1>2. joinSets' \in [JoinIDs -> JoinSetType]
  BY <1>1 DEF TypeOK, StoreEffect
<1>3. \A id \in JoinIDs : joinSets'[id] = IF id = join.ID THEN js ELSE joinSets[id]
  BY <1>1 DEF TypeOK, StoreEffect
<1>4. ASSUME calling \cup taken \subseteq Calls
      PROVE  calling' \cup taken' \subseteq Calls
  <2>1. ASSUME js.ValuesOk, cb # NilCallback
        PROVE  [callback |-> cb, id |-> join.ID, values |-> js.Values] \in Calls
    BY <1>1, <2>1 DEF Calls, StoreEffect, JoinSetOK
  <2> QED BY <1>4, <2>1 DEF StoreEffect
<1>5. SetsInv'
  <2> SUFFICES ASSUME NEW id \in JoinIDs PROVE JoinSetOK(joinSets'[id])
    BY DEF SetsInv
  <2>1. CASE id = join.ID BY <1>3, <2>1 DEF StoreEffect
  <2>2. CASE id # join.ID BY <1>3, <2>2 DEF SetsInv
  <2> QED BY <2>1, <2>2
<1>6. TakenInv'
  <2> SUFFICES ASSUME NEW call \in taken'
               PROVE  joinSets'[call.id].ValuesOk /\ call.values = joinSets'[call.id].Values
    BY DEF TakenInv
  <2>1. CASE call \in taken
    <3>1. /\ call.id \in JoinIDs /\ joinSets[call.id].ValuesOk
          /\ call.values = joinSets[call.id].Values
      BY <2>1 DEF TakenInv, TypeOK, Calls
    <3>2. CASE call.id = join.ID
      <4>1. js.ValuesOk /\ js = [joinSets[join.ID] EXCEPT !.Callback = js.Callback]
        BY <3>1, <3>2 DEF StoreEffect
      <4>2. joinSets[join.ID] \in JoinSetType
        BY <1>1 DEF TypeOK
      <4>3. js.Values = joinSets[join.ID].Values
        BY <4>1, <4>2 DEF JoinSetType
      <4> QED BY <1>3, <3>1, <3>2, <4>1, <4>3
    <3>3. CASE call.id # join.ID
      BY <1>3, <3>1, <3>3
    <3> QED BY <3>2, <3>3
  <2>2. CASE call \notin taken
    <3>1. call = [callback |-> cb, id |-> join.ID, values |-> js.Values] /\ js.ValuesOk
      BY <2>2 DEF StoreEffect
    <3> QED BY <1>1, <1>3, <3>1
  <2> QED BY <2>1, <2>2
<1> QED BY <1>2, <1>4, <1>5, <1>6

\* The initial state satisfies the inductive invariant.
LEMMA InitIInv == NewJoiner => IInv
<1> SUFFICES ASSUME NewJoiner PROVE IInv
  OBVIOUS
<1>1. NoJoinSet \in JoinSetType
  BY DEF NoJoinSet, JoinSetType
<1>2. TypeOK
  BY <1>1 DEF NewJoiner, TypeOK
<1>3. SetsInv
  <2>1. NoJoinSet.ValuesOk = FALSE /\ NoJoinSet.Set = {}
    BY DEF NoJoinSet
  <2>2. TooFewJoins(NoJoinSet)
    BY <2>1, FS_EmptySet, JoinSetsAssumption DEF TooFewJoins
  <2> QED BY <2>1, <2>2 DEF NewJoiner, SetsInv, JoinSetOK
<1>4. CallbacksInv
  <2>1. NoJoinSet.Callback = NilCallback
    BY DEF NoJoinSet
  <2> QED BY <2>1 DEF NewJoiner, CallbacksInv
<1>5. AccountInv /\ TakenInv
  BY DEF NewJoiner, AccountInv, TakenInv
<1> QED BY <1>2, <1>3, <1>4, <1>5 DEF IInv

\* A critical section keeps every callback in one place, if the callback it
\* leaves in the JoinSet or takes out of it is nowhere else.
LEMMA StoreKeepsCallbacks ==
  ASSUME IInv, NEW join \in Joins,
         NEW cb \in Callbacks \cup {NilCallback}, NEW js \in JoinSetType,
         StoreEffect(join, cb, js),
         accepted \subseteq accepted', accepted' \cap refused' = {}, called' = called,
         cb # NilCallback =>
           /\ cb \in accepted'
           /\ \A call \in taken : call.callback # cb
           /\ \A id \in JoinIDs \ {join.ID} : joinSets[id].Callback # cb
  PROVE  CallbacksInv'
<1> DEFINE new == [callback |-> cb, id |-> join.ID, values |-> js.Values]
<1>1. join.ID \in JoinIDs
  BY DEF Joins
<1>2. \A id \in JoinIDs : joinSets'[id] = IF id = join.ID THEN js ELSE joinSets[id]
  BY <1>1 DEF IInv, TypeOK, StoreEffect
<1>3. /\ js.Callback \in {cb, NilCallback}
      /\ \/ /\ calling' = calling /\ taken' = taken
         \/ /\ calling' = calling \cup {new} /\ taken' = taken \cup {new}
            /\ cb # NilCallback /\ js.Callback = NilCallback
  BY DEF StoreEffect
<1>4. new.callback = cb
  OBVIOUS
<1>5. called \in [Callbacks -> Nat] /\ \A call \in taken : call.callback \in Callbacks
  BY DEF IInv, TypeOK, Calls
<1> HIDE DEF new
<1>6. calling' \subseteq taken'
  BY <1>3 DEF IInv, CallbacksInv
<1>7. ASSUME NEW id \in JoinIDs, joinSets'[id].Callback # NilCallback
      PROVE  /\ joinSets'[id].Callback \in accepted'
             /\ \A call \in taken' : call.callback # joinSets'[id].Callback
             /\ \A other \in JoinIDs :
                  joinSets'[other].Callback = joinSets'[id].Callback => other = id
  <2>1. CASE id = join.ID
    <3>1. joinSets'[id].Callback = cb /\ cb # NilCallback /\ taken' = taken
      BY <1>2, <1>3, <1>7, <2>1
    <3> QED BY <1>2, <2>1, <3>1
  <2>2. CASE id # join.ID
    <3>1. joinSets'[id].Callback = joinSets[id].Callback
      BY <1>2, <2>2
    <3>2. /\ joinSets[id].Callback # cb
          /\ joinSets[id].Callback \in accepted
          /\ \A call \in taken : call.callback # joinSets[id].Callback
          /\ \A other \in JoinIDs :
               joinSets[other].Callback = joinSets[id].Callback => other = id
      BY <1>7, <2>2, <3>1 DEF IInv, CallbacksInv
    <3>3. \A call \in taken' : call.callback # joinSets[id].Callback
      BY <1>3, <1>4, <3>2
    <3>4. \A other \in JoinIDs :
            joinSets'[other].Callback = joinSets[id].Callback => other = id
      BY <1>2, <1>3, <1>7, <3>1, <3>2
    <3> QED BY <3>1, <3>2, <3>3, <3>4
  <2> QED BY <2>1, <2>2
<1>8. ASSUME NEW call \in taken'
      PROVE  /\ call.callback \in accepted'
             /\ called'[call.callback] = (IF call \in calling' THEN 0 ELSE 1)
             /\ \A other \in taken' : other.callback = call.callback => other = call
  <2>1. CASE call \in taken
    <3>1. /\ call.callback \in accepted
          /\ called[call.callback] = (IF call \in calling THEN 0 ELSE 1)
          /\ \A other \in taken : other.callback = call.callback => other = call
      BY <2>1 DEF IInv, CallbacksInv
    <3>2. cb # NilCallback => call.callback # cb /\ call # new
      BY <1>4, <2>1
    <3>3. call \in calling' <=> call \in calling
      BY <1>3, <3>2
    <3>4. \A other \in taken' : other.callback = call.callback => other = call
      BY <1>3, <1>4, <3>1, <3>2
    <3> QED BY <3>1, <3>3, <3>4
  <2>2. CASE call \notin taken
    <3>1. call = new /\ cb # NilCallback /\ calling' = calling \cup {new}
          /\ taken' = taken \cup {new}
      BY <1>3, <2>2
    <3>2. called[cb] = 0
      BY <3>1 DEF IInv, CallbacksInv
    <3> QED BY <1>4, <3>1, <3>2
  <2> QED BY <2>1, <2>2
<1>9. ASSUME NEW c \in Callbacks, \A call \in taken' : call.callback # c
      PROVE  called'[c] = 0
  BY <1>3, <1>9 DEF IInv, CallbacksInv
<1> QED BY <1>6, <1>7, <1>8, <1>9 DEF CallbacksInv

\* Every step keeps the inductive invariant.
LEMMA NextIInv == IInv /\ [Next]_vars => IInv'
<1> SUFFICES ASSUME IInv, [Next]_vars PROVE IInv'
  OBVIOUS
<1> USE JoinerAssumption
<1>1. ASSUME NEW join \in Joins, NEW callback \in Callbacks \cup {NilCallback},
             InsertJoinAndSetCallback(join, callback)
      PROVE  IInv'
  <2>1. CASE RefusesJoin(join) /\ refused' = refused \cup ({callback} \ {NilCallback})
             /\ UNCHANGED <<joinSets, calling, taken, accepted, overridden>>
    <3>1. callback \notin accepted /\ UNCHANGED called
      BY <1>1 DEF InsertJoinAndSetCallback
    <3>2. TypeOK'
      BY <2>1, <3>1 DEF IInv, TypeOK
    <3>3. SetsInv' /\ TakenInv' /\ AccountInv'
      BY <2>1 DEF IInv, SetsInv, TakenInv, AccountInv, WaitsIn
    <3>4. CallbacksInv'
      BY <2>1, <3>1 DEF IInv, CallbacksInv
    <3> QED BY <3>2, <3>3, <3>4 DEF IInv
  <2>2. CASE /\ ~RefusesJoin(join)
             /\ StoreJoin(join, callback, TRUE)
             /\ accepted' = accepted \cup ({callback} \ {NilCallback})
             /\ overridden' = overridden \cup ({joinSets[join.ID].Callback} \ {NilCallback})
             /\ UNCHANGED refused
    <3>1. callback \notin accepted \cup refused /\ UNCHANGED called
      BY <1>1 DEF InsertJoinAndSetCallback
    <3>2. PICK js \in JoinSetType : StoreEffect(join, callback, js)
      <4>1. \E js \in JoinSetType :
              StoreEffect(join, IF TRUE THEN callback ELSE joinSets[join.ID].Callback, js)
        BY <2>2, StoreJoinEffect DEF IInv
      <4> QED BY <4>1
    <3>3. /\ joinSets' \in [JoinIDs -> JoinSetType]
          /\ calling' \cup taken' \subseteq Calls /\ SetsInv' /\ TakenInv'
      BY <3>2, StoreKeepsSets DEF IInv, TypeOK
    <3>4. join.ID \in JoinIDs /\ joinSets[join.ID].Callback \in Callbacks \cup {NilCallback}
      BY DEF IInv, TypeOK, Joins, JoinSetType
    <3>5. TypeOK'
      BY <2>2, <3>1, <3>3, <3>4 DEF IInv, TypeOK
    <3>6. CallbacksInv'
      <4>1. callback # NilCallback =>
              /\ callback \in accepted'
              /\ \A call \in taken : call.callback # callback
              /\ \A id \in JoinIDs \ {join.ID} : joinSets[id].Callback # callback
        BY <2>2, <3>1 DEF IInv, CallbacksInv
      <4>2. accepted \subseteq accepted' /\ accepted' \cap refused' = {} /\ called' = called
        BY <2>2, <3>1 DEF IInv, CallbacksInv
      <4> QED BY <3>2, <4>1, <4>2, StoreKeepsCallbacks
    <3>7. AccountInv'
      <4>1. \A id \in JoinIDs : joinSets'[id] = IF id = join.ID THEN js ELSE joinSets[id]
        BY <3>2, <3>4 DEF IInv, TypeOK, StoreEffect
      <4>2. taken \subseteq taken'
        BY <3>2 DEF StoreEffect
      <4>3. callback = NilCallback \/ js.Callback = callback
              \/ \E call \in taken' : call.callback = callback
        <5> DEFINE new == [callback |-> callback, id |-> join.ID, values |-> js.Values]
        <5>1. callback = NilCallback \/ js.Callback = callback \/ new \in taken'
          BY <3>2 DEF StoreEffect
        <5>2. new.callback = callback
          OBVIOUS
        <5> QED BY <5>1, <5>2
      <4> QED BY <2>2, <3>4, <4>1, <4>2, <4>3 DEF IInv, TypeOK, AccountInv, WaitsIn
    <3> QED BY <3>3, <3>5, <3>6, <3>7 DEF IInv
  <2> QED BY <1>1, <2>1, <2>2 DEF InsertJoinAndSetCallback
<1>2. ASSUME NEW join \in Joins, InsertJoin(join)
      PROVE  IInv'
  <2> DEFINE cb == joinSets[join.ID].Callback
  <2>1. /\ ~RefusesJoin(join) /\ StoreJoin(join, NilCallback, FALSE)
        /\ UNCHANGED <<called, accepted, refused, overridden>>
    BY <1>2 DEF InsertJoin
  <2>2. join.ID \in JoinIDs /\ cb \in Callbacks \cup {NilCallback}
    BY DEF IInv, TypeOK, Joins, JoinSetType
  <2>3. PICK js \in JoinSetType : StoreEffect(join, cb, js)
    <3>1. \E js \in JoinSetType :
            StoreEffect(join, IF FALSE THEN NilCallback ELSE joinSets[join.ID].Callback, js)
      BY <2>1, StoreJoinEffect DEF IInv
    <3> QED BY <3>1
  <2>4. /\ joinSets' \in [JoinIDs -> JoinSetType]
        /\ calling' \cup taken' \subseteq Calls /\ SetsInv' /\ TakenInv'
    BY <2>2, <2>3, StoreKeepsSets DEF IInv, TypeOK
  <2>5. TypeOK'
    BY <2>1, <2>4 DEF IInv, TypeOK
  <2>6. CallbacksInv'
    <3>1. cb # NilCallback =>
            /\ cb \in accepted'
            /\ \A call \in taken : call.callback # cb
            /\ \A id \in JoinIDs \ {join.ID} : joinSets[id].Callback # cb
      BY <2>1, <2>2 DEF IInv, CallbacksInv
    <3>2. accepted \subseteq accepted' /\ accepted' \cap refused' = {} /\ called' = called
      BY <2>1 DEF IInv, CallbacksInv
    <3> QED BY <2>2, <2>3, <3>1, <3>2, StoreKeepsCallbacks
  <2>7. AccountInv'
    <3>1. \A id \in JoinIDs : joinSets'[id] = IF id = join.ID THEN js ELSE joinSets[id]
      BY <2>2, <2>3 DEF IInv, TypeOK, StoreEffect
    <3>2. taken \subseteq taken'
      BY <2>3 DEF StoreEffect
    <3>3. cb = NilCallback \/ js.Callback = cb \/ \E call \in taken' : call.callback = cb
      <4> DEFINE new == [callback |-> cb, id |-> join.ID, values |-> js.Values]
      <4>1. cb = NilCallback \/ js.Callback = cb \/ new \in taken'
        BY <2>3 DEF StoreEffect
      <4>2. new.callback = cb
        OBVIOUS
      <4> QED BY <4>1, <4>2
    <3> QED BY <2>1, <2>2, <3>1, <3>2, <3>3 DEF IInv, TypeOK, AccountInv, WaitsIn
  <2> QED BY <2>4, <2>5, <2>6, <2>7 DEF IInv
<1>3. ASSUME NEW call \in calling, RunCallback(call)
      PROVE  IInv'
  <2>1. /\ calling' = calling \ {call} /\ called' = [called EXCEPT ![call.callback] = @ + 1]
        /\ UNCHANGED <<joinSets, taken, accepted, refused, overridden>>
    BY <1>3 DEF RunCallback
  <2>2. call \in taken /\ call.callback \in Callbacks /\ called[call.callback] = 0
    BY DEF IInv, TypeOK, CallbacksInv, Calls
  <2>3. TypeOK'
    BY <2>1, <2>2 DEF IInv, TypeOK
  <2>4. SetsInv' /\ TakenInv' /\ AccountInv'
    BY <2>1 DEF IInv, SetsInv, TakenInv, AccountInv, WaitsIn
  <2>5. CallbacksInv'
    <3>1. \A c \in Callbacks : called'[c] = IF c = call.callback THEN 1 ELSE called[c]
      BY <2>1, <2>2 DEF IInv, TypeOK
    <3>2. \A other \in taken : other.callback \in Callbacks
      BY DEF IInv, TypeOK, Calls
    <3>3. ASSUME NEW other \in taken
          PROVE  called'[other.callback] = (IF other \in calling' THEN 0 ELSE 1)
      BY <2>1, <2>2, <3>1, <3>2 DEF IInv, CallbacksInv
    <3>4. ASSUME NEW c \in Callbacks, \A other \in taken : other.callback # c
          PROVE  called'[c] = 0
      BY <2>2, <3>1, <3>4 DEF IInv, CallbacksInv
    <3> QED BY <2>1, <3>3, <3>4 DEF IInv, CallbacksInv
  <2> QED BY <2>3, <2>4, <2>5 DEF IInv
<1>4. CASE UNCHANGED vars
  BY <1>4 DEF vars, IInv, TypeOK, SetsInv, CallbacksInv, AccountInv, TakenInv, WaitsIn
<1> QED BY <1>1, <1>2, <1>3, <1>4 DEF Next
-----------------------------------------------------------------------------

\* The inductive invariant holds of every behaviour of a Joiner.
THEOREM JoinerInvariant == Spec => []IInv
<1>1. NewJoiner => IInv
  BY InitIInv
<1>2. IInv /\ [Next]_vars => IInv'
  BY NextIInv
<1> QED BY <1>1, <1>2, PTL DEF Spec

\* The state of a Joiner keeps its types.
THEOREM TypeCorrect == Spec => []TypeOK
<1>1. IInv => TypeOK
  BY DEF IInv
<1> QED BY <1>1, JoinerInvariant, PTL

\* insertJoin never strands a callback in a JoinSet that is complete.
THEOREM NeverStranded == Spec => []NoStrandedCallback
<1>1. IInv => NoStrandedCallback
  BY DEF IInv, TypeOK, JoinSetType, SetsInv, JoinSetOK, NoStrandedCallback
<1> QED BY <1>1, JoinerInvariant, PTL

\* A callback runs at most once per call of InsertJoinAndSetCallback.
THEOREM AtMostOnce == Spec => []CalledAtMostOnce
<1>1. IInv => CalledAtMostOnce
  <2> SUFFICES ASSUME IInv, NEW cb \in Callbacks
               PROVE  /\ called[cb] <= 1
                      /\ called[cb] = 1 => ~BeingCalled(cb)
                      /\ cb \in refused => called[cb] = 0 /\ ~BeingCalled(cb)
    BY DEF CalledAtMostOnce
  <2>1. CASE \E call \in taken : call.callback = cb
    <3>1. PICK call \in taken : call.callback = cb
      BY <2>1
    <3>2. /\ cb \in accepted /\ called[cb] = (IF call \in calling THEN 0 ELSE 1)
          /\ \A other \in taken : other.callback = cb => other = call
          /\ calling \subseteq taken /\ cb \notin refused
      BY <3>1 DEF IInv, CallbacksInv
    <3> QED BY <3>1, <3>2 DEF BeingCalled
  <2>2. CASE \A call \in taken : call.callback # cb
    <3>1. called[cb] = 0 /\ calling \subseteq taken
      BY <2>2 DEF IInv, CallbacksInv
    <3> QED BY <2>2, <3>1 DEF BeingCalled
  <2> QED BY <2>1, <2>2
<1> QED BY <1>1, JoinerInvariant, PTL

\* No callback of an accepted call is lost.
THEOREM NoneLost == Spec => []CallbackAccounted
<1>1. IInv => CallbackAccounted
  <2> SUFFICES ASSUME IInv PROVE CallbackAccounted
    OBVIOUS
  <2>1. \A call \in taken : call \in calling \/ called[call.callback] = 1
    BY DEF IInv, CallbacksInv
  <2> QED BY <2>1 DEF IInv, AccountInv, CallbackAccounted
<1> QED BY <1>1, JoinerInvariant, PTL

\* All callbacks of an ID are passed the same values, from the same k Joins.
THEOREM Agreement == Spec => []CallsAgree
<1>1. IInv => CallsAgree
  <2> SUFFICES ASSUME IInv, NEW call \in taken
               PROVE  /\ joinSets[call.id].ValuesOk
                      /\ call.values = joinSets[call.id].Values
                      /\ \A i \in DOMAIN call.values : call.values[i] = joinSets[call.id].Set
                      /\ Cardinality(joinSets[call.id].Set) = k
    BY DEF CallsAgree
  <2>1. call.id \in JoinIDs
    BY DEF IInv, TypeOK, Calls
  <2>2. joinSets[call.id].ValuesOk /\ call.values = joinSets[call.id].Values
    BY DEF IInv, TakenInv
  <2> QED BY <2>1, <2>2 DEF IInv, SetsInv, JoinSetOK
<1> QED BY <1>1, JoinerInvariant, PTL

\* The critical section of a step that may insert a Join, for the two theorems
\* below: either call of insertJoin has the effect of StoreEffect.
LEMMA InsertSteps ==
  ASSUME IInv, Next
  PROVE  \/ UNCHANGED <<joinSets, taken>> /\ accepted' = accepted
              /\ (\/ refused' = refused
                  \/ \E cb \in Callbacks \cup {NilCallback} :
                       /\ cb \notin accepted \cup refused
                       /\ refused' = refused \cup ({cb} \ {NilCallback}))
         \/ \E join \in Joins, js \in JoinSetType :
              /\ StoreEffect(join, joinSets[join.ID].Callback, js)
              /\ UNCHANGED <<accepted, refused>>
         \/ \E join \in Joins, js \in JoinSetType, cb \in Callbacks \cup {NilCallback} :
              /\ StoreEffect(join, cb, js)
              /\ cb \notin accepted \cup refused
              /\ accepted' = accepted \cup ({cb} \ {NilCallback})
              /\ UNCHANGED refused
<1>1. ASSUME NEW join \in Joins, NEW callback \in Callbacks \cup {NilCallback},
             InsertJoinAndSetCallback(join, callback), ~RefusesJoin(join)
      PROVE  /\ \E js \in JoinSetType : StoreEffect(join, callback, js)
             /\ callback \notin accepted \cup refused
             /\ accepted' = accepted \cup ({callback} \ {NilCallback})
             /\ UNCHANGED refused
  <2>1. /\ StoreJoin(join, callback, TRUE)
        /\ callback \notin accepted \cup refused
        /\ accepted' = accepted \cup ({callback} \ {NilCallback})
        /\ UNCHANGED refused
    BY <1>1 DEF InsertJoinAndSetCallback
  <2>2. \E js \in JoinSetType :
          StoreEffect(join, IF TRUE THEN callback ELSE joinSets[join.ID].Callback, js)
    BY <1>1, <2>1, StoreJoinEffect DEF IInv
  <2> QED BY <2>1, <2>2
<1>2. ASSUME NEW join \in Joins, NEW callback \in Callbacks \cup {NilCallback},
             InsertJoinAndSetCallback(join, callback), RefusesJoin(join)
      PROVE  /\ UNCHANGED <<joinSets, taken>> /\ accepted' = accepted
             /\ callback \notin accepted \cup refused
             /\ refused' = refused \cup ({callback} \ {NilCallback})
  BY <1>2 DEF InsertJoinAndSetCallback
<1>3. ASSUME NEW join \in Joins, InsertJoin(join)
      PROVE  /\ \E js \in JoinSetType : StoreEffect(join, joinSets[join.ID].Callback, js)
             /\ UNCHANGED <<accepted, refused>>
  <2>1. /\ ~RefusesJoin(join) /\ StoreJoin(join, NilCallback, FALSE)
        /\ UNCHANGED <<accepted, refused>>
    BY <1>3 DEF InsertJoin
  <2>2. \E js \in JoinSetType :
          StoreEffect(join, IF FALSE THEN NilCallback ELSE joinSets[join.ID].Callback, js)
    BY <2>1, StoreJoinEffect DEF IInv
  <2> QED BY <2>1, <2>2
<1>4. ASSUME NEW call \in calling, RunCallback(call)
      PROVE  UNCHANGED <<joinSets, taken, accepted, refused>>
  BY <1>4 DEF RunCallback
<1> QED BY <1>1, <1>2, <1>3, <1>4 DEF Next

\* Reconstructed values and the Joins they came from never change.
THEOREM ValuesFinal == Spec => ValuesAreFinal
<1>1. ASSUME IInv, [Next]_vars, NEW id \in JoinIDs, joinSets[id].ValuesOk
      PROVE  joinSets'[id] = [joinSets[id] EXCEPT !.Callback = joinSets'[id].Callback]
  <2>0. joinSets \in [JoinIDs -> JoinSetType] /\ joinSets[id] \in JoinSetType
    BY <1>1 DEF IInv, TypeOK
  <2>1. CASE UNCHANGED joinSets
    BY <2>0, <2>1 DEF JoinSetType
  <2>2. ASSUME NEW join \in Joins, NEW js \in JoinSetType, NEW cb, StoreEffect(join, cb, js)
        PROVE  joinSets'[id] = [joinSets[id] EXCEPT !.Callback = joinSets'[id].Callback]
    <3>1. CASE id = join.ID
      BY <1>1, <2>0, <2>2, <3>1 DEF StoreEffect
    <3>2. CASE id # join.ID
      <4>1. joinSets'[id] = joinSets[id]
        BY <2>0, <2>2, <3>2 DEF StoreEffect
      <4> QED BY <2>0, <4>1 DEF JoinSetType
    <3> QED BY <3>1, <3>2
  <2>3. CASE Next
    BY <1>1, <2>1, <2>2, <2>3, InsertSteps
  <2> QED BY <1>1, <2>1, <2>3 DEF vars
<1>2. IInv /\ [Next]_vars =>
        [\A id \in JoinIDs : joinSets[id].ValuesOk =>
           joinSets'[id] = [joinSets[id] EXCEPT !.Callback = joinSets'[id].Callback]]_vars
  BY <1>1
<1> QED BY <1>2, JoinerInvariant, PTL DEF Spec, ValuesAreFinal

\* A Joiner implements the write-once result with one subscriber.
THEOREM Refinement == Spec => ImplementsFuture
<1> DEFINE Res(sets) == [id \in JoinIDs |-> IF sets[id].ValuesOk THEN {sets[id].Values} ELSE {}]
           Wait(sets) == [id \in JoinIDs |-> sets[id].Callback]
           result == Res(joinSets)
           waiter == Wait(joinSets)
<1>1. NewJoiner => Future!Init
  <2>1. NoJoinSet.ValuesOk = FALSE /\ NoJoinSet.Callback = NilCallback
    BY DEF NoJoinSet
  <2> QED BY <2>1 DEF NewJoiner, Future!Init
<1>2. IInv /\ [Next]_vars => [Future!Next]_(Future!vars)
  <2> SUFFICES ASSUME IInv, [Next]_vars PROVE [Future!Next]_(Future!vars)
    OBVIOUS
  <2> USE JoinerAssumption
  <2>1. CASE UNCHANGED vars
    BY <2>1 DEF vars, Future!vars
  <2>2. ASSUME UNCHANGED <<joinSets, taken, accepted, refused>>
        PROVE  UNCHANGED Future!vars
    BY <2>2 DEF Future!vars
  <2>3. ASSUME UNCHANGED <<joinSets, taken, accepted>>,
               NEW cb \in Callbacks \cup {NilCallback}, cb \notin accepted \cup refused,
               refused' = refused \cup ({cb} \ {NilCallback})
        PROVE  Future!Next
    <3>1. Future!Refuse(cb)
      BY <2>3 DEF Future!Refuse, Future!Present
    <3> QED BY <3>1 DEF Future!Next
  <2>4. ASSUME NEW join \in Joins, NEW js \in JoinSetType,
               NEW cb \in Callbacks \cup {NilCallback}, StoreEffect(join, cb, js)
        PROVE  /\ join.ID \in JoinIDs
               /\ result' = [result EXCEPT ![join.ID] =
                                IF js.ValuesOk THEN {js.Values} ELSE {}]
               /\ waiter' = [waiter EXCEPT ![join.ID] = js.Callback]
               /\ result[join.ID] =
                    IF joinSets[join.ID].ValuesOk THEN {joinSets[join.ID].Values} ELSE {}
               /\ waiter[join.ID] = joinSets[join.ID].Callback
               /\ result[join.ID] # {} => js.ValuesOk /\ result[join.ID] = {js.Values}
               /\ js.ValuesOk =>
                    /\ js.Callback = NilCallback /\ js.Values \in JoinValues
                    /\ taken' = taken \cup
                         {call \in {[callback |-> cb, id |-> join.ID, values |-> js.Values]} :
                            call.callback # NilCallback}
               /\ ~js.ValuesOk => js.Callback = cb /\ taken' = taken
    <3>1. join.ID \in JoinIDs /\ joinSets[join.ID] \in JoinSetType
      BY DEF IInv, TypeOK, Joins
    <3>2. joinSets' = [joinSets EXCEPT ![join.ID] = js] /\ joinSets \in [JoinIDs -> JoinSetType]
      BY <2>4 DEF IInv, TypeOK, StoreEffect
    <3>3. joinSets[join.ID].ValuesOk => js.ValuesOk /\ joinSets[join.ID].Values = js.Values
      BY <2>4, <3>1 DEF StoreEffect, JoinSetType
    <3>4. js.ValuesOk => js.Callback = NilCallback /\ js.Values \in JoinValues
      BY <2>4 DEF StoreEffect, JoinSetOK
    <3>5. ASSUME js.ValuesOk
          PROVE  taken' = taken \cup
                   {call \in {[callback |-> cb, id |-> join.ID, values |-> js.Values]} :
                      call.callback # NilCallback}
      <4>1. CASE cb = NilCallback
        BY <2>4, <3>5, <4>1 DEF StoreEffect
      <4>2. CASE cb # NilCallback
        BY <2>4, <3>5, <4>2 DEF StoreEffect
      <4> QED BY <4>1, <4>2
    <3>6. ~js.ValuesOk => js.Callback = cb /\ taken' = taken
      BY <2>4 DEF StoreEffect
    <3>7. result' = [result EXCEPT ![join.ID] = IF js.ValuesOk THEN {js.Values} ELSE {}]
      BY <3>1, <3>2
    <3>8. waiter' = [waiter EXCEPT ![join.ID] = js.Callback]
      BY <3>1, <3>2
    <3>9. /\ result[join.ID] =
               IF joinSets[join.ID].ValuesOk THEN {joinSets[join.ID].Values} ELSE {}
          /\ waiter[join.ID] = joinSets[join.ID].Callback
      BY <3>1
    <3> HIDE DEF Res, Wait
    <3> QED BY <3>1, <3>3, <3>4, <3>5, <3>6, <3>7, <3>8, <3>9
  <2>5. ASSUME NEW join \in Joins, NEW js \in JoinSetType,
               NEW cb \in Callbacks \cup {NilCallback}, StoreEffect(join, cb, js),
               cb \notin accepted \cup refused,
               accepted' = accepted \cup ({cb} \ {NilCallback}), UNCHANGED refused
        PROVE  Future!Next
    <3>0. /\ join.ID \in JoinIDs
          /\ result' = [result EXCEPT ![join.ID] = IF js.ValuesOk THEN {js.Values} ELSE {}]
          /\ waiter' = [waiter EXCEPT ![join.ID] = js.Callback]
          /\ waiter[join.ID] = joinSets[join.ID].Callback
          /\ result[join.ID] # {} => js.ValuesOk /\ result[join.ID] = {js.Values}
          /\ js.ValuesOk =>
               /\ js.Callback = NilCallback /\ js.Values \in JoinValues
               /\ taken' = taken \cup
                    {call \in {[callback |-> cb, id |-> join.ID, values |-> js.Values]} :
                       call.callback # NilCallback}
          /\ ~js.ValuesOk => js.Callback = cb /\ taken' = taken
      BY <2>4, <2>5
    <3>1. CASE js.ValuesOk
      <4>1. Future!Answer(join.ID, cb)
        <5>1. result[join.ID] \subseteq {js.Values}
          BY <3>0
        <5>2. Future!Hand(join.ID, cb, js.Values)
          BY <3>0, <3>1 DEF Future!Hand
        <5>3. result' = [result EXCEPT ![join.ID] = {js.Values}]
          BY <3>0, <3>1
        <5>4. Future!Present(cb)
          BY <2>5 DEF Future!Present
        <5> QED BY <3>0, <3>1, <5>1, <5>2, <5>3, <5>4 DEF Future!Answer
      <4> QED BY <2>4, <2>5, <4>1 DEF Future!Next
    <3>2. CASE ~js.ValuesOk
      <4>1. Future!Wait(join.ID, cb)
        <5>1. result[join.ID] = {} /\ waiter' = [waiter EXCEPT ![join.ID] = cb]
          BY <3>0, <3>2
        <5>2. result' = result /\ taken' = taken
          BY <3>0, <3>2, <5>1
        <5>3. Future!Present(cb)
          BY <2>5 DEF Future!Present
        <5> QED BY <5>1, <5>2, <5>3 DEF Future!Wait
      <4> QED BY <2>4, <2>5, <4>1 DEF Future!Next
    <3> QED BY <3>1, <3>2
  <2>6. ASSUME NEW join \in Joins, NEW js \in JoinSetType,
               StoreEffect(join, joinSets[join.ID].Callback, js), UNCHANGED <<accepted, refused>>
        PROVE  [Future!Next]_(Future!vars)
    <3>1. /\ joinSets[join.ID].Callback \in Callbacks \cup {NilCallback}
          /\ joinSets[join.ID].ValuesOk => joinSets[join.ID].Callback = NilCallback
      BY DEF IInv, TypeOK, Joins, JoinSetType, SetsInv, JoinSetOK
    <3>0. /\ join.ID \in JoinIDs
          /\ result' = [result EXCEPT ![join.ID] = IF js.ValuesOk THEN {js.Values} ELSE {}]
          /\ waiter' = [waiter EXCEPT ![join.ID] = js.Callback]
          /\ waiter[join.ID] = joinSets[join.ID].Callback
          /\ result[join.ID] # {} => js.ValuesOk /\ result[join.ID] = {js.Values}
          /\ js.ValuesOk =>
               /\ js.Callback = NilCallback /\ js.Values \in JoinValues
               /\ taken' = taken \cup
                    {call \in {[callback |-> joinSets[join.ID].Callback, id |-> join.ID, values |-> js.Values]} :
                       call.callback # NilCallback}
          /\ ~js.ValuesOk => js.Callback = joinSets[join.ID].Callback /\ taken' = taken
          /\ joinSets[join.ID].ValuesOk <=> result[join.ID] # {}
      BY <2>4, <2>6, <3>1
    <3>2. CASE js.ValuesOk /\ result[join.ID] = {}
      <4>1. Future!Resolve(join.ID)
        <5>1. result' = [result EXCEPT ![join.ID] = {js.Values}]
          BY <3>0, <3>2
        <5>2. Future!Hand(join.ID, waiter[join.ID], js.Values)
          BY <3>0, <3>2 DEF Future!Hand
        <5> QED BY <2>6, <3>0, <3>2, <5>1, <5>2 DEF Future!Resolve
      <4> QED BY <2>4, <2>6, <3>1, <4>1 DEF Future!Next
    <3>3. CASE ~(js.ValuesOk /\ result[join.ID] = {})
      <4>1. result' = result /\ waiter' = waiter /\ taken' = taken
        <5>1. CASE js.ValuesOk
          <6>1. result[join.ID] = {js.Values} /\ waiter[join.ID] = NilCallback
            BY <3>0, <3>1, <3>3, <5>1
          <6>2. taken' = taken
            <7>1. joinSets[join.ID].Callback = NilCallback
              BY <3>0, <6>1
            <7> HIDE DEF Res, Wait
            <7>2. taken' = taken \cup
                    {call \in {[callback |-> NilCallback, id |-> join.ID, values |-> js.Values]} :
                       call.callback # NilCallback}
              BY <3>0, <5>1, <7>1
            <7> QED BY <7>2
          <6>3. result' = result
            BY <3>0, <5>1, <6>1
          <6>4. waiter' = waiter
            BY <3>0, <5>1, <6>1
          <6> QED BY <6>2, <6>3, <6>4
        <5>2. CASE ~js.ValuesOk
          BY <3>0, <5>2
        <5> QED BY <5>1, <5>2
      <4> QED BY <2>6, <4>1 DEF Future!vars
    <3> QED BY <3>2, <3>3
  <2>7. CASE Next
    BY <2>2, <2>3, <2>5, <2>6, <2>7, InsertSteps
  <2> QED BY <2>1, <2>7
<1> QED BY <1>1, <1>2, JoinerInvariant, PTL DEF Spec, ImplementsFuture, Future!Spec
=============================================================================
