------------------------------- MODULE Joiner -------------------------------
(***************************************************************************)
(* smpc/joiner.go: a Joiner shared by the threads of one node.             *)
(*                                                                         *)
(* insertJoin holds joinSetsMu from loading the JoinSet to storing it, so   *)
(* that part is one step.  The callback it takes out of the JoinSet runs    *)
(* after the mutex is released: it is put in `calling` by that step and     *)
(* run by RunCallback, with steps of other threads in between.              *)
(***************************************************************************)
EXTENDS JoinSets

CONSTANTS
  JoinIDs,      \* identifiers of joins
  JoinIndices,  \* indices of shares, one per node of the network
  JoinLengths,  \* numbers of shares callers pass
  Callbacks     \* one token per call of InsertJoinAndSetCallback

ASSUME JoinerAssumption ==
  /\ IsFiniteSet(JoinIndices)
  /\ JoinLengths \subseteq Nat
  /\ NilCallback \notin Callbacks

VARIABLES
  joinSets,    \* Joiner.joinSets
  calling,     \* threads between joinSetsMu.Unlock and maybeCallback(...)
  called,      \* how often each callback has run
  taken,       \* every callback ever taken out of a JoinSet, with its values
  accepted,    \* callbacks of the calls that returned nil
  refused,     \* callbacks of the calls that returned an error
  overridden   \* callbacks replaced before they were called

vars == <<joinSets, calling, called, taken, accepted, refused, overridden>>

Joins == [ID : JoinIDs, Index : JoinIndices, Len : JoinLengths]
JoinValues == UNION {[1 .. n -> SUBSET JoinIndices] : n \in JoinLengths}
Calls == [callback : Callbacks, id : JoinIDs, values : JoinValues]
JoinSetType ==
  [Set       : SUBSET JoinIndices,
   ValuesOk  : BOOLEAN,
   Values    : JoinValues \cup {<<>>},
   ValuesLen : JoinLengths \cup {-1},
   Callback  : Callbacks \cup {NilCallback}]

NewJoiner ==
  /\ joinSets = [id \in JoinIDs |-> NoJoinSet]
  /\ calling = {}
  /\ called = [cb \in Callbacks |-> 0]
  /\ taken = {}
  /\ accepted = {}
  /\ refused = {}
  /\ overridden = {}
-----------------------------------------------------------------------------

\* The calls of insertJoin that return an error.  None of them changes a
\* JoinSet: a JoinSet that has just been made has the length of its Join.
RefusesJoin(join) ==
  \/ join.Len > MaxJoinLength
  \/ join.Len # LoadJoinSet(joinSets[join.ID], join).ValuesLen

\* Mutant of TakeCallback: a nil callback is called.
TakeCallbackNil(joinSet, id) ==
  LET call == [callback |-> joinSet.Callback, id |-> id, values |-> joinSet.Values]
  IN  /\ calling' = calling \cup {call}
      /\ taken' = taken \cup {call}

\* Leave the critical section with maybeCallback, which may be nil, and the
\* copy of the values that it will be passed.
TakeCallback(joinSet, id) ==
  LET calls == {call \in {[callback |-> joinSet.Callback, id |-> id,
                           values |-> joinSet.Values]} :
                  call.callback # NilCallback}
  IN  /\ calling' = calling \cup calls
      /\ taken' = taken \cup calls

\* insertJoin, the critical section after the length check.
StoreJoin(join, callback, overrideCallback) ==
  LET inserted == AcceptJoin(LoadJoinSet(joinSets[join.ID], join),
                             join, callback, overrideCallback)
  IN  \/ /\ TooFewJoins(inserted)
         /\ joinSets' = [joinSets EXCEPT ![join.ID] = inserted]
         /\ UNCHANGED <<calling, taken>>
      \/ /\ ~TooFewJoins(inserted)
         /\ \E known \in ReconstructJoinSet(inserted) :
              /\ joinSets' = [joinSets EXCEPT ![join.ID] = ClearCallback(known)]
              /\ TakeCallback(known, join.ID)

\* A call that sets a callback; a nil callback removes the one that is set.
InsertJoinAndSetCallback(join, callback) ==
  /\ callback \notin accepted \cup refused
  /\ \/ /\ RefusesJoin(join)
        /\ refused' = refused \cup ({callback} \ {NilCallback})
        /\ UNCHANGED <<joinSets, calling, taken, accepted, overridden>>
     \/ /\ ~RefusesJoin(join)
        /\ StoreJoin(join, callback, TRUE)
        /\ accepted' = accepted \cup ({callback} \ {NilCallback})
        /\ overridden' = overridden \cup
                           ({joinSets[join.ID].Callback} \ {NilCallback})
        /\ UNCHANGED refused
  /\ UNCHANGED called

\* A call that leaves the callback alone: a Join received from a peer.
InsertJoin(join) ==
  /\ ~RefusesJoin(join)
  /\ StoreJoin(join, NilCallback, FALSE)
  /\ UNCHANGED <<called, accepted, refused, overridden>>

\* The callback runs, outside of joinSetsMu.
RunCallback(call) ==
  /\ call \in calling
  /\ calling' = calling \ {call}
  /\ called' = [called EXCEPT ![call.callback] = @ + 1]
  /\ UNCHANGED <<joinSets, taken, accepted, refused, overridden>>

Next ==
  \/ \E join \in Joins, callback \in Callbacks \cup {NilCallback} :
       InsertJoinAndSetCallback(join, callback)
  \/ \E join \in Joins : InsertJoin(join)
  \/ \E call \in calling : RunCallback(call)

Spec == NewJoiner /\ [][Next]_vars
-----------------------------------------------------------------------------

\* The variables have their types.
TypeOK ==
  /\ joinSets \in [JoinIDs -> JoinSetType]
  /\ calling \subseteq Calls
  /\ called \in [Callbacks -> Nat]
  /\ taken \subseteq Calls
  /\ accepted \subseteq Callbacks
  /\ refused \subseteq Callbacks
  /\ overridden \subseteq Callbacks

\* A callback is never stranded: insertJoin leaves one in the JoinSet only
\* while the JoinSet has too few Joins, so the Join that completes the set is
\* still to come and will take it.
NoStrandedCallback ==
  \A id \in JoinIDs :
    joinSets[id].Callback # NilCallback =>
      ~joinSets[id].ValuesOk /\ TooFewJoins(joinSets[id])

\* Where the callback cb can be.
WaitsIn(cb, id) == joinSets[id].Callback = cb
BeingCalled(cb) == \E call \in calling : call.callback = cb

\* "The Callback will only be called once per call to InsertJoinAndSetCallback"
\* (joiner.go:141), whichever threads complete the set; and one whose call was
\* refused is never called.
CalledAtMostOnce ==
  \A cb \in Callbacks :
    /\ called[cb] <= 1
    /\ called[cb] = 1 => ~BeingCalled(cb)
    /\ cb \in refused => called[cb] = 0 /\ ~BeingCalled(cb)

\* No callback is lost: the callback of a call that returned nil waits in a
\* JoinSet, was taken out to be called or was replaced by a later call; and one
\* that was taken out but has not run is still going to.
CallbackAccounted ==
  /\ \A cb \in accepted :
       \/ \E id \in JoinIDs : WaitsIn(cb, id)
       \/ \E call \in taken : call.callback = cb
       \/ cb \in overridden
  /\ \A call \in taken : call \in calling \/ called[call.callback] = 1

\* Every callback for an ID is passed the same values, those the JoinSet of
\* the ID still holds whatever has been inserted since, and all the values
\* come from the same k Joins, in whatever order the map yields its entries.
CallsAgree ==
  \A call \in taken :
    /\ joinSets[call.id].ValuesOk
    /\ call.values = joinSets[call.id].Values
    /\ \A i \in DOMAIN call.values : call.values[i] = joinSets[call.id].Set
    /\ Cardinality(joinSets[call.id].Set) = k

\* Values that have been reconstructed never change, and neither does the set
\* they came from: later Joins of the same ID are ignored.
ValuesAreFinal ==
  [][\A id \in JoinIDs : joinSets[id].ValuesOk =>
       joinSets'[id] = [joinSets[id] EXCEPT !.Callback = joinSets'[id].Callback]]_vars
-----------------------------------------------------------------------------

\* What a Joiner promises: each JoinID is a write-once result that hands itself
\* to the latest subscriber (JoinFuture.tla).
Future == INSTANCE JoinFuture WITH
  Results <- JoinValues,
  result  <- [id \in JoinIDs |->
                IF joinSets[id].ValuesOk THEN {joinSets[id].Values} ELSE {}],
  waiter  <- [id \in JoinIDs |-> joinSets[id].Callback],
  fired   <- taken,
  used    <- accepted \cup refused

\* The Joiner implements the write-once result.
ImplementsFuture == Future!Spec
=============================================================================
