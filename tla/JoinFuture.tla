----------------------------- MODULE JoinFuture -----------------------------
(***************************************************************************)
(* What smpc.Joiner promises to smpcer.Join, with no sets of joins, no      *)
(* thresholds and no threads: every JoinID has a result that is written at  *)
(* most once, and at most one subscriber, which is handed the result in the *)
(* very step in which both exist and is then forgotten.                     *)
(***************************************************************************)
CONSTANTS JoinIDs, Callbacks, NilCallback, Results

VARIABLES
  result,  \* [JoinIDs -> {} or a singleton of Results]
  waiter,  \* the subscriber of each ID, or NilCallback
  fired,   \* which subscriber was handed which result of which ID
  used     \* subscribers that have been presented

vars == <<result, waiter, fired, used>>

Init ==
  /\ result = [id \in JoinIDs |-> {}]
  /\ waiter = [id \in JoinIDs |-> NilCallback]
  /\ fired = {}
  /\ used = {}

Hand(id, cb, r) ==
  /\ fired' = fired \cup {call \in {[callback |-> cb, id |-> id, values |-> r]} :
                            call.callback # NilCallback}
  /\ waiter' = [waiter EXCEPT ![id] = NilCallback]

Present(cb) ==
  /\ cb \notin used
  /\ used' = used \cup ({cb} \ {NilCallback})

\* No result yet: the subscriber takes the place of the one before it.
Wait(id, cb) ==
  /\ Present(cb)
  /\ result[id] = {}
  /\ waiter' = [waiter EXCEPT ![id] = cb]
  /\ UNCHANGED <<result, fired>>

\* The result is known, or becomes known with the subscription.
Answer(id, cb) ==
  /\ Present(cb)
  /\ \E r \in Results :
       /\ result[id] \subseteq {r}
       /\ result' = [result EXCEPT ![id] = {r}]
       /\ Hand(id, cb, r)

\* The result becomes known to whoever is waiting.
Resolve(id) ==
  /\ result[id] = {}
  /\ \E r \in Results :
       /\ result' = [result EXCEPT ![id] = {r}]
       /\ Hand(id, waiter[id], r)
  /\ UNCHANGED used

\* The subscription is refused and the subscriber never handed anything.
Refuse(cb) ==
  /\ Present(cb)
  /\ UNCHANGED <<result, waiter, fired>>

Next ==
  \/ \E id \in JoinIDs, cb \in Callbacks \cup {NilCallback} :
       Wait(id, cb) \/ Answer(id, cb)
  \/ \E cb \in Callbacks \cup {NilCallback} : Refuse(cb)
  \/ \E id \in JoinIDs : Resolve(id)

Spec == Init /\ [][Next]_vars
=============================================================================
