------------------------------ MODULE JoinSets ------------------------------
(***************************************************************************)
(* The JoinSet of smpc/joiner.go and the part of Joiner.insertJoin that     *)
(* runs under joinSetsMu, as operators on one JoinSet.  Joiner.tla drives   *)
(* one Joiner with them and Smpc.tla one Joiner per node.                   *)
(*                                                                         *)
(* A Join is a record [ID, Index, Len]: the shares themselves are           *)
(* abstracted to how many there are, because every honest Join with the     *)
(* same ID and Index carries the same shares.  A reconstructed value is     *)
(* abstracted to the set of indices it was reconstructed from.              *)
(***************************************************************************)
EXTENDS Integers, FiniteSets

CONSTANTS
  k,              \* Joiner.k, how many Joins a reconstruction needs
  MaxJoinLength,  \* the most shares a Join may carry
  NilCallback     \* the nil Callback

ASSUME JoinSetsAssumption ==
  /\ k \in Nat \ {0}
  /\ MaxJoinLength \in Nat

\* A map key that has no JoinSet yet.
NoJoinSet == [Set |-> {}, ValuesOk |-> FALSE, Values |-> <<>>,
              ValuesLen |-> -1, Callback |-> NilCallback]

\* The JoinSet made for the first Join seen of a JoinID.
NewJoinSet(len) == [NoJoinSet EXCEPT !.ValuesLen = len]

\* Load the JoinSet of a Join's ID, making it when there is none.
LoadJoinSet(joinSet, join) ==
  IF joinSet = NoJoinSet THEN NewJoinSet(join.Len) ELSE joinSet

\* Mutant of AcceptJoin: Joins are inserted after the values are known.
AcceptJoinLate(joinSet, join, callback, overrideCallback) ==
  [joinSet EXCEPT
     !.Set      = @ \cup {join.Index},
     !.Callback = IF overrideCallback THEN callback ELSE @]

\* Mutant of AcceptJoin: InsertJoin overrides the callback as well.
AcceptJoinOverride(joinSet, join, callback, overrideCallback) ==
  [joinSet EXCEPT
     !.Set      = IF joinSet.ValuesOk THEN @ ELSE @ \cup {join.Index},
     !.Callback = callback]

\* Insert the Join unless the values are already known, and set the callback
\* when the caller asked for that.
AcceptJoin(joinSet, join, callback, overrideCallback) ==
  [joinSet EXCEPT
     !.Set      = IF joinSet.ValuesOk THEN @ ELSE @ \cup {join.Index},
     !.Callback = IF overrideCallback THEN callback ELSE @]

\* Mutant of TooFewJoins: one Join more than the threshold is waited for.
TooFewJoinsOffByOne(joinSet) == Cardinality(joinSet.Set) <= k

\* The short circuit: too few Joins to reconstruct.
TooFewJoins(joinSet) == Cardinality(joinSet.Set) < k

\* What shamir.Join may be given for each position: the loop over the Go map
\* takes the first k entries in whatever order the runtime yields them, and
\* starts over for every position.
Reconstructions(joinSet) ==
  [1 .. joinSet.ValuesLen -> {used \in SUBSET joinSet.Set : Cardinality(used) = k}]

\* The values known once there are enough Joins: computed once, then kept.
ReconstructJoinSet(joinSet) ==
  IF joinSet.ValuesOk
    THEN {joinSet}
    ELSE {[joinSet EXCEPT !.ValuesOk = TRUE, !.Values = values] :
            values \in Reconstructions(joinSet)}

\* Mutant of ClearCallback: the callback stays in the JoinSet.
ClearCallbackForgotten(joinSet) == joinSet

\* "Ensure that the Callback is only ever called once".
ClearCallback(joinSet) == [joinSet EXCEPT !.Callback = NilCallback]
=============================================================================
