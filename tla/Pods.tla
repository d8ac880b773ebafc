-------------------------------- MODULE Pods --------------------------------
(***************************************************************************)
(* pods of contract/binder.go: how the darknodes of an epoch are divided     *)
(* into pods, and Pod of registry/epoch.go, which looks one up.              *)
(*                                                                         *)
(* Every darknode computes the pods for itself from the contract, one call   *)
(* per darknode, while darknodes may deregister.  Darknodes are numbered in   *)
(* the order of GetDarknodes.                                                *)
(***************************************************************************)
EXTENDS Naturals, FiniteSets

CONSTANTS
  MaxDarknodes,  \* bound on the number of darknodes
  MaxEpochVal    \* bound on the hash of an epoch

ASSUME PodsAssumption == MaxDarknodes \in Nat /\ MaxEpochVal \in Nat

VARIABLES
  input,       \* [darknodes, size, epochVal]: what the contract says, fixed
  registered,  \* darknodes for which IsRegistered returns true
  at,          \* x: the position in the list
  position,    \* positionInOcean: darknode to its number, for the ones that have one
  pc           \* "running", "returned" or "failed"

podsVars == <<input, registered, at, position, pc>>

Listed == 0 .. input.darknodes - 1
NumberOfPods == input.darknodes \div input.size
Degraded == input.darknodes < input.size
Placed == DOMAIN position

PodsInit ==
  /\ input \in [darknodes : 1 .. MaxDarknodes, size : 1 .. MaxDarknodes,
                epochVal : 0 .. MaxEpochVal]
  /\ registered = Listed
  /\ at = input.epochVal % input.darknodes
  /\ position = [d \in {} |-> 0]
  /\ pc = IF Degraded THEN "failed" ELSE "running"

\* The next darknode that is registered and has no number yet, from at on.
Skip ==
  /\ pc = "running" /\ (at \notin registered \/ at \in Placed)
  /\ Cardinality(Placed) < input.darknodes
  /\ at' = (at + 1) % input.darknodes
  /\ UNCHANGED <<input, registered, position, pc>>

\* Mutant of Place: the position runs past the list.
PlaceBeyond ==
  /\ pc = "running" /\ at \in registered \ Placed
  /\ position' = [d \in Placed \cup {at} |-> IF d = at THEN Cardinality(Placed) ELSE position[d]]
  /\ at' = at + input.epochVal
  /\ UNCHANGED <<input, registered, pc>>

\* The darknode gets the next number, and at jumps by the hash of the epoch.
Place ==
  /\ pc = "running" /\ at \in registered \ Placed
  /\ position' = [d \in Placed \cup {at} |-> IF d = at THEN Cardinality(Placed) ELSE position[d]]
  /\ at' = (at + input.epochVal) % input.darknodes
  /\ UNCHANGED <<input, registered, pc>>

\* All darknodes are in a pod.
PodsReturn ==
  /\ pc = "running" /\ Cardinality(Placed) = input.darknodes
  /\ pc' = "returned"
  /\ UNCHANGED <<input, registered, at, position>>

\* A call of the contract returns an error.
PodsFail ==
  /\ pc = "running"
  /\ pc' = "failed"
  /\ UNCHANGED <<input, registered, at, position>>

\* A darknode deregisters, but is still listed.
Deregister(d) ==
  /\ pc = "running" /\ registered = Listed /\ d \in Listed
  /\ registered' = registered \ {d}
  /\ UNCHANGED <<input, at, position, pc>>

\* Mutant of PodOf: the number is taken modulo the size of a pod.
PodOfBySize(id) == {d \in Placed : position[d] % input.size = id}

\* The pod with the given number.
PodOf(id) == {d \in Placed : position[d] % NumberOfPods = id}

PodsStep == Skip \/ Place \/ PodsReturn
PodsNext == PodsStep \/ PodsFail \/ \E d \in 0 .. MaxDarknodes - 1 : Deregister(d)

PodsSpec == PodsInit /\ [][PodsNext]_podsVars
-----------------------------------------------------------------------------

\* The variables have their types.
PodsTypeOK ==
  /\ registered \subseteq Listed /\ at \in Listed /\ Placed \subseteq Listed
  /\ \A d \in Placed : position[d] \in Listed

\* Every darknode finds itself in exactly one pod, no pod has less than the
\* minimum size and no two differ by more than one.
Divided ==
  /\ \A d \in Listed : \E id \in 0 .. NumberOfPods - 1 :
       d \in PodOf(id) /\ \A other \in 0 .. NumberOfPods - 1 : d \in PodOf(other) => other = id
  /\ \A id, other \in 0 .. NumberOfPods - 1 :
       /\ Cardinality(PodOf(id)) >= input.size
       /\ Cardinality(PodOf(id)) <= Cardinality(PodOf(other)) + 1

\* For every number of darknodes, pod size and hash the search for a free position
\* ends and divides the darknodes, unless a darknode deregisters while it runs:
\* then it may go round for ever, with the read lock of the Binder.
Formed == (pc = "returned" /\ Divided) \/ pc = "failed" \/ registered # Listed
=============================================================================
