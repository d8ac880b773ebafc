------------------------------- MODULE ForAll -------------------------------
(***************************************************************************)
(* CoBegin, CoForAll and ForAll of dispatch/co.go: a function is called for   *)
(* every index of an iterator on background goroutines, and the caller waits   *)
(* for all of them in a sync.WaitGroup.  The indices stand for those of an     *)
(* array, for the keys of a map and for the functions of CoBegin.             *)
(***************************************************************************)
EXTENDS Integers, FiniteSets

CONSTANTS
  MaxNum,  \* bound on the length of the iterator
  CPUs     \* numbers of CPUs, what runtime.NumCPU may return

VARIABLES
  num,      \* length of the iterator, fixed
  per,      \* numPerGoroutine, fixed
  counted,  \* whether all goroutines are added to wg before the first, fixed
  pc,       \* of the caller: "spawning", "waiting" or "returned"
  i,        \* loop variable of the caller
  wg,       \* counter of the WaitGroup
  next,     \* [goroutines, by their first index -> loop variable j]
  called    \* [indices -> how often the function was called with it]

vars == <<num, per, counted, pc, i, wg, next, called>>

\* ForAll distributes the indices over as many goroutines as there are CPUs.
PerGoroutine(n, cpus) == n \div cpus + 1

Start(n, each, atOnce) ==
  /\ num = n /\ per = each /\ counted = atOnce
  /\ wg = IF atOnce THEN n ELSE 0

ForAllStart == \E n \in 0 .. MaxNum, cpus \in CPUs : Start(n, PerGoroutine(n, cpus), FALSE)
CoForAllStart == \E n \in 0 .. MaxNum : Start(n, 1, TRUE)
CoBeginStart == \E n \in 0 .. MaxNum : Start(n, 1, FALSE)

Init ==
  /\ ForAllStart \/ CoForAllStart \/ CoBeginStart
  /\ pc = "spawning" /\ i = 0
  /\ next = [s \in {} |-> 0]
  /\ called = [j \in 0 .. num - 1 |-> 0]
-----------------------------------------------------------------------------

\* Mutant of Spawn: wg.Add is left to the goroutine, which may not have run yet.
SpawnUncounted ==
  /\ pc = "spawning" /\ i < num
  /\ next' = [s \in DOMAIN next \cup {i} |-> IF s = i THEN i ELSE next[s]]
  /\ i' = i + per
  /\ UNCHANGED <<num, per, counted, pc, wg, called>>

\* The caller starts a goroutine, which it has added to wg before.
Spawn ==
  /\ pc = "spawning" /\ i < num
  /\ wg' = IF counted THEN wg ELSE wg + 1
  /\ next' = [s \in DOMAIN next \cup {i} |-> IF s = i THEN i ELSE next[s]]
  /\ i' = i + per
  /\ UNCHANGED <<num, per, counted, pc, called>>

SpawnEnds ==
  /\ pc = "spawning" /\ i >= num
  /\ pc' = "waiting"
  /\ UNCHANGED <<num, per, counted, i, wg, next, called>>

Remaining(s) == next[s] < s + per /\ next[s] < num

Call(s) ==
  /\ Remaining(s)
  /\ called' = [called EXCEPT ![next[s]] = @ + 1]
  /\ next' = [next EXCEPT ![s] = @ + 1]
  /\ UNCHANGED <<num, per, counted, pc, i, wg>>

\* The goroutine returns: wg.Done.
Done(s) ==
  /\ ~Remaining(s)
  /\ wg' = wg - 1
  /\ next' = [t \in DOMAIN next \ {s} |-> next[t]]
  /\ UNCHANGED <<num, per, counted, pc, i, called>>

\* wg.Wait
Wait ==
  /\ pc = "waiting" /\ wg = 0
  /\ pc' = "returned"
  /\ UNCHANGED <<num, per, counted, i, wg, next, called>>

Next == Spawn \/ SpawnEnds \/ Wait \/ \E s \in DOMAIN next : Call(s) \/ Done(s)

Spec == Init /\ [][Next]_vars
-----------------------------------------------------------------------------

\* The function is called once for every index before ForAll, CoForAll or CoBegin
\* returns, and the counter of the WaitGroup is never below the number of goroutines
\* that still run (nobody returns before them, and it does not get negative, which
\* would panic).
CalledForAll ==
  /\ \A j \in DOMAIN called : called[j] <= 1
  /\ pc = "returned" => \A j \in DOMAIN called : called[j] = 1
  /\ wg >= Cardinality(DOMAIN next)
=============================================================================
