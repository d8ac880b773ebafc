---------------------------- MODULE ErrorChannels ---------------------------
(***************************************************************************)
(* MergeErrors, FilterErrors and ConsumeErrors of dispatch/error.go, one      *)
(* after the other: several channels of errors are merged into one, filtered   *)
(* into another and handled.  The producers send what Errors says and close   *)
(* their channels.                                                           *)
(***************************************************************************)
EXTENDS Naturals, Sequences

CONSTANTS
  Errors,  \* a sequence with the sequence of errors of every input channel
  Passing  \* errors for which the predicate is true

Inputs == DOMAIN Errors
Capacity == Len(Errors)  \* of the merged channel, and of the filtered one

VARIABLES
  left,      \* [Inputs -> errors that were not received yet]
  merging,   \* [Inputs -> the error its goroutine is about to send, or none]
  merged,    \* the channel of MergeErrors: [buffer, closed]
  filtering, \* the error that FilterErrors is about to send, or none
  filtered,  \* the channel of FilterErrors
  handled,   \* errors that ConsumeErrors has called the functions with
  returned,  \* inputs whose goroutine has returned
  consumed   \* whether ConsumeErrors has returned

vars == <<left, merging, merged, filtering, filtered, handled, returned, consumed>>

Channel == [buffer |-> <<>>, closed |-> FALSE]

Init ==
  /\ left = Errors
  /\ merging = [i \in Inputs |-> <<>>] /\ merged = Channel
  /\ filtering = <<>> /\ filtered = Channel
  /\ handled = <<>> /\ returned = {} /\ consumed = FALSE
-----------------------------------------------------------------------------

\* A goroutine of MergeErrors receives.
MergeReceives(i) ==
  /\ merging[i] = <<>> /\ left[i] # <<>>
  /\ merging' = [merging EXCEPT ![i] = <<Head(left[i])>>]
  /\ left' = [left EXCEPT ![i] = Tail(@)]
  /\ UNCHANGED <<merged, filtering, filtered, handled, returned, consumed>>

\* It sends, when there is room.
MergeSends(i) ==
  /\ merging[i] # <<>> /\ Len(merged.buffer) < Capacity
  /\ merged' = [merged EXCEPT !.buffer = @ \o merging[i]]
  /\ merging' = [merging EXCEPT ![i] = <<>>]
  /\ UNCHANGED <<left, filtering, filtered, handled, returned, consumed>>

\* Its input is closed: wg.Done.
MergeDone(i) ==
  /\ i \notin returned /\ merging[i] = <<>> /\ left[i] = <<>>
  /\ returned' = returned \cup {i}
  /\ UNCHANGED <<left, merging, merged, filtering, filtered, handled, consumed>>

\* Mutant of MergeCloses: closed as soon as one of the goroutines has returned.
MergeClosesEarly ==
  /\ ~merged.closed /\ returned # {}
  /\ merged' = [merged EXCEPT !.closed = TRUE]
  /\ UNCHANGED <<left, merging, filtering, filtered, handled, returned, consumed>>

\* wg.Wait, close(errCh)
MergeCloses ==
  /\ ~merged.closed /\ returned = Inputs
  /\ merged' = [merged EXCEPT !.closed = TRUE]
  /\ UNCHANGED <<left, merging, filtering, filtered, handled, returned, consumed>>

\* FilterErrors receives, and drops what the predicate is false for.
FilterReceives ==
  /\ filtering = <<>> /\ merged.buffer # <<>>
  /\ filtering' = IF Head(merged.buffer) \in Passing THEN <<Head(merged.buffer)>> ELSE <<>>
  /\ merged' = [merged EXCEPT !.buffer = Tail(@)]
  /\ UNCHANGED <<left, merging, filtered, handled, returned, consumed>>

FilterSends ==
  /\ filtering # <<>> /\ Len(filtered.buffer) < Capacity
  /\ filtered' = [filtered EXCEPT !.buffer = @ \o filtering]
  /\ filtering' = <<>>
  /\ UNCHANGED <<left, merging, merged, handled, returned, consumed>>

\* A channel that is closed is still received from until it is empty.
Drained(channel) == channel.closed /\ channel.buffer = <<>>

FilterCloses ==
  /\ ~filtered.closed /\ filtering = <<>> /\ Drained(merged)
  /\ filtered' = [filtered EXCEPT !.closed = TRUE]
  /\ UNCHANGED <<left, merging, merged, filtering, handled, returned, consumed>>

\* ConsumeErrors calls every function with the error.
Consume ==
  /\ filtered.buffer # <<>>
  /\ handled' = Append(handled, Head(filtered.buffer))
  /\ filtered' = [filtered EXCEPT !.buffer = Tail(@)]
  /\ UNCHANGED <<left, merging, merged, filtering, returned, consumed>>

ConsumeReturns ==
  /\ ~consumed /\ Drained(filtered)
  /\ consumed' = TRUE
  /\ UNCHANGED <<left, merging, merged, filtering, filtered, handled, returned>>

Next ==
  \/ \E i \in Inputs : MergeReceives(i) \/ MergeSends(i) \/ MergeDone(i)
  \/ MergeCloses \/ FilterReceives \/ FilterSends \/ FilterCloses
  \/ Consume \/ ConsumeReturns

Spec == Init /\ [][Next]_vars
-----------------------------------------------------------------------------

\* What was handled and what is on its way through the channels, in this order.
OnItsWay == handled \o filtered.buffer \o filtering \o merged.buffer

Among(err, seq) == \E p \in DOMAIN seq : seq[p] = err

\* Every error that passes is on its way or handled, once and in the order of its
\* input; no other error is handled; when ConsumeErrors returns all that pass are
\* handled, and nothing is sent on a closed channel (which would panic).
ErrorsHandled ==
  /\ \A i \in Inputs : \A j, l \in DOMAIN Errors[i] : \A p, q \in DOMAIN OnItsWay :
       p < q /\ OnItsWay[p] = Errors[i][j] /\ OnItsWay[q] = Errors[i][l] => j < l
  /\ \A i \in Inputs : \A j \in DOMAIN Errors[i] : LET err == Errors[i][j] IN
       err \in Passing =>
         \/ Among(err, handled)
         \/ ~consumed /\ (Among(err, OnItsWay) \/ Among(err, merging[i]) \/ Among(err, left[i]))
  /\ \A p \in DOMAIN handled : handled[p] \in Passing
  /\ merged.closed => \A i \in Inputs : merging[i] = <<>>
  /\ filtered.closed => filtering = <<>>
=============================================================================
