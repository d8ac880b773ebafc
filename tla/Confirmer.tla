------------------------------ MODULE Confirmer -----------------------------
(***************************************************************************)
(* ome/confirmer.go and ome/settler.go: the Computations that a node has    *)
(* resolved to a match are confirmed on the Orderbook contract, watched      *)
(* until the confirmation has the block depth required, and settled.        *)
(*                                                                         *)
(* Three goroutines: one takes matches and submits them (submit), one polls *)
(* the contract under confirmingMu (poll), and Ome.syncConfirmerToSettler   *)
(* consumes what is output.  The contract is shared with the other nodes    *)
(* and with the traders, and the three calls that the poll makes for an     *)
(* order, Depth, Status and OrderMatch, see it at three different moments.  *)
(***************************************************************************)
EXTENDS Integers, FiniteSets, Sequences

CONSTANTS
  Buys, Sells,      \* the orders
  NoOrder,          \* what OrderMatch returns for an order without a match
  SubmitMayFail,    \* whether ConfirmOrder may fail although the orders are open
  ContractMayFail,  \* whether other calls of the contract may return an error
  StoreMayFail,     \* whether calls of the ComputationStorer may
  ConfirmationsCap, \* capacity of the channel of confirmations
  MaxHours          \* bound: how often an hour passes

ASSUME ConfirmerAssumption ==
  /\ IsFiniteSet(Buys) /\ IsFiniteSet(Sells) /\ Buys \cap Sells = {}
  /\ NoOrder \notin Buys \cup Sells
  /\ SubmitMayFail \in BOOLEAN /\ ContractMayFail \in BOOLEAN /\ StoreMayFail \in BOOLEAN
  /\ ConfirmationsCap \in Nat \ {0} /\ MaxHours \in Nat

Orders == Buys \cup Sells
Pairs == Buys \X Sells
Depths == {0, 1}    \* order.FragmentEpochDepth: this epoch and the one before

VARIABLES
  status,        \* [Orders -> status on the contract]
  matchOf,       \* [Orders -> the order it is confirmed with]
  deep,          \* orders whose status changed at least orderbookBlockDepth ago
  coms,          \* matches that the Matcher is to hand over, <<pair, depth>>
  submit,        \* the first goroutine: where it is, and with which pair
  confirming,    \* confirmingBuyOrders and confirmingSellOrders
  confirmed,     \* [Orders -> how long ago it was output, or "no"]
  poll,          \* the second goroutine: where it is, and in which range
  errs,          \* errors in the channel of errors, capacity 1
  confirmations, \* the channel of confirmations, a sequence of Computations
  settling,      \* Computations that the smpcer is to reveal to the Settler
  stored,        \* [Pairs \X Depths -> ComputationState in the store, or "none"]
  done,          \* whether the done channel is closed
  hours,         \* how often an hour has passed
  outputs        \* [Pairs -> how often it was output]

chainVars == <<status, matchOf, deep>>
vars == <<status, matchOf, deep, coms, submit, confirming, confirmed, poll, errs,
          confirmations, settling, stored, done, hours, outputs>>

\* A Computation is <<pair, depth>>, of which the store holds one for every
\* pair and depth (NewComputationID).
Computations == Pairs \X Depths

Idle == [at |-> "idle", parity |-> "buy", ord |-> NoOrder, com |-> NoOrder, visited |-> {}]

Init ==
  /\ status = [o \in Orders |-> "open"]
  /\ matchOf = [o \in Orders |-> NoOrder]
  /\ deep \in SUBSET Orders
  /\ coms \in SUBSET Computations
  \* What resolved to a match was stored first, and its error ignored.  The
  \* store also holds what this node is still resolving, or resolved before.
  /\ stored \in [Computations -> {"none", "matched"}]
  /\ StoreMayFail \/ \A c \in coms : stored[c] = "matched"
  /\ submit = [at |-> "idle", pair |-> NoOrder]
  /\ confirming = {}
  /\ confirmed = [o \in Orders |-> "no"]
  /\ poll = Idle
  /\ errs = 0
  /\ confirmations = <<>>
  /\ settling = {}
  /\ done = FALSE
  /\ hours = 0
  /\ outputs = [p \in Pairs |-> 0]
-----------------------------------------------------------------------------
(* The contract, the other nodes, the traders and the clock.                *)

\* Orderbook.confirmOrder: both orders must be open, and their depth restarts.
ConfirmOnChain(p) ==
  /\ status[p[1]] = "open" /\ status[p[2]] = "open"
  /\ status' = [status EXCEPT ![p[1]] = "confirmed", ![p[2]] = "confirmed"]
  /\ matchOf' = [matchOf EXCEPT ![p[1]] = p[2], ![p[2]] = p[1]]
  /\ deep' = deep \ {p[1], p[2]}

\* Another node, or a transaction whose sender stopped waiting for it.
OtherConfirms(p) ==
  /\ ConfirmOnChain(p)
  /\ UNCHANGED <<coms, submit, confirming, confirmed, poll, errs, confirmations,
                 settling, stored, done, hours, outputs>>

\* A trader cancels an order.
CancelOrder(o) ==
  /\ status[o] = "open"
  /\ status' = [status EXCEPT ![o] = "canceled"]
  /\ deep' = deep \ {o}
  /\ UNCHANGED <<matchOf, coms, submit, confirming, confirmed, poll, errs,
                 confirmations, settling, stored, done, hours, outputs>>

\* Blocks are mined on top of the last change of an order, and of its match.
Deepen(o) ==
  /\ o \notin deep
  /\ deep' = deep \cup ({o, matchOf[o]} \ {NoOrder})
  /\ UNCHANGED <<status, matchOf, coms, submit, confirming, confirmed, poll, errs,
                 confirmations, settling, stored, done, hours, outputs>>

HourPasses ==
  /\ hours < MaxHours
  /\ hours' = hours + 1
  /\ confirmed' = [o \in Orders |-> IF confirmed[o] = "no" THEN "no" ELSE "old"]
  /\ UNCHANGED <<chainVars, coms, submit, confirming, poll, errs, confirmations,
                 settling, stored, done, outputs>>

\* The done channel is closed.
CloseDone ==
  /\ ~done
  /\ done' = TRUE
  /\ UNCHANGED <<chainVars, coms, submit, confirming, confirmed, poll, errs,
                 confirmations, settling, stored, hours, outputs>>
-----------------------------------------------------------------------------
(* The first goroutine of Confirm.                                          *)

\* Take a match and skip it when one of its orders was output.  confirmed is
\* read without confirmingMu.
TakeMatch(c) ==
  /\ submit.at = "idle" /\ c \in coms
  /\ coms' = coms \ {c}
  /\ submit' = IF \A i \in {1, 2} : confirmed[c[1][i]] = "no"
                 THEN [at |-> "submitting", pair |-> c[1]] ELSE submit
  /\ UNCHANGED <<chainVars, confirming, confirmed, poll, errs, confirmations,
                 settling, stored, done, hours, outputs>>

\* beginConfirmation: confirm on the contract, or get an error, which is
\* logged and passed through.
BeginConfirmation ==
  /\ submit.at = "submitting"
  /\ \/ ConfirmOnChain(submit.pair)
     \/ /\ SubmitMayFail \/ \E i \in {1, 2} : status[submit.pair[i]] # "open"
        /\ UNCHANGED chainVars
  /\ submit' = [submit EXCEPT !.at = "watching"]
  /\ UNCHANGED <<coms, confirming, confirmed, poll, errs, confirmations, settling,
                 stored, done, hours, outputs>>

\* Register the orders to be watched, under confirmingMu.
WatchOrders ==
  /\ submit.at = "watching" /\ poll.at \in {"idle", "returned"}
  /\ confirming' = confirming \cup {submit.pair[1], submit.pair[2]}
  /\ submit' = [at |-> "idle", pair |-> NoOrder]
  /\ UNCHANGED <<chainVars, coms, confirmed, poll, errs, confirmations, settling,
                 stored, done, hours, outputs>>

SubmitReturns ==
  /\ submit.at = "idle" /\ done
  /\ submit' = [submit EXCEPT !.at = "returned"]
  /\ UNCHANGED <<chainVars, coms, confirming, confirmed, poll, errs, confirmations,
                 settling, stored, done, hours, outputs>>
-----------------------------------------------------------------------------
(* The second goroutine: checkOrdersForConfirmationFinality for the buy     *)
(* orders, then for the sell orders, then a cleanup, all under confirmingMu. *)

\* The orders that the range over the map has still to visit: those that were
\* deleted meanwhile are not.
Unvisited == {o \in confirming : /\ o \in (IF poll.parity = "buy" THEN Buys ELSE Sells)
                                 /\ o \notin poll.visited}

\* Go on with the range, or end it as if all had been visited.
Continue == poll' = [poll EXCEPT !.at = "range", !.visited = @ \cup {poll.ord},
                                 !.ord = NoOrder, !.com = NoOrder]
EndRange == poll' = [poll EXCEPT !.at = "range", !.visited = Orders,
                                 !.ord = NoOrder, !.com = NoOrder]

\* Mutant of SendErr: the capacity of the channel is ignored.
SendErrUnbounded == errs' = errs + 1 /\ Continue

\* Mutant of SendErr: the send does not watch done.
SendErrBlocking == errs < 1 /\ errs' = errs + 1 /\ Continue

\* Send an error and continue, unless done is closed.  A send that finds the
\* channel full waits for room.
SendErr == \/ errs < 1 /\ errs' = errs + 1 /\ Continue
           \/ done /\ errs' = errs /\ EndRange

\* The ticker fires and the poll takes confirmingMu.
PollBegins ==
  /\ poll.at = "idle"
  /\ poll' = [Idle EXCEPT !.at = "range"]
  /\ UNCHANGED <<chainVars, coms, submit, confirming, confirmed, errs,
                 confirmations, settling, stored, done, hours, outputs>>

\* Mutant of CheckDepth: an order that has not passed the limit is purged.
CheckDepthPurges(o) ==
  /\ poll.at = "range" /\ o \in Unvisited
  /\ \/ /\ o \in deep
        /\ poll' = [poll EXCEPT !.at = "status", !.ord = o] /\ UNCHANGED confirming
     \/ /\ o \notin deep
        /\ poll' = [poll EXCEPT !.visited = @ \cup {o}] /\ confirming' = confirming \ {o}
  /\ UNCHANGED <<chainVars, coms, submit, confirmed, errs, confirmations, settling,
                 stored, done, hours, outputs>>

\* contract.Depth: an order that has not passed the depth limit is left alone.
CheckDepth(o) ==
  /\ poll.at = "range" /\ o \in Unvisited
  /\ \/ /\ o \in deep
        /\ poll' = [poll EXCEPT !.at = "status", !.ord = o]
     \/ /\ o \notin deep
        /\ poll' = [poll EXCEPT !.visited = @ \cup {o}]
     \/ /\ ContractMayFail
        /\ poll' = [poll EXCEPT !.at = "fail", !.ord = o]
  /\ UNCHANGED <<chainVars, coms, submit, confirming, confirmed, errs,
                 confirmations, settling, stored, done, hours, outputs>>

\* The error of a call is sent.
SendError ==
  /\ poll.at = "fail" /\ SendErr
  /\ UNCHANGED <<chainVars, coms, submit, confirming, confirmed, confirmations,
                 settling, stored, done, hours, outputs>>

\* contract.Status: an order that is not confirmed is no longer watched.
CheckStatus ==
  /\ poll.at = "status"
  /\ \/ /\ status[poll.ord] = "confirmed"
        /\ poll' = [poll EXCEPT !.at = "match"]
        /\ UNCHANGED confirming
     \/ /\ status[poll.ord] # "confirmed"
        /\ confirming' = confirming \ {poll.ord}
        /\ Continue
     \/ /\ ContractMayFail /\ poll' = [poll EXCEPT !.at = "fail"]
        /\ UNCHANGED confirming
  /\ UNCHANGED <<chainVars, coms, submit, confirmed, errs, confirmations, settling,
                 stored, done, hours, outputs>>

PairOf(o, m) == IF o \in Buys THEN <<o, m>> ELSE <<m, o>>

\* Mutant of ComputationsFromOrders: any stored Computation of the order.
ComputationsFromOrdersAny(o, m) ==
  {c \in Computations : stored[c] # "none" /\ o \in {c[1][1], c[1][2]}}

\* computationFromOrders: the Computation of the two orders for this epoch, or
\* else for the previous one; none if neither can be loaded.
ComputationsFromOrders(o, m) ==
  LET Found(d) == stored[<<PairOf(o, m), d>>] # "none"
  IN  {<<PairOf(o, m), d>> : d \in {d \in Depths :
         Found(d) /\ (d = 0 \/ ~Found(0) \/ StoreMayFail)}}

\* contract.OrderMatch, computationFromOrders and PutComputation.
LoadComputation ==
  /\ poll.at = "match"
  /\ LET m == matchOf[poll.ord]
         found == ComputationsFromOrders(poll.ord, m)
     IN  \/ /\ ContractMayFail
            /\ poll' = [poll EXCEPT !.at = "fail"]
            /\ UNCHANGED <<confirming, stored, errs>>
         \* Not found: the error is sent and both orders are dropped.
         \/ /\ found = {} \/ StoreMayFail
            /\ SendErr
            /\ confirming' = IF errs' = errs THEN confirming ELSE confirming \ {poll.ord, m}
            /\ UNCHANGED stored
         \/ \E c \in found :
              \/ /\ stored' = [stored EXCEPT ![c] = "accepted"]
                 /\ poll' = [poll EXCEPT !.at = "output", !.com = c]
                 /\ UNCHANGED <<confirming, errs>>
              \* The store failed: the error is sent and the poll goes on.
              \/ /\ StoreMayFail /\ errs < 1
                 /\ errs' = errs + 1
                 /\ poll' = [poll EXCEPT !.at = "output", !.com = c]
                 /\ UNCHANGED <<confirming, stored>>
              \/ /\ StoreMayFail /\ done
                 /\ EndRange
                 /\ UNCHANGED <<confirming, errs, stored>>
  /\ UNCHANGED <<chainVars, coms, submit, confirmed, confirmations, settling, done,
                 hours, outputs>>

WasOutput(p) == \E i \in {1, 2} : confirmed[p[i]] # "no"

\* Mutant of Output: it is not recorded what was output.
OutputForgotten ==
  /\ poll.at = "output" /\ Len(confirmations) < ConfirmationsCap
  /\ LET p == poll.com[1]
     IN  /\ confirmations' = Append(confirmations, poll.com)
         /\ outputs' = [outputs EXCEPT ![p] = @ + 1]
         /\ Continue
         /\ UNCHANGED <<confirming, confirmed>>
  /\ UNCHANGED <<chainVars, coms, submit, errs, settling, stored, done, hours>>

\* Output the Computation, unless one of its orders has been output before.  A
\* send that finds the channel full waits for room, with confirmingMu held.
Output ==
  /\ poll.at = "output"
  /\ LET p == poll.com[1]
     IN  \/ /\ WasOutput(p)
            /\ Continue
            /\ UNCHANGED <<confirming, confirmed, confirmations, outputs>>
         \/ /\ ~WasOutput(p) /\ Len(confirmations) < ConfirmationsCap
            /\ confirmations' = Append(confirmations, poll.com)
            /\ outputs' = [outputs EXCEPT ![p] = @ + 1]
            /\ confirming' = confirming \ {p[1], p[2]}
            /\ confirmed' = [confirmed EXCEPT ![p[1]] = "recent", ![p[2]] = "recent"]
            /\ Continue
         \/ /\ ~WasOutput(p) /\ done
            /\ EndRange
            /\ UNCHANGED <<confirming, confirmed, confirmations, outputs>>
  /\ UNCHANGED <<chainVars, coms, submit, errs, settling, stored, done, hours>>

\* The range over the buy orders ends and that over the sell orders begins.
PollSells ==
  /\ poll.at = "range" /\ poll.parity = "buy" /\ Unvisited = {}
  /\ poll' = [Idle EXCEPT !.at = "range", !.parity = "sell"]
  /\ UNCHANGED <<chainVars, coms, submit, confirming, confirmed, errs,
                 confirmations, settling, stored, done, hours, outputs>>

\* Both ranges are over: forget what was output more than an hour ago.
PollEnds ==
  /\ poll.at = "range" /\ poll.parity = "sell" /\ Unvisited = {}
  /\ poll' = Idle
  /\ confirmed' = [o \in Orders |-> IF confirmed[o] = "old" THEN "no" ELSE confirmed[o]]
  /\ UNCHANGED <<chainVars, coms, submit, confirming, errs, confirmations,
                 settling, stored, done, hours, outputs>>

PollReturns ==
  /\ poll.at = "idle" /\ done
  /\ poll' = [Idle EXCEPT !.at = "returned"]
  /\ UNCHANGED <<chainVars, coms, submit, confirming, confirmed, errs,
                 confirmations, settling, stored, done, hours, outputs>>
-----------------------------------------------------------------------------
(* Ome.syncConfirmerToSettler and the Settler.                              *)

\* An error is forwarded.
ForwardError ==
  /\ errs > 0
  /\ errs' = errs - 1
  /\ UNCHANGED <<chainVars, coms, submit, confirming, confirmed, poll,
                 confirmations, settling, stored, done, hours, outputs>>

\* Settle: join the shares of both orders.  smpcer.Join may return an error,
\* which is only logged.
Settle ==
  /\ confirmations # <<>>
  /\ confirmations' = Tail(confirmations)
  /\ \/ settling' = settling \cup {Head(confirmations)}
     \/ settling' = settling
  /\ UNCHANGED <<chainVars, coms, submit, confirming, confirmed, poll, errs, stored,
                 done, hours, outputs>>

\* settleOrderMatch, called back with the revealed orders: contract.Settle and,
\* when it returned no error, PutComputation.
SettleOrderMatch(c) ==
  /\ c \in settling
  /\ settling' = settling \ {c}
  /\ \/ stored' = [stored EXCEPT ![c] = "settled"]
     \/ (ContractMayFail \/ StoreMayFail) /\ stored' = stored
  /\ UNCHANGED <<chainVars, coms, submit, confirming, confirmed, poll, errs,
                 confirmations, done, hours, outputs>>
-----------------------------------------------------------------------------

Submits == (\E c \in coms : TakeMatch(c)) \/ BeginConfirmation \/ SubmitReturns
Polls == \/ PollBegins \/ (\E o \in Orders : CheckDepth(o)) \/ SendError \/ CheckStatus
         \/ LoadComputation \/ Output \/ PollSells \/ PollEnds
Consumes == ForwardError \/ Settle

Next ==
  \/ \E p \in Pairs : OtherConfirms(p)
  \/ \E o \in Orders : CancelOrder(o) \/ Deepen(o)
  \/ HourPasses \/ CloseDone
  \/ Submits \/ WatchOrders
  \/ Polls \/ PollReturns
  \/ Consumes \/ (\E c \in settling : SettleOrderMatch(c))

Spec == Init /\ [][Next]_vars

\* Blocks are mined and the goroutines run.  confirmingMu is not held for ever
\* against the one that waits for it (a sync.Mutex is fair to a waiter that
\* starves), and a select does not ignore a closed done for ever.  The consumer
\* may return as soon as done is closed.
Fairness ==
  /\ \A o \in Orders : WF_vars(Deepen(o))
  /\ WF_vars(Submits) /\ SF_vars(WatchOrders)
  /\ WF_vars(Polls) /\ SF_vars(PollReturns)
  /\ WF_vars(~done /\ ForwardError) /\ WF_vars(~done /\ Settle)

FairSpec == Spec /\ Fairness
-----------------------------------------------------------------------------

\* The variables have their types.
TypeOK ==
  /\ status \in [Orders -> {"open", "confirmed", "canceled"}]
  /\ matchOf \in [Orders -> Orders \cup {NoOrder}]
  /\ deep \subseteq Orders /\ confirming \subseteq Orders
  /\ coms \subseteq Computations /\ settling \subseteq Computations
  /\ submit \in [at : {"idle", "submitting", "watching", "returned"}, pair : Pairs \cup {NoOrder}]
  /\ confirmed \in [Orders -> {"no", "recent", "old"}]
  /\ poll \in [at : {"idle", "range", "status", "match", "output", "fail", "returned"},
               parity : {"buy", "sell"}, ord : Orders \cup {NoOrder},
               com : Computations \cup {NoOrder}, visited : SUBSET Orders]
  /\ errs \in 0 .. 1
  /\ confirmations \in Seq(Computations) /\ Len(confirmations) <= ConfirmationsCap
  /\ stored \in [Computations -> {"none", "matched", "accepted", "settled"}]
  /\ done \in BOOLEAN /\ hours \in 0 .. MaxHours
  /\ outputs \in [Pairs -> Nat]

\* Whatever is output, and so whatever is settled, is what the contract holds:
\* the two orders are confirmed, with each other.  No node acts on a match that
\* lost to a conflicting one ("This prevents the occurrence of conflicting
\* matches", confirmer.go:17-20), even when it submitted it itself.
OutputIsConfirmed ==
  \A p \in Pairs :
    (outputs[p] > 0 \/ \E c \in settling : c[1] = p) =>
      /\ status[p[1]] = "confirmed" /\ status[p[2]] = "confirmed"
      /\ matchOf[p[1]] = p[2] /\ matchOf[p[2]] = p[1]

\* A pair is output at most once in an hour ("Check that these orders have not
\* already been output", confirmer.go:205), although the same orders are matched
\* in two epochs, seen from both sides, and may be registered again after the
\* output.  After an hour the record is dropped, and an order that was registered
\* again behind its own output is output again.
OutputOnce == \A p \in Pairs : outputs[p] <= 1 + hours

\* What is output has passed the depth limit ("waiting until a submitted
\* Computation has been confirmed has the confirmation has passed the block
\* depth limit", confirmer.go:45-47).
OutputIsFinal ==
  [][\A p \in Pairs : outputs'[p] > outputs[p] => {p[1], p[2]} \subseteq deep]_vars

Known(p) == \E d \in Depths : stored[<<p, d>>] # "none"
Confirmed(p) == matchOf[p[1]] = p[2]

\* The poll is about to report an error, or has.
Failing == poll.at = "fail" \/ errs > 0

\* A pair that is watched while the contract holds it as confirmed is output,
\* unless the Confirmer is shut down or reports an error: neither a purge nor the
\* other goroutine takes it from the poll.
WatchedIsOutput ==
  \A p \in Pairs :
    (Confirmed(p) /\ Known(p) /\ (p[1] \in confirming \/ p[2] \in confirming)) ~>
      (outputs[p] > 0 \/ done \/ Failing)

\* Once done is closed both goroutines return, so that the channels are closed,
\* even if nobody receives from them any more.
ShutdownCompletes == done ~> (submit.at = "returned" /\ poll.at = "returned")
=============================================================================
