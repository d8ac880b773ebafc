------------------------------- MODULE Binder -------------------------------
(***************************************************************************)
(* The transactions of contract/binder.go: the nonce that the Binder keeps   *)
(* for its account, the mutex around it, and the waits for a transaction to   *)
(* be mined and for an order to be deep enough.                              *)
(*                                                                         *)
(* Callers are goroutines.  The chain, the pool of transactions and the       *)
(* other processes that use the account are external, and so is the order of  *)
(* the Orderbook contract that open, cancel and confirm are about.  Register, *)
(* Deregister, Refund, ApproveRen, SubmitOrder, SubmitMatch, NextEpoch,       *)
(* Deposit and Withdraw send one transaction each and wait for it: "submit".  *)
(* Gas price and value are set and reset below the mutex, in one step here.   *)
(***************************************************************************)
EXTENDS Integers, FiniteSets

CONSTANTS
  Callers,     \* goroutines
  Ops,         \* the operations they call, of AllOps
  Blocks,      \* BlocksForConfirmation
  MaxTries,    \* how often a nonce is refreshed, 60 in binder.go
  MaxCalls,    \* bound on the calls of a behaviour
  MaxFaults,   \* bound on transactions of other processes and dropped ones
  MaxNonce,    \* bound on nonces
  MaxDepth,    \* bound on the depth of the order
  Width        \* the range of an unsigned integer, 2^64

AllOps == {"submit", "settle", "open", "cancel", "confirm"}
Nonces == 0 .. MaxNonce - 1

ASSUME BinderAssumption ==
  /\ Ops \subseteq AllOps
  /\ Blocks \in Nat /\ MaxTries \in Nat /\ Width \in Nat \ {0}
  /\ MaxCalls \in Nat /\ MaxFaults \in Nat /\ MaxNonce \in Nat /\ MaxDepth \in Nat
  /\ Blocks <= MaxDepth /\ MaxDepth < Width

VARIABLES
  queues,  \* whether the pool takes a transaction before the ones below it, fixed
  nonce,   \* transactOpts.Nonce
  caller,  \* [Callers -> the state of its call]
  slot,    \* [Nonces -> the transaction the chain has for the nonce, or Free]
  mined,   \* how many transactions of the account are mined
  status,  \* of the order
  depth,   \* blocks since the status of the order changed
  calls, faults

chainVars == <<queues, slot, mined, status, depth>>
binderVars == <<nonce, caller, chainVars, calls, faults>>

Free == [by |-> "nobody", op |-> "none"]
NoCall == [pc |-> "idle", op |-> "none", sends |-> 0, accepted |-> 0, failed |-> FALSE,
         tries |-> 0, tx |-> 0, before |-> 0]

BinderInit ==
  /\ queues \in BOOLEAN
  /\ nonce = 0
  /\ caller = [c \in Callers |-> NoCall]
  /\ slot = [n \in Nonces |-> Free] /\ mined = 0
  /\ status = "none" /\ depth = 0
  /\ calls = 0 /\ faults = 0

Settling(c) == caller[c].op = "settle"

\* Mutant of MuFree: Settle returns without Unlock.
MuFreeLeaked ==
  \A c \in Callers :
    /\ caller[c].pc \notin {"sending", "refreshing", "resending"}
    /\ ~(Settling(c) /\ caller[c].pc \in {"waiting", "returned"})

\* SendTx holds mu while it sends, and Settle until it returns.
MuFree ==
  \A c \in Callers :
    /\ caller[c].pc \notin {"sending", "refreshing", "resending"}
    /\ ~(Settling(c) /\ caller[c].pc = "waiting")
-----------------------------------------------------------------------------
(* The answers of the chain (external). *)

\* PendingNonceAt: the first nonce that no transaction has.
IsPendingNonce(n) ==
  /\ n \in mined .. MaxNonce
  /\ n < MaxNonce => slot[n] = Free
  /\ \A m \in mined .. n - 1 : slot[m] # Free

\* What sending a transaction with nonce n returns: "lost" is an error after
\* the pool has taken the transaction, and tooLow is ErrReplaceUnderpriced too.
Answers(n) ==
  CASE n < mined \/ slot[n] # Free -> {"tooLow", "nonceError"}
    [] IsPendingNonce(n) -> {"ok", "lost", "error"}
    [] OTHER -> IF queues THEN {"ok", "lost"} ELSE {"tooHigh", "nonceError"}

\* The transaction is in the pool.
Accept(c, answer) ==
  slot' = IF answer \in {"ok", "lost"}
          THEN [slot EXCEPT ![nonce] = [by |-> c, op |-> caller[c].op]] ELSE slot

\* The status that an operation gives to the order.
Effects(op) ==
  CASE op = "open" /\ status = "none" -> {"open"}
    [] op = "cancel" /\ status = "open" -> {"canceled"}
    [] op = "confirm" /\ status = "open" -> {"confirmed"}
    [] OTHER -> {}

\* A block with the next transaction of the account; one that the contract
\* reverts (it may always do so) is mined all the same.
Mine ==
  /\ mined < MaxNonce /\ slot[mined] # Free
  /\ mined' = mined + 1
  /\ \E becomes \in {status} \cup Effects(slot[mined].op) :
       /\ status' = becomes
       /\ depth' = IF becomes # status \/ status = "none" THEN 0
                   ELSE IF depth < MaxDepth THEN depth + 1 ELSE depth
  /\ UNCHANGED <<queues, nonce, caller, slot, calls, faults>>

\* A block without one.
EmptyBlock ==
  /\ status # "none" /\ depth < MaxDepth
  /\ depth' = depth + 1
  /\ UNCHANGED <<queues, nonce, caller, slot, mined, status, calls, faults>>

\* Another process uses the account.
OtherSends ==
  /\ faults < MaxFaults
  /\ faults' = faults + 1
  /\ \E n \in Nonces :
       /\ IsPendingNonce(n)
       /\ slot' = [slot EXCEPT ![n] = [by |-> "other", op |-> "none"]]
  /\ UNCHANGED <<queues, nonce, caller, mined, status, depth, calls>>

\* The pool drops a transaction; one that does not queue has none above it.
Drop(n) ==
  /\ faults < MaxFaults /\ n >= mined /\ slot[n] # Free
  /\ queues \/ \A m \in Nonces : m > n => slot[m] = Free
  /\ faults' = faults + 1
  /\ slot' = [slot EXCEPT ![n] = Free]
  /\ UNCHANGED <<queues, nonce, caller, mined, status, depth, calls>>
-----------------------------------------------------------------------------

\* An operation is called; ConfirmOrder reads the depth first, without the mutex
\* (a depth above which MaxDepth leaves no room for Blocks is not started from).
Call(c, op) ==
  /\ caller[c].pc \in {"idle", "returned"} /\ calls < MaxCalls
  /\ op = "confirm" => depth + Blocks <= MaxDepth
  /\ calls' = calls + 1
  /\ caller' = [caller EXCEPT ![c] =
                  [NoCall EXCEPT !.pc = "locking", !.op = op,
                               !.before = IF op = "confirm" THEN depth ELSE 0]]
  /\ UNCHANGED <<nonce, chainVars, faults>>

\* SendTx, Settle: mu.Lock.
Lock(c) ==
  /\ caller[c].pc = "locking" /\ MuFree
  /\ caller' = [caller EXCEPT ![c].pc = "sending"]
  /\ UNCHANGED <<nonce, chainVars, calls, faults>>

Sends(op) == IF op = "settle" THEN 3 ELSE 1

\* sendTx returns: Settle goes on to its next transaction even after an error,
\* and the last one is waited for unless it failed.
Sent(c, answer) ==
  LET call == caller[c]
      last == call.sends + 1 = Sends(call.op)
      next == IF ~last THEN "sending" ELSE IF answer = "ok" THEN "waiting" ELSE "returned"
  IN caller' = [caller EXCEPT ![c] =
                  [call EXCEPT !.pc = next, !.sends = @ + 1, !.tries = 0, !.tx = nonce,
                               !.accepted = IF answer = "error" THEN @ ELSE @ + 1,
                               !.failed = @ \/ answer # "ok"]]

\* MaxNonce bounds the nonces that are used.
NonceLeft == nonce < MaxNonce

\* Mutant of SendTx: any error is tried again.
SendTxRetries(c) ==
  /\ caller[c].pc = "sending" /\ NonceLeft
  /\ \E answer \in Answers(nonce) :
       /\ Accept(c, answer)
       /\ IF answer = "ok" THEN nonce' = nonce + 1 /\ Sent(c, answer)
          ELSE /\ nonce' = IF answer = "tooHigh" THEN nonce - 1 ELSE nonce + 1
               /\ caller' = [caller EXCEPT ![c].accepted = IF answer = "lost" THEN @ + 1 ELSE @]
  /\ UNCHANGED <<queues, mined, status, depth, calls, faults>>

\* sendTx: the transaction is sent; a nonce that is too low or too high is
\* changed by one and sent again, and another error about the nonce refreshes it.
SendTx(c) ==
  /\ caller[c].pc = "sending" /\ NonceLeft
  /\ \E answer \in Answers(nonce) :
       /\ Accept(c, answer)
       /\ nonce' = CASE answer \in {"ok", "tooLow"} -> nonce + 1
                     [] answer = "tooHigh" -> nonce - 1
                     [] OTHER -> nonce
       /\ CASE answer \in {"ok", "lost", "error"} -> Sent(c, answer)
            [] answer \in {"tooLow", "tooHigh"} -> UNCHANGED caller
            [] answer = "nonceError" ->
                 caller' = [caller EXCEPT ![c].pc = "refreshing"]
  /\ UNCHANGED <<queues, mined, status, depth, calls, faults>>

\* sendTx: PendingNonceAt.
RefreshNonce(c) ==
  /\ caller[c].pc = "refreshing" /\ caller[c].tries < MaxTries
  /\ \E n \in mined .. MaxNonce : IsPendingNonce(n) /\ nonce' = n
  /\ caller' = [caller EXCEPT ![c].pc = "resending"]
  /\ UNCHANGED <<chainVars, calls, faults>>

\* sendTx: PendingNonceAt returns an error about the nonce, and is called again.
RefreshFails(c) ==
  /\ caller[c].pc = "refreshing" /\ caller[c].tries < MaxTries
  /\ caller' = [caller EXCEPT ![c].tries = @ + 1]
  /\ UNCHANGED <<nonce, chainVars, calls, faults>>

\* sendTx: the tries are used up, or PendingNonceAt returns another error.
RefreshGivesUp(c) ==
  /\ caller[c].pc = "refreshing"
  /\ Sent(c, "error")
  /\ UNCHANGED <<nonce, chainVars, calls, faults>>

\* sendTx: the transaction is sent with the nonce that was refreshed; all errors
\* about the nonce refresh it again.
ResendTx(c) ==
  /\ caller[c].pc = "resending" /\ NonceLeft
  /\ \E answer \in Answers(nonce) :
       /\ Accept(c, answer)
       /\ nonce' = IF answer = "ok" THEN nonce + 1 ELSE nonce
       /\ IF answer \in {"ok", "lost", "error"} THEN Sent(c, answer)
          ELSE caller' = [caller EXCEPT ![c].pc = "refreshing", ![c].tries = @ + 1]
  /\ UNCHANGED <<queues, mined, status, depth, calls, faults>>

\* The transaction with nonce n is the caller's, and mined.
Mined(c, n) == n < mined /\ slot[n].by = c

\* PatchedWaitMined; OpenBuyOrder, OpenSellOrder and ConfirmOrder go on to wait
\* for the depth of the order, CancelOrder does not.
WaitMined(c) ==
  /\ caller[c].pc = "waiting" /\ Mined(c, caller[c].tx)
  /\ caller' = [caller EXCEPT ![c].pc =
                  IF caller[c].op \in {"open", "confirm"} THEN "deepening" ELSE "returned"]
  /\ UNCHANGED <<nonce, chainVars, calls, faults>>

\* The order is deep enough; the difference is unsigned.
IsDeep(c) == (depth - caller[c].before) % Width >= Blocks

\* waitForOrderDepth.
WaitForOrderDepth(c) ==
  /\ caller[c].pc = "deepening" /\ IsDeep(c)
  /\ caller' = [caller EXCEPT ![c].pc = "returned"]
  /\ UNCHANGED <<nonce, chainVars, calls, faults>>

\* waitForOrderDepth: the contract returns an error.
DepthFails(c) ==
  /\ caller[c].pc = "deepening"
  /\ caller' = [caller EXCEPT ![c].pc = "returned", ![c].failed = TRUE]
  /\ UNCHANGED <<nonce, chainVars, calls, faults>>

CallStep(c) ==
  \/ Lock(c) \/ SendTx(c) \/ RefreshNonce(c) \/ RefreshGivesUp(c) \/ ResendTx(c)
  \/ WaitMined(c) \/ WaitForOrderDepth(c)

BinderStep == (\E c \in Callers : CallStep(c)) \/ Mine \/ EmptyBlock

BinderNext ==
  \/ BinderStep
  \/ \E c \in Callers :
       \/ RefreshFails(c) \/ DepthFails(c)
       \/ \E op \in Ops : Call(c, op)
  \/ OtherSends
  \/ \E n \in Nonces : Drop(n)

BinderSpec == BinderInit /\ [][BinderNext]_binderVars
-----------------------------------------------------------------------------
(* When a goroutine or the chain can go on: the guards of BinderStep. *)

CallCanStep(c) ==
  \/ caller[c].pc = "locking" /\ MuFree
  \/ caller[c].pc \in {"sending", "resending"} /\ NonceLeft
  \/ caller[c].pc = "refreshing"
  \/ caller[c].pc = "waiting" /\ Mined(c, caller[c].tx)
  \/ caller[c].pc = "deepening" /\ IsDeep(c)

ChainCanStep ==
  \/ mined < MaxNonce /\ slot[mined] # Free
  \/ status # "none" /\ depth < MaxDepth

BinderCanStep == ChainCanStep \/ \E c \in Callers : CallCanStep(c)
-----------------------------------------------------------------------------

\* The variables have their types.
BinderTypeOK ==
  /\ queues \in BOOLEAN
  /\ nonce \in 0 .. MaxNonce
  /\ caller \in [Callers ->
       [pc : {"idle", "locking", "sending", "refreshing", "resending", "waiting", "deepening",
              "returned"},
        op : Ops \cup {"none"}, sends : 0 .. 3, accepted : 0 .. 3, failed : BOOLEAN,
        tries : Nat, tx : 0 .. MaxNonce, before : 0 .. MaxDepth]]
  /\ slot \in [Nonces -> [by : Callers \cup {"nobody", "other"}, op : Ops \cup {"none"}]]
  /\ mined \in 0 .. MaxNonce
  /\ status \in {"none", "open", "canceled", "confirmed"} /\ depth \in 0 .. MaxDepth
  /\ calls \in 0 .. MaxCalls /\ faults \in 0 .. MaxFaults

\* However nonces are used up by others, refreshed and tried again, every
\* transaction of a call is taken by the chain at most once, and a call that
\* reports no error has sent all of its transactions.
SubmittedOnce ==
  \A c \in Callers :
    LET call == caller[c] IN
    /\ call.accepted <= call.sends
    /\ call.pc = "returned" /\ ~call.failed => call.accepted = Sends(call.op)

\* A transaction that is waited for was dropped, or cannot be mined because the
\* nonce of a transaction that was dropped is missing below it.
Stranded ==
  \E c \in Callers :
    /\ caller[c].pc = "waiting"
    /\ slot[caller[c].tx].by # c \/ \E n \in mined .. caller[c].tx : slot[n] = Free

\* The transaction was reverted and the order does not exist: its depth stays 0.
NeverDeep == \E c \in Callers : caller[c].pc = "deepening" /\ status = "none"

\* The bound on nonces, which no behaviour meets that has few enough calls and faults.
OutOfNonces == ~NonceLeft

\* No call is stuck, and Settle releases the mutex it holds while it waits: when
\* neither a goroutine nor the chain can go on, every call has returned, unless the
\* pool has dropped a transaction of the account, or the order whose depth is waited
\* for was not opened.
BinderReturns ==
  \/ \A c \in Callers : caller[c].pc \in {"idle", "returned"}
  \/ Stranded \/ NeverDeep \/ OutOfNonces \/ BinderCanStep

\* "The functions OpenBuyOrder, OpenSellOrder, CancelOrder and ConfirmOrder return
\* only after the required number of confirmations has been reached" (binder.go:40-42).
ReturnsConfirmed ==
  [][\A c \in Callers :
       caller'[c].pc = "returned" /\ caller[c].pc # "returned" /\ ~caller'[c].failed
         /\ caller[c].op \in {"open", "cancel", "confirm"}
       => depth >= Blocks]_binderVars
=============================================================================
