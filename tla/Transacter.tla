----------------------------- MODULE Transacter -----------------------------
(***************************************************************************)
(* contract/transact/transact.go: one set of options (nonce, value, gas)       *)
(* below a mutex, with which every transaction is built, and which Transfer   *)
(* and TransactWithValue change and restore.  The pool of transactions is     *)
(* external, and so are the other processes that use the account.            *)
(*                                                                         *)
(* The nonce is a pointer: adding to it changes the number that other          *)
(* pointers to it show, and assigning to it does not.  A call that restores   *)
(* the pointer therefore keeps what was added, unless it was assigned to.     *)
(***************************************************************************)
EXTENDS Integers

CONSTANTS
  Values, GasLimits, GasPrices,  \* that calls ask for
  MaxTries,  \* how often the nonce is refreshed, 60 in transact.go
  MaxCalls,  \* bound on the calls
  MaxOthers, \* bound on the transactions of other processes
  MaxNonce   \* bound on nonces

Nonces == 0 .. MaxNonce - 1
Configured == [value |-> 0, gasLimit |-> 0, gasPrice |-> 0]  \* given to NewTransacter
TransferGas == 21000

VARIABLES
  pool,   \* [Nonces -> the transaction with the nonce]: [by, opts, asked], where
          \* by is the number of the call and asked what it asked for
  nonce, opts,  \* transactOpts
  call,   \* the call that has the mutex, and what it will restore
  calls, others

vars == <<pool, nonce, opts, call, calls, others>>

Free == [by |-> -1, opts |-> Configured, asked |-> Configured]
Foreign == [Free EXCEPT !.by = 0]

\* NewTransacter: the nonce is the pending one.
Init ==
  /\ pool = [n \in Nonces |-> Free]
  /\ nonce = 0 /\ opts = Configured
  /\ call = [pc |-> "returned", asked |-> Configured, opts |-> Configured,
             restores |-> FALSE, nonce |-> 0, aliased |-> TRUE, tries |-> 0]
  /\ calls = 0 /\ others = 0
-----------------------------------------------------------------------------
(* The answers of the pool (external). *)

Taken(n) == pool[n] # Free
PendingNonce == CHOOSE n \in 0 .. MaxNonce :
  (n = MaxNonce \/ ~Taken(n)) /\ \A m \in 0 .. n - 1 : Taken(m)

\* A transaction whose nonce is taken may replace the other one if it pays more;
\* "lost" is an error after the pool has taken the transaction, and tooLow is
\* ErrReplaceUnderpriced too.
Answers(n) ==
  CASE Taken(n) /\ opts.gasPrice <= pool[n].opts.gasPrice -> {"error", "tooLow", "nonceError"}
    [] Taken(n) /\ opts.gasPrice > pool[n].opts.gasPrice ->
         {"ok", "lost", "error", "tooLow", "nonceError"}
    [] n = PendingNonce -> {"ok", "lost", "error"}
    [] OTHER -> {"ok", "lost", "error", "tooHigh", "nonceError"}

Accept(answer) ==
  pool' = IF answer \in {"ok", "lost"}
          THEN [pool EXCEPT ![nonce] = [by |-> calls, opts |-> opts, asked |-> call.asked]]
          ELSE pool

OtherSends ==
  /\ others < MaxOthers /\ PendingNonce < MaxNonce
  /\ others' = others + 1
  /\ pool' = [pool EXCEPT ![PendingNonce] = Foreign]
  /\ UNCHANGED <<nonce, opts, call, calls>>
-----------------------------------------------------------------------------

\* Lock, and the options of the call; named is {} for a nonce that is nil.
Begin(changed, asked, restores, named) ==
  /\ call.pc = "returned" /\ calls < MaxCalls
  /\ calls' = calls + 1
  /\ opts' = changed
  /\ nonce' = IF named = {} THEN nonce ELSE CHOOSE n \in named : TRUE
  /\ call' = [pc |-> "sending", asked |-> asked, opts |-> opts, restores |-> restores,
              nonce |-> nonce, aliased |-> named = {}, tries |-> 0]
  /\ UNCHANGED <<pool, others>>

Transact == Begin(opts, Configured, FALSE, {})

Transfer(value) ==
  LET Set(to) == [to EXCEPT !.value = value, !.gasLimit = TransferGas]
  IN Begin(Set(opts), Set(Configured), FALSE, {})

\* given has the options that are not nil, and zero for a gas limit.
TransactWithValue(given, named) ==
  LET Set(to) == [o \in DOMAIN to |-> IF o \in DOMAIN given THEN given[o] ELSE to[o]]
  IN Begin(Set(opts), Set(Configured), TRUE, named)

\* Mutant of Return: the value and the gas of the call stay.
ReturnUnrestored(now) ==
  /\ UNCHANGED opts
  /\ nonce' = IF call.restores /\ ~call.aliased THEN call.nonce ELSE now
  /\ call' = [call EXCEPT !.pc = "returned"]

\* The options are restored; now is the number that the nonce points to.
Return(now) ==
  /\ opts' = call.opts
  /\ nonce' = IF call.restores /\ ~call.aliased THEN call.nonce ELSE now
  /\ call' = [call EXCEPT !.pc = "returned"]

\* Mutant of Send: sent again after any error.
SendRetries ==
  /\ call.pc = "sending" /\ nonce \in Nonces
  /\ \E answer \in Answers(nonce) :
       /\ Accept(answer)
       /\ IF answer = "ok" THEN Return(nonce + 1)
          ELSE nonce' = nonce + 1 /\ UNCHANGED <<opts, call>>
  /\ UNCHANGED <<calls, others>>

\* transact: a nonce that is too low or too high is changed by one and sent
\* again, another error about the nonce refreshes it, and any other is returned.
Send ==
  /\ call.pc = "sending" /\ nonce \in Nonces
  /\ \E answer \in Answers(nonce) :
       /\ Accept(answer)
       /\ CASE answer = "ok" -> Return(nonce + 1)
            [] answer \in {"lost", "error"} -> Return(nonce)
            [] answer = "tooLow" -> nonce' = nonce + 1 /\ UNCHANGED <<opts, call>>
            [] answer = "tooHigh" -> nonce' = nonce - 1 /\ UNCHANGED <<opts, call>>
            [] answer = "nonceError" ->
                 call' = [call EXCEPT !.pc = "refreshing"] /\ UNCHANGED <<nonce, opts>>
  /\ UNCHANGED <<calls, others>>

\* transact: the context is done.
Cancel ==
  /\ call.pc \in {"sending", "refreshing"}
  /\ Return(nonce)
  /\ UNCHANGED <<pool, calls, others>>

\* transact: the nonce is assigned the pending one, and leaves behind what it was.
Refresh ==
  /\ call.pc = "refreshing" /\ call.tries < MaxTries
  /\ nonce' = PendingNonce
  /\ call' = [call EXCEPT !.pc = "resending", !.aliased = FALSE,
                          !.nonce = IF call.aliased THEN nonce ELSE @]
  /\ UNCHANGED <<pool, opts, calls, others>>

\* transact: PendingNonceAt fails, and is called again if the error is about nonces.
RefreshFails ==
  /\ call.pc = "refreshing" /\ call.tries < MaxTries
  /\ \/ call' = [call EXCEPT !.tries = @ + 1] /\ UNCHANGED <<nonce, opts>>
     \/ Return(nonce)
  /\ UNCHANGED <<pool, calls, others>>

\* transact: all tries are used up.
GiveUp ==
  /\ call.pc = "refreshing" /\ call.tries = MaxTries
  /\ Return(nonce)
  /\ UNCHANGED <<pool, calls, others>>

\* transact: the transaction is built again; errors about nonces are tried again,
\* of which ErrReplaceUnderpriced is none here.
Resend ==
  /\ call.pc = "resending" /\ nonce \in Nonces
  /\ \E answer \in Answers(nonce) :
       /\ Accept(answer)
       /\ CASE answer = "ok" -> Return(nonce + 1)
            [] answer \in {"lost", "error"} -> Return(nonce)
            [] OTHER -> \/ /\ call' = [call EXCEPT !.pc = "refreshing", !.tries = @ + 1]
                           /\ UNCHANGED <<nonce, opts>>
                        \/ answer = "tooLow" /\ Return(nonce)
  /\ UNCHANGED <<calls, others>>

Given ==
  UNION {[set -> Values \cup GasLimits \cup GasPrices] : set \in SUBSET DOMAIN Configured}
Allowed(given) ==
  /\ "value" \in DOMAIN given => given["value"] \in Values
  /\ "gasLimit" \in DOMAIN given => given["gasLimit"] \in GasLimits
  /\ "gasPrice" \in DOMAIN given => given["gasPrice"] \in GasPrices

Next ==
  \/ OtherSends \/ Transact \/ Send \/ Cancel \/ Refresh \/ RefreshFails \/ GiveUp \/ Resend
  \/ \E value \in Values : Transfer(value)
  \/ \E given \in Given, named \in {{}} \cup {{n} : n \in Nonces} :
       Allowed(given) /\ TransactWithValue(given, named)

Spec == Init /\ [][Next]_vars
-----------------------------------------------------------------------------

\* A call submits one transaction at most, however often it is sent again and
\* whatever its nonce becomes, and a transaction has the value and the gas that its
\* own call asked for and not those of the one before it.
TransactedOnce ==
  /\ \A m, n \in Nonces : pool[m].by > 0 /\ pool[m].by = pool[n].by => m = n
  /\ \A n \in Nonces : pool[n].opts = pool[n].asked
=============================================================================
