-------------------------- MODULE ConfirmerProofs ---------------------------
(***************************************************************************)
(* Proofs about Confirmer.tla, for any sets of orders, any capacity of the   *)
(* channel of confirmations and any failures of the contract and the store.  *)
(***************************************************************************)
EXTENDS Confirmer, SequenceTheorems, TLAPS

\* The contract holds the two orders as confirmed, with each other.
OnChain(p) ==
  /\ status[p[1]] = "confirmed" /\ status[p[2]] = "confirmed"
  /\ matchOf[p[1]] = p[2] /\ matchOf[p[2]] = p[1]

\* A confirmed order has a match, of the other side, that is confirmed with it.
ChainInv ==
  /\ \A b \in Buys : status[b] = "confirmed" => matchOf[b] \in Sells /\ OnChain(<<b, matchOf[b]>>)
  /\ \A s \in Sells : status[s] = "confirmed" => matchOf[s] \in Buys /\ OnChain(<<matchOf[s], s>>)

SubmitInv == submit.at \in {"submitting", "watching"} => submit.pair \in Pairs

\* What the poll has read of the contract stays true while it goes on.
PollInv ==
  /\ poll.at \in {"status", "match", "output", "fail"} => poll.ord \in Orders
  /\ poll.at = "match" => status[poll.ord] = "confirmed"
  /\ poll.at = "output" => poll.com \in Computations /\ OnChain(poll.com[1])

\* What was output is on the chain, wherever it has got to.
OutputInv ==
  /\ \A p \in Pairs : outputs[p] > 0 => OnChain(p)
  /\ \A c \in settling : OnChain(c[1])
  /\ \A i \in 1 .. Len(confirmations) : OnChain(confirmations[i][1])

\* An hour pays for an output that is not recent any more.
OnceInv ==
  \A p \in Pairs : outputs[p] <= hours + (IF confirmed[p[1]] = "recent" THEN 1 ELSE 0)

\* The inductive invariant.
IInv == TypeOK /\ ChainInv /\ SubmitInv /\ PollInv /\ OutputInv /\ OnceInv
-----------------------------------------------------------------------------

\* A buy and a sell.
LEMMA PairFacts ==
  ASSUME NEW p \in Pairs
  PROVE  /\ p[1] \in Buys /\ p[2] \in Sells /\ p = <<p[1], p[2]>>
         /\ p[1] \in Orders /\ p[2] \in Orders /\ p[1] # p[2]
         /\ p[1] \notin Sells /\ p[2] \notin Buys
BY ConfirmerAssumption DEF Pairs, Orders

\* The contract only confirms and cancels orders that are open: what is confirmed stays
\* confirmed, with the same match.
LEMMA ChainGrows ==
  ASSUME TypeOK, ChainInv,
         \/ \E p \in Pairs : ConfirmOnChain(p)
         \/ /\ \E o \in Orders : status[o] = "open" /\ status' = [status EXCEPT ![o] = "canceled"]
            /\ UNCHANGED matchOf
         \/ UNCHANGED <<status, matchOf>>
  PROVE  /\ ChainInv'
         /\ status' \in [Orders -> {"open", "confirmed", "canceled"}]
         /\ matchOf' \in [Orders -> Orders \cup {NoOrder}]
         /\ \A o \in Orders : status[o] = "confirmed" => status'[o] = "confirmed"
         /\ \A p \in Pairs : OnChain(p) => OnChain(p)'
<1> DEFINE Grows == /\ ChainInv'
                    /\ status' \in [Orders -> {"open", "confirmed", "canceled"}]
                    /\ matchOf' \in [Orders -> Orders \cup {NoOrder}]
                    /\ \A o \in Orders : status[o] = "confirmed" => status'[o] = "confirmed"
                    /\ \A p \in Pairs : OnChain(p) => OnChain(p)'
<1>t. /\ status \in [Orders -> {"open", "confirmed", "canceled"}]
      /\ matchOf \in [Orders -> Orders \cup {NoOrder}]
      /\ Buys \subseteq Orders /\ Sells \subseteq Orders /\ Buys \cap Sells = {}
  BY ConfirmerAssumption DEF TypeOK, Orders
<1>1. ASSUME NEW p \in Pairs, ConfirmOnChain(p) PROVE Grows
  <2>1. PICK b \in Buys, s \in Sells : p[1] = b /\ p[2] = s
    BY PairFacts
  <2>2. /\ status[b] = "open" /\ status[s] = "open" /\ b # s
        /\ status' = [status EXCEPT ![b] = "confirmed", ![s] = "confirmed"]
        /\ matchOf' = [matchOf EXCEPT ![b] = s, ![s] = b]
    BY <1>1, <1>t, <2>1 DEF ConfirmOnChain
  <2>3. /\ status' \in [Orders -> {"open", "confirmed", "canceled"}]
        /\ matchOf' \in [Orders -> Orders \cup {NoOrder}]
    BY <1>t, <2>2
  <2>4. \A o \in Orders :
          /\ status'[o] = IF o = b \/ o = s THEN "confirmed" ELSE status[o]
          /\ matchOf'[o] = IF o = b THEN s ELSE IF o = s THEN b ELSE matchOf[o]
    BY <1>t, <2>2
  <2>5. \A o \in Orders : status[o] = "confirmed" => o # b /\ o # s
    BY <2>2
  <2>6. \A q \in Pairs : OnChain(q) => OnChain(q)'
    <3> SUFFICES ASSUME NEW q \in Pairs, OnChain(q) PROVE OnChain(q)'
      OBVIOUS
    <3>1. q[1] \in Orders /\ q[2] \in Orders
      BY PairFacts
    <3> QED BY <2>4, <2>5, <3>1 DEF OnChain
  <2>7. ChainInv'
    <3>1. ASSUME NEW x \in Buys, status'[x] = "confirmed"
          PROVE  matchOf'[x] \in Sells /\ OnChain(<<x, matchOf[x]>>)'
      <4>1. CASE x = b
        BY <1>t, <2>2, <2>4, <4>1 DEF OnChain
      <4>2. CASE x # b
        <5>1. status[x] = "confirmed" /\ matchOf'[x] = matchOf[x]
          BY <1>t, <2>4, <3>1, <4>2
        <5>2. matchOf[x] \in Sells /\ OnChain(<<x, matchOf[x]>>)
          BY <5>1 DEF ChainInv
        <5>3. matchOf[x] # s
          BY <2>2, <5>2 DEF OnChain
        <5> QED BY <1>t, <2>4, <4>2, <5>1, <5>2, <5>3 DEF OnChain
      <4> QED BY <4>1, <4>2
    <3>2. ASSUME NEW x \in Sells, status'[x] = "confirmed"
          PROVE  matchOf'[x] \in Buys /\ OnChain(<<matchOf[x], x>>)'
      <4>1. CASE x = s
        BY <1>t, <2>2, <2>4, <4>1 DEF OnChain
      <4>2. CASE x # s
        <5>1. status[x] = "confirmed" /\ matchOf'[x] = matchOf[x]
          BY <1>t, <2>4, <3>2, <4>2
        <5>2. matchOf[x] \in Buys /\ OnChain(<<matchOf[x], x>>)
          BY <5>1 DEF ChainInv
        <5>3. matchOf[x] # b
          BY <2>2, <5>2 DEF OnChain
        <5> QED BY <1>t, <2>4, <4>2, <5>1, <5>2, <5>3 DEF OnChain
      <4> QED BY <4>1, <4>2
    <3> QED BY <3>1, <3>2 DEF ChainInv
  <2> QED BY <2>3, <2>4, <2>6, <2>7
<1>2. ASSUME NEW o \in Orders, status[o] = "open", status' = [status EXCEPT ![o] = "canceled"],
             UNCHANGED matchOf
      PROVE  Grows
  <2>1. /\ status' \in [Orders -> {"open", "confirmed", "canceled"}]
        /\ \A x \in Orders : status'[x] = IF x = o THEN "canceled" ELSE status[x]
    BY <1>2, <1>t
  <2>2. \A x \in Orders : status'[x] = "confirmed" <=> status[x] = "confirmed"
    BY <1>2, <2>1
  <2>3. \A q \in Pairs : OnChain(q) => OnChain(q)'
    BY <1>2, <2>2, PairFacts DEF OnChain
  <2>4. ChainInv'
    BY <1>2, <1>t, <2>2 DEF ChainInv, OnChain
  <2> QED BY <1>2, <1>t, <2>1, <2>2, <2>3, <2>4
<1>3. CASE UNCHANGED <<status, matchOf>>
  BY <1>3, <1>t DEF ChainInv, OnChain
<1> QED BY <1>1, <1>2, <1>3

SubmitType == [at : {"idle", "submitting", "watching", "returned"}, pair : Pairs \cup {NoOrder}]
PollType == [at : {"idle", "range", "status", "match", "output", "fail", "returned"},
             parity : {"buy", "sell"}, ord : Orders \cup {NoOrder},
             com : Computations \cup {NoOrder}, visited : SUBSET Orders]

\* Steps of the chain and of the goroutine that submits: nothing is output.
LEMMA ChainStepKeeps ==
  ASSUME IInv,
         \/ \E p \in Pairs : ConfirmOnChain(p)
         \/ /\ \E o \in Orders : status[o] = "open" /\ status' = [status EXCEPT ![o] = "canceled"]
            /\ UNCHANGED matchOf
         \/ UNCHANGED <<status, matchOf>>,
         deep' \subseteq Orders, coms' \subseteq Computations, confirming' \subseteq Orders,
         submit' \in SubmitType, SubmitInv', errs' \in 0 .. 1, done' \in BOOLEAN,
         UNCHANGED <<confirmed, poll, confirmations, settling, stored, hours, outputs>>
  PROVE  IInv'
<1> USE DEF IInv
<1>1. /\ ChainInv'
      /\ status' \in [Orders -> {"open", "confirmed", "canceled"}]
      /\ matchOf' \in [Orders -> Orders \cup {NoOrder}]
      /\ \A o \in Orders : status[o] = "confirmed" => status'[o] = "confirmed"
      /\ \A p \in Pairs : OnChain(p) => OnChain(p)'
  BY ChainGrows
<1>2. TypeOK'
  BY <1>1 DEF TypeOK, SubmitType
<1>3. PollInv'
  <2>1. poll.at = "output" => poll.com[1] \in Pairs
    BY DEF PollInv, Computations
  <2>2. poll.at = "output" => OnChain(poll.com[1])'
    BY <1>1, <2>1 DEF PollInv, OnChain
  <2> QED BY <1>1, <2>2 DEF PollInv
<1>4. OutputInv'
  <2>1. \A c \in Computations : c[1] \in Pairs
    BY DEF Computations
  <2>2. \A c \in settling : OnChain(c[1])'
    BY <1>1, <2>1 DEF OutputInv, TypeOK
  <2>3. \A i \in 1 .. Len(confirmations) : confirmations[i] \in Computations
    BY DEF TypeOK
  <2>4. ASSUME NEW i \in 1 .. Len(confirmations) PROVE OnChain(confirmations[i][1])'
    <3>1. PICK p \in Pairs : p = confirmations[i][1]
      BY <2>1, <2>3
    <3>2. OnChain(p)'
      BY <1>1, <3>1 DEF OutputInv
    <3> QED BY <3>1, <3>2
  <2>5. \A p \in Pairs : outputs'[p] > 0 => OnChain(p)'
    BY <1>1 DEF OutputInv
  <2> QED BY <2>2, <2>4, <2>5 DEF OutputInv
<1>5. OnceInv'
  BY DEF OnceInv
<1> QED BY <1>1, <1>2, <1>3, <1>4, <1>5

\* The other nodes, the traders, the blocks and the submission of matches.
LEMMA SubmitKeeps ==
  ASSUME IInv,
         \/ \E p \in Pairs : OtherConfirms(p)
         \/ \E o \in Orders : CancelOrder(o) \/ Deepen(o)
         \/ CloseDone \/ Submits \/ WatchOrders \/ ForwardError
  PROVE  IInv'
<1> USE DEF IInv
<1>t. /\ deep \subseteq Orders /\ coms \subseteq Computations /\ confirming \subseteq Orders
      /\ submit \in SubmitType /\ SubmitInv /\ errs \in 0 .. 1 /\ done \in BOOLEAN
  BY DEF TypeOK, SubmitType
<1>1. ASSUME NEW p \in Pairs, OtherConfirms(p) PROVE IInv'
  <2>1. /\ ConfirmOnChain(p) /\ deep' \subseteq Orders /\ SubmitInv'
        /\ UNCHANGED <<coms, submit, confirming, confirmed, poll, errs, confirmations,
                       settling, stored, done, hours, outputs>>
    BY <1>1, <1>t DEF OtherConfirms, ConfirmOnChain, SubmitInv
  <2> QED BY <1>t, <2>1, ChainStepKeeps
<1>2. ASSUME NEW o \in Orders, CancelOrder(o) PROVE IInv'
  <2>1. /\ status[o] = "open" /\ status' = [status EXCEPT ![o] = "canceled"] /\ UNCHANGED matchOf
        /\ deep' \subseteq Orders /\ SubmitInv'
        /\ UNCHANGED <<coms, submit, confirming, confirmed, poll, errs, confirmations,
                       settling, stored, done, hours, outputs>>
    BY <1>2, <1>t DEF CancelOrder, SubmitInv
  <2> QED BY <1>t, <2>1, ChainStepKeeps
<1>3. ASSUME NEW o \in Orders, Deepen(o) PROVE IInv'
  <2>1. UNCHANGED <<status, matchOf, coms, submit, confirming, confirmed, poll, errs,
                    confirmations, settling, stored, done, hours, outputs>>
    BY <1>3 DEF Deepen
  <2>2. deep' \subseteq Orders
    BY <1>3, <1>t DEF Deepen, TypeOK
  <2>3. SubmitInv'
    BY <1>t, <2>1 DEF SubmitInv
  <2> QED BY <1>t, <2>1, <2>2, <2>3, ChainStepKeeps
<1>4. CASE CloseDone
  <2>1. /\ UNCHANGED <<status, matchOf, deep, coms, submit, confirming, confirmed, poll, errs,
                       confirmations, settling, stored, hours, outputs>>
        /\ done' = TRUE
    BY <1>4 DEF CloseDone, chainVars
  <2>2. done' \in BOOLEAN
    BY <2>1
  <2>3. SubmitInv'
    BY <1>t, <2>1 DEF SubmitInv
  <2> QED BY <1>t, <2>1, <2>2, <2>3, ChainStepKeeps
<1>5. ASSUME NEW c \in coms, TakeMatch(c) PROVE IInv'
  <2>1. /\ UNCHANGED <<status, matchOf, deep, confirming, confirmed, poll, errs,
                       confirmations, settling, stored, done, hours, outputs>>
        /\ coms' \subseteq Computations
    BY <1>5, <1>t DEF TakeMatch, chainVars
  <2>2. c[1] \in Pairs
    BY <1>t DEF Computations
  <2>3. submit' \in SubmitType /\ SubmitInv'
    BY <1>5, <1>t, <2>2 DEF TakeMatch, SubmitType, SubmitInv
  <2> QED BY <1>t, <2>1, <2>3, ChainStepKeeps
<1>6. CASE BeginConfirmation
  <2>1. /\ UNCHANGED <<coms, confirming, confirmed, poll, errs, confirmations, settling,
                       stored, done, hours, outputs>>
        /\ submit' = [submit EXCEPT !.at = "watching"] /\ submit.pair \in Pairs
        /\ ConfirmOnChain(submit.pair) \/ UNCHANGED <<status, matchOf, deep>>
    BY <1>6, <1>t DEF BeginConfirmation, chainVars, SubmitInv
  <2>2. submit' \in SubmitType /\ SubmitInv'
    BY <1>t, <2>1 DEF SubmitType, SubmitInv
  <2>3. deep' \subseteq Orders
    BY <1>t, <2>1 DEF ConfirmOnChain
  <2> QED BY <1>t, <2>1, <2>2, <2>3, ChainStepKeeps
<1>7. CASE WatchOrders
  <2>1. /\ UNCHANGED <<status, matchOf, deep, coms, confirmed, poll, errs, confirmations,
                       settling, stored, done, hours, outputs>>
        /\ confirming' = confirming \cup {submit.pair[1], submit.pair[2]}
        /\ submit' = [at |-> "idle", pair |-> NoOrder] /\ submit.pair \in Pairs
    BY <1>7, <1>t DEF WatchOrders, chainVars, SubmitInv
  <2>2. submit' \in SubmitType /\ SubmitInv'
    BY <2>1 DEF SubmitType, SubmitInv
  <2>3. confirming' \subseteq Orders
    BY <1>t, <2>1, PairFacts
  <2> QED BY <1>t, <2>1, <2>2, <2>3, ChainStepKeeps
<1>8. CASE SubmitReturns
  <2>1. /\ UNCHANGED <<status, matchOf, deep, coms, confirming, confirmed, poll, errs,
                       confirmations, settling, stored, done, hours, outputs>>
        /\ submit' \in SubmitType /\ SubmitInv'
    BY <1>8, <1>t DEF SubmitReturns, chainVars, SubmitType, SubmitInv
  <2> QED BY <1>t, <2>1, ChainStepKeeps
<1>9. CASE ForwardError
  <2>1. /\ UNCHANGED <<status, matchOf, deep, coms, submit, confirming, confirmed, poll,
                       confirmations, settling, stored, done, hours, outputs>>
        /\ errs' \in 0 .. 1
    BY <1>9, <1>t DEF ForwardError, chainVars
  <2>2. SubmitInv'
    BY <1>t, <2>1 DEF SubmitInv
  <2> QED BY <1>t, <2>1, <2>2, ChainStepKeeps
<1> QED BY <1>1, <1>2, <1>3, <1>4, <1>5, <1>6, <1>7, <1>8, <1>9 DEF Submits

\* Steps of the poll that output nothing.
LEMMA PollStepKeeps ==
  ASSUME IInv, poll' \in PollType, PollInv', errs' \in 0 .. 1, confirming' \subseteq Orders,
         stored' \in [Computations -> {"none", "matched", "accepted", "settled"}],
         UNCHANGED <<status, matchOf, deep, coms, submit, confirmed, confirmations, settling,
                     done, hours, outputs>>
  PROVE  IInv'
<1> USE DEF IInv
<1>1. TypeOK'
  BY DEF TypeOK, PollType
<1>2. ChainInv' /\ SubmitInv' /\ OutputInv' /\ OnceInv'
  BY DEF ChainInv, SubmitInv, OutputInv, OnceInv, OnChain
<1> QED BY <1>1, <1>2

\* The poll goes on with the range or ends it.
LEMMA RangeGoesOn ==
  ASSUME poll \in PollType, poll.ord \in Orders, Continue \/ EndRange
  PROVE  poll' \in PollType /\ PollInv'
<1>1. poll' \in PollType /\ poll'.at = "range"
  <2>1. CASE Continue
    <3>1. poll.visited \cup {poll.ord} \in SUBSET Orders
      BY DEF PollType
    <3> QED BY <2>1, <3>1 DEF Continue, PollType
  <2>2. CASE EndRange
    BY <2>2 DEF EndRange, PollType
  <2> QED BY <2>1, <2>2
<1> QED BY <1>1 DEF PollInv

\* The reads of the contract and of the store keep the invariant.
LEMMA PollKeeps ==
  ASSUME IInv,
         \/ PollBegins \/ (\E o \in Orders : CheckDepth(o)) \/ SendError \/ CheckStatus
         \/ PollSells \/ PollReturns
  PROVE  IInv'
<1> USE DEF IInv
<1>t. /\ poll \in PollType /\ errs \in 0 .. 1 /\ confirming \subseteq Orders
      /\ stored \in [Computations -> {"none", "matched", "accepted", "settled"}]
  BY DEF TypeOK, PollType
<1>i. Idle \in PollType
  BY DEF Idle, PollType
<1>1. CASE PollBegins \/ PollSells \/ PollReturns
  <2>1. /\ poll' \in PollType /\ poll'.at \in {"range", "returned"}
        /\ UNCHANGED <<status, matchOf, deep, coms, submit, confirming, confirmed, errs,
                       confirmations, settling, stored, done, hours, outputs>>
    BY <1>1, <1>i DEF PollBegins, PollSells, PollReturns, chainVars, PollType
  <2>2. PollInv'
    BY <2>1 DEF PollInv
  <2> QED BY <1>t, <2>1, <2>2, PollStepKeeps
<1>2. ASSUME NEW o \in Orders, CheckDepth(o) PROVE IInv'
  <2>1. /\ poll' \in PollType
        /\ \/ poll'.at \in {"status", "fail"} /\ poll'.ord = o
           \/ poll'.at = "range"
        /\ UNCHANGED <<status, matchOf, deep, coms, submit, confirming, confirmed, errs,
                       confirmations, settling, stored, done, hours, outputs>>
    <3>1. poll.visited \cup {o} \in SUBSET Orders /\ poll.at = "range"
      BY <1>2, <1>t DEF PollType, CheckDepth
    <3>2. CASE \/ poll' = [poll EXCEPT !.at = "status", !.ord = o]
               \/ poll' = [poll EXCEPT !.at = "fail", !.ord = o]
      BY <1>2, <1>t, <3>2 DEF CheckDepth, chainVars, PollType
    <3>3. CASE poll' = [poll EXCEPT !.visited = @ \cup {o}]
      BY <1>2, <1>t, <3>1, <3>3 DEF CheckDepth, chainVars, PollType
    <3> QED BY <1>2, <3>2, <3>3 DEF CheckDepth
  <2>2. PollInv'
    BY <2>1 DEF PollInv
  <2> QED BY <1>t, <2>1, <2>2, PollStepKeeps
<1>3. CASE SendError
  <2>1. /\ Continue \/ EndRange
        /\ UNCHANGED <<status, matchOf, deep, coms, submit, confirming, confirmed,
                       confirmations, settling, stored, done, hours, outputs>>
    BY <1>3, <1>t DEF SendError, SendErr, chainVars, PollInv
  <2>2. errs' \in 0 .. 1 /\ poll.ord \in Orders
    BY <1>3, <1>t DEF SendError, SendErr, PollInv
  <2> QED BY <1>t, <2>1, <2>2, RangeGoesOn, PollStepKeeps
<1>4. CASE CheckStatus
  <2>1. /\ poll.ord \in Orders /\ confirming' \subseteq Orders
        /\ UNCHANGED <<status, matchOf, deep, coms, submit, confirmed, errs,
                       confirmations, settling, stored, done, hours, outputs>>
    BY <1>4, <1>t DEF CheckStatus, chainVars, PollInv
  <2>2. poll' \in PollType /\ PollInv'
    <3>1. CASE Continue
      BY <1>t, <2>1, <3>1, RangeGoesOn
    <3>2. CASE \/ status[poll.ord] = "confirmed" /\ poll' = [poll EXCEPT !.at = "match"]
               \/ poll' = [poll EXCEPT !.at = "fail"]
      BY <1>t, <2>1, <3>2 DEF PollType, PollInv
    <3> QED BY <1>4, <3>1, <3>2 DEF CheckStatus
  <2> QED BY <1>t, <2>1, <2>2, PollStepKeeps
<1> QED BY <1>1, <1>2, <1>3, <1>4

\* The Computation that the poll loads for a confirmed order is the one of the order and
\* its match on the contract.
LEMMA LoadKeeps ==
  ASSUME IInv, LoadComputation
  PROVE  IInv'
<1> USE DEF IInv
<1>t. /\ poll \in PollType /\ errs \in 0 .. 1 /\ confirming \subseteq Orders
      /\ stored \in [Computations -> {"none", "matched", "accepted", "settled"}]
  BY DEF TypeOK, PollType
<1> DEFINE m == matchOf[poll.ord]
           found == ComputationsFromOrders(poll.ord, m)
<1>1. /\ poll.ord \in Orders /\ status[poll.ord] = "confirmed"
      /\ UNCHANGED <<status, matchOf, deep, coms, submit, confirmed, confirmations, settling,
                     done, hours, outputs>>
  BY DEF LoadComputation, PollInv, chainVars
<1>2. PairOf(poll.ord, m) \in Pairs /\ OnChain(PairOf(poll.ord, m))
  <2>1. CASE poll.ord \in Buys
    BY <1>1, <2>1 DEF ChainInv, PairOf, Pairs
  <2>2. CASE poll.ord \notin Buys
    <3>1. poll.ord \in Sells
      BY <1>1, <2>2 DEF Orders
    <3> QED BY <1>1, <2>2, <3>1 DEF ChainInv, PairOf, Pairs
  <2> QED BY <2>1, <2>2
<1>3. \A c \in found : c \in Computations /\ OnChain(c[1])
  <2>1. PICK p \in Pairs : p = PairOf(poll.ord, m)
    BY <1>2
  <2>2. \A c \in found : \E d \in Depths : c = <<p, d>>
    BY <2>1 DEF ComputationsFromOrders
  <2> QED BY <1>2, <2>1, <2>2 DEF Computations
<1> HIDE DEF found
<1>4. CASE poll' = [poll EXCEPT !.at = "fail"] /\ UNCHANGED <<confirming, stored, errs>>
  <2>1. poll' \in PollType /\ PollInv'
    BY <1>1, <1>4, <1>t DEF PollType, PollInv
  <2> QED BY <1>1, <1>4, <1>t, <2>1, PollStepKeeps
<1>5. CASE /\ SendErr /\ UNCHANGED stored
           /\ confirming' = IF errs' = errs THEN confirming ELSE confirming \ {poll.ord, m}
  <2>1. errs' \in 0 .. 1 /\ (Continue \/ EndRange) /\ confirming' \subseteq Orders
    BY <1>5, <1>t DEF SendErr
  <2> QED BY <1>1, <1>5, <1>t, <2>1, RangeGoesOn, PollStepKeeps
<1>6. ASSUME NEW c \in found, poll' = [poll EXCEPT !.at = "output", !.com = c],
             UNCHANGED confirming, errs' \in 0 .. 1,
             stored' = [stored EXCEPT ![c] = "accepted"] \/ UNCHANGED stored
      PROVE  IInv'
  <2>1. c \in Computations /\ OnChain(c[1])
    BY <1>3
  <2>2. poll' \in PollType /\ poll'.at = "output" /\ poll'.com = c /\ poll'.ord = poll.ord
    BY <1>6, <1>t, <2>1 DEF PollType
  <2>3. PollInv'
    BY <1>1, <2>1, <2>2 DEF PollInv, OnChain
  <2>4. stored' \in [Computations -> {"none", "matched", "accepted", "settled"}]
    BY <1>6, <1>t
  <2> QED BY <1>1, <1>6, <1>t, <2>2, <2>3, <2>4, PollStepKeeps
<1>7. CASE EndRange /\ UNCHANGED <<confirming, errs, stored>>
  BY <1>1, <1>7, <1>t, RangeGoesOn, PollStepKeeps
<1>8. \/ poll' = [poll EXCEPT !.at = "fail"] /\ UNCHANGED <<confirming, stored, errs>>
      \/ /\ SendErr /\ UNCHANGED stored
         /\ confirming' = IF errs' = errs THEN confirming ELSE confirming \ {poll.ord, m}
      \/ EndRange /\ UNCHANGED <<confirming, errs, stored>>
      \/ \E c \in found :
           /\ poll' = [poll EXCEPT !.at = "output", !.com = c] /\ UNCHANGED confirming
           /\ errs' = errs \/ (errs < 1 /\ errs' = errs + 1)
           /\ stored' = [stored EXCEPT ![c] = "accepted"] \/ UNCHANGED stored
  BY DEF LoadComputation, found
<1>9. ASSUME NEW c \in found, poll' = [poll EXCEPT !.at = "output", !.com = c],
             UNCHANGED confirming, errs' = errs \/ (errs < 1 /\ errs' = errs + 1),
             stored' = [stored EXCEPT ![c] = "accepted"] \/ UNCHANGED stored
      PROVE  IInv'
  <2>1. errs' \in 0 .. 1
    BY <1>9, <1>t
  <2> QED BY <1>6, <1>9, <2>1
<1> QED BY <1>4, <1>5, <1>7, <1>8, <1>9

\* The output of a Computation keeps the invariant.
LEMMA OutputKeeps ==
  ASSUME IInv, Output
  PROVE  IInv'
<1> USE DEF IInv
<1>t. /\ poll \in PollType /\ errs \in 0 .. 1 /\ confirming \subseteq Orders
      /\ stored \in [Computations -> {"none", "matched", "accepted", "settled"}]
      /\ outputs \in [Pairs -> Nat] /\ confirmations \in Seq(Computations)
      /\ confirmed \in [Orders -> {"no", "recent", "old"}] /\ hours \in Nat
  BY DEF TypeOK, PollType
<1>1. /\ poll.ord \in Orders /\ (Continue \/ EndRange)
      /\ UNCHANGED <<status, matchOf, deep, coms, submit, errs, settling, stored, done, hours>>
  BY DEF Output, PollInv, chainVars
<1>2. poll' \in PollType /\ PollInv'
  BY <1>1, <1>t, RangeGoesOn DEF Output, PollInv
<1>3. PICK c \in Computations, p \in Pairs : c = poll.com /\ p = c[1] /\ OnChain(p)
  BY DEF Output, PollInv, Computations
<1>4. p[1] \in Orders /\ p[2] \in Orders
  BY PairFacts
<1>5. CASE UNCHANGED <<confirming, confirmed, confirmations, outputs>>
  BY <1>1, <1>2, <1>5, <1>t, PollStepKeeps
<1>6. CASE /\ ~WasOutput(p) /\ Len(confirmations) < ConfirmationsCap
           /\ confirmations' = Append(confirmations, c)
           /\ outputs' = [outputs EXCEPT ![p] = @ + 1]
           /\ confirming' = confirming \ {p[1], p[2]}
           /\ confirmed' = [confirmed EXCEPT ![p[1]] = "recent", ![p[2]] = "recent"]
  <2>1. /\ confirmations' \in Seq(Computations)
        /\ Len(confirmations') = Len(confirmations) + 1 /\ Len(confirmations) \in Nat
        /\ confirmations'[Len(confirmations) + 1] = c
        /\ \A i \in 1 .. Len(confirmations) : confirmations'[i] = confirmations[i]
    BY <1>3, <1>6, <1>t, AppendProperties
  <2>2. /\ outputs' \in [Pairs -> Nat]
        /\ \A q \in Pairs : outputs'[q] = IF q = p THEN outputs[q] + 1 ELSE outputs[q]
    BY <1>6, <1>t
  <2>3. /\ confirmed' \in [Orders -> {"no", "recent", "old"}]
        /\ \A o \in Orders : confirmed'[o] = confirmed[o] \/ confirmed'[o] = "recent"
        /\ confirmed'[p[1]] = "recent"
    BY <1>4, <1>6, <1>t
  <2>4. TypeOK'
    <3>1. confirming' \subseteq Orders
      BY <1>6, <1>t
    <3>2. Len(confirmations') <= ConfirmationsCap
      BY <1>6, <2>1, ConfirmerAssumption
    <3> QED BY <1>1, <1>2, <2>1, <2>2, <2>3, <3>1, <3>2 DEF TypeOK, PollType
  <2>5. ChainInv' /\ SubmitInv'
    BY <1>1 DEF ChainInv, SubmitInv, OnChain
  <2>6. OutputInv'
    <3>1. \A q \in Pairs : outputs'[q] > 0 => OnChain(q)
      BY <1>3, <1>t, <2>2 DEF OutputInv
    <3>2. \A d \in settling : OnChain(d[1])
      BY DEF OutputInv
    <3>3. \A i \in 1 .. Len(confirmations') : OnChain(confirmations'[i][1])
      <4> SUFFICES ASSUME NEW i \in 1 .. Len(confirmations') PROVE OnChain(confirmations'[i][1])
        OBVIOUS
      <4>1. CASE i = Len(confirmations) + 1
        BY <1>3, <2>1, <4>1
      <4>2. CASE i # Len(confirmations) + 1
        <5>1. i \in 1 .. Len(confirmations)
          BY <2>1, <4>2
        <5> QED BY <2>1, <5>1 DEF OutputInv
      <4> QED BY <4>1, <4>2
    <3> QED BY <1>1, <3>1, <3>2, <3>3 DEF OutputInv, OnChain
  <2>7. OnceInv'
    <3> SUFFICES ASSUME NEW q \in Pairs
                 PROVE  outputs'[q] <= hours + (IF confirmed'[q[1]] = "recent" THEN 1 ELSE 0)
      BY <1>1 DEF OnceInv
    <3>1. outputs[q] <= hours + (IF confirmed[q[1]] = "recent" THEN 1 ELSE 0)
      BY DEF OnceInv
    <3>2. q[1] \in Orders
      BY PairFacts
    <3>3. CASE q = p
      <4>1. confirmed[p[1]] # "recent"
        BY <1>6 DEF WasOutput
      <4> QED BY <1>t, <2>2, <2>3, <3>1, <3>3, <4>1
    <3>4. CASE q # p
      BY <1>t, <2>2, <2>3, <3>1, <3>2, <3>4
    <3> QED BY <3>3, <3>4
  <2> QED BY <1>2, <2>4, <2>5, <2>6, <2>7
<1> QED BY <1>3, <1>5, <1>6 DEF Output

\* An hour passes, and what was output before it is forgotten at the end of a poll.
LEMMA HourKeeps ==
  ASSUME IInv, HourPasses \/ PollEnds
  PROVE  IInv'
<1> USE DEF IInv
<1>1. /\ confirmed \in [Orders -> {"no", "recent", "old"}] /\ hours \in Nat
      /\ outputs \in [Pairs -> Nat]
  BY DEF TypeOK
<1>2. /\ UNCHANGED <<status, matchOf, deep, coms, submit, confirming, errs, confirmations,
                     settling, stored, done, outputs>>
      /\ confirmed' \in [Orders -> {"no", "recent", "old"}]
  BY <1>1 DEF HourPasses, PollEnds, chainVars
<1>3. poll' \in PollType /\ PollInv' /\ hours' \in 0 .. MaxHours
  <2>1. CASE HourPasses
    BY <1>2, <2>1, ConfirmerAssumption DEF HourPasses, TypeOK, PollType, PollInv, OnChain
  <2>2. CASE PollEnds
    <3>1. Idle \in PollType /\ Idle.at = "idle"
      BY DEF Idle, PollType
    <3> QED BY <2>2, <3>1 DEF PollEnds, PollInv, TypeOK
  <2> QED BY <2>1, <2>2
<1>4. TypeOK'
  BY <1>2, <1>3 DEF TypeOK, PollType
<1>5. ChainInv' /\ SubmitInv' /\ OutputInv'
  BY <1>2 DEF ChainInv, SubmitInv, OutputInv, OnChain
<1>6. OnceInv'
  <2> SUFFICES ASSUME NEW p \in Pairs
               PROVE  outputs[p] <= hours' + (IF confirmed'[p[1]] = "recent" THEN 1 ELSE 0)
    BY <1>2 DEF OnceInv
  <2>1. outputs[p] <= hours + (IF confirmed[p[1]] = "recent" THEN 1 ELSE 0)
    BY DEF OnceInv
  <2>2. p[1] \in Orders
    BY PairFacts
  <2>3. CASE HourPasses
    BY <1>1, <2>1, <2>2, <2>3 DEF HourPasses
  <2>4. CASE PollEnds
    BY <1>1, <2>1, <2>2, <2>4 DEF PollEnds
  <2> QED BY <2>3, <2>4
<1> QED BY <1>3, <1>4, <1>5, <1>6

\* The Settler keeps the invariant.
LEMMA SettleKeeps ==
  ASSUME IInv, Settle \/ \E c \in settling : SettleOrderMatch(c)
  PROVE  IInv'
<1> USE DEF IInv
<1>1. UNCHANGED <<status, matchOf, deep, coms, submit, confirming, confirmed, poll, errs,
                  done, hours, outputs>>
  BY DEF Settle, SettleOrderMatch, chainVars
<1>2. ChainInv' /\ SubmitInv' /\ PollInv' /\ OnceInv'
  BY <1>1 DEF ChainInv, SubmitInv, PollInv, OnceInv, OnChain
<1>3. CASE Settle
  <2>1. /\ confirmations \in Seq(Computations) /\ confirmations # <<>>
        /\ confirmations' = Tail(confirmations) /\ stored' = stored
        /\ settling' \subseteq settling \cup {Head(confirmations)}
    BY <1>3 DEF Settle, TypeOK
  <2>2. /\ Head(confirmations) = confirmations[1] /\ confirmations[1] \in Computations
        /\ Len(confirmations) \in Nat \ {0}
        /\ confirmations' \in Seq(Computations) /\ Len(confirmations') = Len(confirmations) - 1
        /\ \A i \in 1 .. Len(confirmations') : confirmations'[i] = confirmations[i + 1]
    BY <2>1, HeadTailProperties
  <2>3. TypeOK'
    <3>1. Len(confirmations') <= ConfirmationsCap
      BY <2>2, ConfirmerAssumption DEF TypeOK
    <3>2. settling' \subseteq Computations
      BY <2>1, <2>2 DEF TypeOK
    <3> QED BY <1>1, <2>1, <2>2, <3>1, <3>2 DEF TypeOK
  <2>4. OutputInv'
    <3>1. \A d \in settling' : OnChain(d[1])
      BY <2>1, <2>2 DEF OutputInv
    <3>2. \A i \in 1 .. Len(confirmations') : OnChain(confirmations'[i][1])
      BY <2>2 DEF OutputInv
    <3> QED BY <1>1, <3>1, <3>2 DEF OutputInv, OnChain
  <2> QED BY <1>2, <2>3, <2>4
<1>4. ASSUME NEW c \in settling, SettleOrderMatch(c) PROVE IInv'
  <2>1. /\ settling' \subseteq settling /\ UNCHANGED confirmations
        /\ stored' = [stored EXCEPT ![c] = "settled"] \/ UNCHANGED stored
    BY <1>4 DEF SettleOrderMatch
  <2>2. TypeOK'
    <3>1. stored' \in [Computations -> {"none", "matched", "accepted", "settled"}]
      BY <2>1 DEF TypeOK
    <3> QED BY <1>1, <2>1, <3>1 DEF TypeOK
  <2>3. OutputInv'
    BY <1>1, <2>1 DEF OutputInv, OnChain
  <2> QED BY <1>2, <2>2, <2>3
<1> QED BY <1>3, <1>4

\* The initial states satisfy the inductive invariant.
LEMMA InitIInv == Init => IInv
<1> SUFFICES ASSUME Init PROVE IInv
  OBVIOUS
<1>1. Idle \in PollType /\ Idle.at = "idle"
  BY DEF Idle, PollType
<1>2. submit \in SubmitType /\ submit.at = "idle"
  BY DEF Init, SubmitType
<1>3. /\ confirmations \in Seq(Computations) /\ Len(confirmations) = 0
      /\ outputs \in [Pairs -> Nat] /\ \A p \in Pairs : outputs[p] = 0
  BY DEF Init
<1>4. /\ status \in [Orders -> {"open", "confirmed", "canceled"}]
      /\ matchOf \in [Orders -> Orders \cup {NoOrder}]
      /\ confirmed \in [Orders -> {"no", "recent", "old"}]
      /\ stored \in [Computations -> {"none", "matched", "accepted", "settled"}]
      /\ \A o \in Orders : status[o] = "open" /\ confirmed[o] = "no"
  BY DEF Init
<1>5. errs \in 0 .. 1 /\ hours = 0 /\ hours \in 0 .. MaxHours /\ Len(confirmations) <= ConfirmationsCap
  BY <1>3, ConfirmerAssumption DEF Init
<1>6. done \in BOOLEAN
  BY DEF Init
<1>7. /\ deep \subseteq Orders /\ coms \subseteq Computations /\ settling = {} /\ confirming = {}
      /\ poll = Idle
  BY DEF Init
<1>8. TypeOK
  BY <1>1, <1>2, <1>3, <1>4, <1>5, <1>6, <1>7 DEF TypeOK, PollType, SubmitType
<1>9. ChainInv
  BY <1>4 DEF ChainInv, Orders
<1>10. SubmitInv /\ PollInv
  BY <1>1, <1>2, <1>7 DEF SubmitInv, PollInv
<1>11. OutputInv /\ OnceInv
  BY <1>3, <1>4, <1>5, <1>7, PairFacts DEF OutputInv, OnceInv
<1> QED BY <1>8, <1>9, <1>10, <1>11 DEF IInv

\* Every step keeps the inductive invariant.
LEMMA NextIInv == IInv /\ [Next]_vars => IInv'
<1> SUFFICES ASSUME IInv, [Next]_vars PROVE IInv'
  OBVIOUS
<1>1. CASE \/ \E p \in Pairs : OtherConfirms(p)
           \/ \E o \in Orders : CancelOrder(o) \/ Deepen(o)
           \/ CloseDone \/ Submits \/ WatchOrders \/ ForwardError
  BY <1>1, SubmitKeeps
<1>2. CASE HourPasses \/ PollEnds
  BY <1>2, HourKeeps
<1>3. CASE Polls \/ PollReturns
  BY <1>3, PollKeeps, LoadKeeps, OutputKeeps, HourKeeps DEF Polls
<1>4. CASE Settle \/ \E c \in settling : SettleOrderMatch(c)
  BY <1>4, SettleKeeps
<1>5. CASE UNCHANGED vars
  <2>1. UNCHANGED <<status, matchOf, deep, coms, submit, confirming, confirmed, poll, errs,
                    confirmations, settling, stored, done, hours, outputs>>
    BY <1>5 DEF vars
  <2>2. TypeOK'
    BY <2>1 DEF IInv, TypeOK
  <2>3. ChainInv' /\ SubmitInv' /\ PollInv' /\ OutputInv' /\ OnceInv'
    BY <2>1 DEF IInv, ChainInv, SubmitInv, PollInv, OutputInv, OnceInv, OnChain
  <2> QED BY <2>2, <2>3 DEF IInv
<1> QED BY <1>1, <1>2, <1>3, <1>4, <1>5 DEF Next, Consumes
-----------------------------------------------------------------------------

\* The inductive invariant holds in every state of every behaviour.
THEOREM ConfirmerInvariant == Spec => []IInv
BY InitIInv, NextIInv, PTL DEF Spec

\* The variables of the Confirmer and of the Settler keep their types, and neither of the
\* two channels ever holds more than its capacity.
THEOREM ConfirmerTypeCorrect == Spec => []TypeOK
<1>1. IInv => TypeOK
  BY DEF IInv
<1> QED BY <1>1, ConfirmerInvariant, PTL

\* Whatever is output or settled is confirmed on the contract, the two orders with each
\* other, although Depth, Status and OrderMatch are read at three different moments and
\* nodes submit conflicting matches.
THEOREM OnlyConfirmedOutput == Spec => []OutputIsConfirmed
<1>1. ASSUME IInv PROVE OutputIsConfirmed
  BY <1>1 DEF IInv, OutputInv, OnChain, OutputIsConfirmed
<1> QED BY <1>1, ConfirmerInvariant, PTL

\* No pair is output more often than once, and once more for every hour that passed: the
\* record of an output is only dropped when it is an hour old.
THEOREM OutputOncePerHour == Spec => []OutputOnce
<1>1. ASSUME IInv PROVE OutputOnce
  <2>1. hours \in Nat /\ outputs \in [Pairs -> Nat]
    BY <1>1 DEF IInv, TypeOK
  <2> QED BY <1>1, <2>1 DEF IInv, OnceInv, OutputOnce
<1> QED BY <1>1, ConfirmerInvariant, PTL
=============================================================================
