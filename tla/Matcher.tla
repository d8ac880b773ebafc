------------------------------- MODULE Matcher ------------------------------
(***************************************************************************)
(* ome/matcher.go: the nodes of a pod resolve one Computation, a buy and a  *)
(* sell order, to a match or a mismatch without seeing the orders.          *)
(*                                                                         *)
(* Every node runs the same pipeline of stages.  At each stage it joins its *)
(* share of a difference and the smpcer calls it back with the difference,  *)
(* once at least k nodes have joined the stage: that is what Smpc.tla       *)
(* shows, and what the smpcer is here.  Nodes expire orders by their own    *)
(* clocks and may be disconnected from the network at any stage.            *)
(***************************************************************************)
EXTENDS Integers, FiniteSets, Sequences

CONSTANTS
  Nodes,
  k,            \* how many nodes must join a stage, see Smpc!Threshold
  Prime,        \* shamir.Prime, the order of the finite field
  CoExps,       \* the values [co, exp] that prices and volumes take
  Tokens, Settlements,
  StoreMayFail  \* whether PutComputation may return an error

ASSUME MatcherAssumption ==
  /\ IsFiniteSet(Nodes) /\ k \in Nat \ {0}
  /\ Prime \in Nat \ {0, 1}
  /\ StoreMayFail \in BOOLEAN

\* The number a CoExp stands for: "represented by the equation co * 10 ^ exp"
\* (order/value.go:18).
Value(v) == v.co * 10 ^ v.exp

\* The field is large enough for differences of coefficients and of exponents to
\* have a sign, and for tokens to be secrets of it.
ASSUME FieldAssumption ==
  /\ \A v \in CoExps : /\ v.co \in 0 .. (Prime \div 2) - 1 /\ v.exp \in 0 .. (Prime \div 2) - 1
                       /\ 10 ^ v.exp \in Nat \ {0}
  /\ Tokens \subseteq 0 .. Prime - 1

VARIABLES
  com,      \* the Computation: what the orders are
  stage,    \* [Nodes -> the ResolveStage of the node]
  joined,   \* [Nodes -> the stages the node has joined]
  expired,  \* [Nodes -> whether an order has expired by the clock of the node]
  stored,   \* [Nodes -> the ComputationState in the store of the node]
  outcomes  \* [Nodes -> results the MatchCallback was triggered with]

vars == <<com, stage, joined, expired, stored, outcomes>>

Orders == [settlement : Settlements, tokens : Tokens,
           price : CoExps, volume : CoExps, minimumVolume : CoExps]

\* ResolveStage.  A node is at stage 0 before Resolve and at Done after the
\* last thing it does for the Computation.
PriceExp == 1
PriceCo == 2
BuyVolumeExp == 3
BuyVolumeCo == 4
SellVolumeExp == 5
SellVolumeCo == 6
TokensStage == 7
Done == 9
ExpStages == {PriceExp, BuyVolumeExp, SellVolumeExp}
CoStages == {PriceCo, BuyVolumeCo, SellVolumeCo}
Stages == PriceExp .. TokensStage

\* Share.Sub, in the finite field.
Sub(x, y) == (x + ((Prime - y) % Prime)) % Prime

\* buildJoin: the value that the shares of a stage join to.
StageValue(s) ==
  CASE s = PriceExp      -> Sub(com.buy.price.exp, com.sell.price.exp)
    [] s = PriceCo       -> Sub(com.buy.price.co, com.sell.price.co)
    [] s = BuyVolumeExp  -> Sub(com.buy.volume.exp, com.sell.minimumVolume.exp)
    [] s = BuyVolumeCo   -> Sub(com.buy.volume.co, com.sell.minimumVolume.co)
    [] s = SellVolumeExp -> Sub(com.sell.volume.exp, com.buy.minimumVolume.exp)
    [] s = SellVolumeCo  -> Sub(com.sell.volume.co, com.buy.minimumVolume.co)
    [] s = TokensStage   -> Sub(com.buy.tokens, com.sell.tokens)

\* Mutant of IsGreaterThanOrEqualToZero: zero counts as negative.
IsGreaterThanOrEqualToZeroStrict(v) == v > 0 /\ v < Prime \div 2

\* The upper half of the field stands for the negative numbers.
IsGreaterThanOrEqualToZero(v) == v >= 0 /\ v < Prime \div 2
IsGreaterThanZero(v) == v > 0 /\ v < Prime \div 2
IsEqualToZero(v) == v = 0 \/ v = Prime

\* Mutant of NextStage: coefficients that pass resolve their exponents again.
NextStageAgain(s, v) ==
  CASE s \in ExpStages /\ IsGreaterThanZero(v)         -> s + 2
    [] s \in ExpStages /\ IsEqualToZero(v)             -> s + 1
    [] s \in CoStages /\ IsGreaterThanOrEqualToZero(v) -> s - 1
    [] OTHER                                           -> Done

\* What resolveValues decides: the next stage, or Done.
NextStage(s, v) ==
  CASE s \in ExpStages /\ IsGreaterThanZero(v)         -> s + 2
    [] s \in ExpStages /\ IsEqualToZero(v)             -> s + 1
    [] s \in CoStages /\ IsGreaterThanOrEqualToZero(v) -> s + 1
    [] OTHER                                           -> Done

Init ==
  /\ com \in [buy : Orders, sell : Orders]
  /\ stage = [n \in Nodes |-> 0]
  /\ joined = [n \in Nodes |-> {}]
  /\ expired = [n \in Nodes |-> FALSE]
  /\ stored = [n \in Nodes |-> "nil"]
  /\ outcomes = [n \in Nodes |-> <<>>]
-----------------------------------------------------------------------------

\* computationStore.PutComputation: an error is logged and otherwise ignored.
PutComputation(n, state) ==
  \/ stored' = [stored EXCEPT ![n] = state]
  \/ StoreMayFail /\ stored' = stored

\* Store a result and trigger the callback with it.
Finish(n, state) ==
  /\ PutComputation(n, state)
  /\ outcomes' = [outcomes EXCEPT ![n] = Append(@, state)]
  /\ stage' = [stage EXCEPT ![n] = Done]
  /\ UNCHANGED joined

\* resolve: an expired Computation is rejected, without a callback; otherwise
\* the stage is joined, or smpcer.Join returns ErrJoinOnDisconnectedNetwork and
\* the Computation is left where it is, with nobody told.
EnterStage(n, s) ==
  \/ /\ expired[n]
     /\ PutComputation(n, "rejected")
     /\ stage' = [stage EXCEPT ![n] = Done]
     /\ UNCHANGED <<joined, outcomes>>
  \/ /\ ~expired[n]
     /\ stage' = [stage EXCEPT ![n] = s]
     /\ joined' = [joined EXCEPT ![n] = @ \cup {s}]
     /\ UNCHANGED <<stored, outcomes>>
  \/ /\ ~expired[n]
     /\ stage' = [stage EXCEPT ![n] = Done]
     /\ UNCHANGED <<joined, stored, outcomes>>

\* Resolve.
Resolve(n) ==
  /\ stage[n] = 0
  /\ IF com.buy.settlement # com.sell.settlement
       THEN Finish(n, "mismatched")
       ELSE EnterStage(n, PriceExp)
  /\ UNCHANGED <<com, expired>>

\* The smpcer calls back once k nodes have joined the stage.
Revealed(s) == Cardinality({n \in Nodes : s \in joined[n]}) >= k

\* resolveValues.
ResolveValues(n) ==
  /\ stage[n] \in Stages /\ Revealed(stage[n])
  /\ LET v == StageValue(stage[n])
         next == NextStage(stage[n], v)
     IN  IF next # Done
           THEN EnterStage(n, next)
           ELSE Finish(n, IF stage[n] = TokensStage /\ IsEqualToZero(v)
                            THEN "matched" ELSE "mismatched")
  /\ UNCHANGED <<com, expired>>

\* An order expires by the clock of a node.
Expire(n) ==
  /\ ~expired[n]
  /\ expired' = [expired EXCEPT ![n] = TRUE]
  /\ UNCHANGED <<com, stage, joined, stored, outcomes>>

Next == \E n \in Nodes : Resolve(n) \/ ResolveValues(n) \/ Expire(n)

Spec == Init /\ [][Next]_vars

\* Smpc!JoinSucceeds: a stage that enough nodes have joined calls back.
FairSpec == Spec /\ \A n \in Nodes : WF_vars(ResolveValues(n))
-----------------------------------------------------------------------------

\* The variables have their types.
TypeOK ==
  /\ com \in [buy : Orders, sell : Orders]
  /\ stage \in [Nodes -> {0, Done} \cup Stages]
  /\ joined \in [Nodes -> SUBSET Stages]
  /\ expired \in [Nodes -> BOOLEAN]
  /\ stored \in [Nodes -> {"nil", "matched", "mismatched", "rejected"}]
  /\ outcomes \in [Nodes -> Seq({"matched", "mismatched"})]

\* The values that have to be at least as large as others for the orders to match.
Compared == {<<com.buy.price, com.sell.price>>,
             <<com.buy.volume, com.sell.minimumVolume>>,
             <<com.sell.volume, com.buy.minimumVolume>>}

SameTerms == com.buy.settlement = com.sell.settlement /\ com.buy.tokens = com.sell.tokens

\* A comparison of exponents, and of coefficients when they are equal.
AtLeast(v, w) == v.exp > w.exp \/ (v.exp = w.exp /\ v.co >= w.co)

\* A comparison of the numbers.
NumericallyAtLeast(v, w) == Value(v) >= Value(w)

\* The result of the Computation by either comparison.
Result(isMatch) == IF SameTerms /\ isMatch THEN "matched" ELSE "mismatched"
ResultByExponent == Result(\A pair \in Compared : AtLeast(pair[1], pair[2]))
ResultByNumber == Result(\A pair \in Compared : NumericallyAtLeast(pair[1], pair[2]))

\* Where the exponents of compared values differ, the greater one makes the greater number.
\* It always does when all coefficients are normalised to one decade, 200 to 1999.
Normalised ==
  \A pair \in Compared :
    /\ pair[1].exp > pair[2].exp => Value(pair[1]) > Value(pair[2])
    /\ pair[2].exp > pair[1].exp => Value(pair[2]) > Value(pair[1])

\* Whatever a node reports or stores is the result r.
Reported(r) ==
  \A n \in Nodes :
    /\ outcomes[n] \in {<<>>, <<r>>}
    /\ stored[n] \in {"matched", "mismatched"} => stored[n] = r

\* All nodes report the same, at most once, as the last thing they do, and not when they
\* rejected the Computation; and it is what comparing the orders gives: exponents before
\* coefficients for any orders, and the numbers themselves for orders with normalised
\* values.
ResultIsCorrect ==
  /\ Reported(ResultByExponent)
  /\ Normalised => Reported(ResultByNumber)
  /\ \A n \in Nodes : outcomes[n] # <<>> => stage[n] = Done /\ stored[n] # "rejected"

\* "A CoExp represented by the equation `co * 10 ^ exp`. The coefficient is restricted to
\* the range 1-1999" (order/value.go:18-19): whatever the coefficients of the range are,
\* orders match if the numbers they stand for do.
ResultIsNumeric == Reported(ResultByNumber)

\* When enough nodes stay, every one of them that joins a stage gets a result:
\* no stage of the pipeline is one that nodes enter and never leave.
PipelineTerminates ==
  (\A n \in Nodes : [](~expired[n] /\ ~(stage[n] = Done /\ outcomes[n] = <<>>))) =>
    ((\A n \in Nodes : <>(stage[n] # 0)) =>
       \A n \in Nodes : <>(outcomes[n] # <<>>))
=============================================================================
