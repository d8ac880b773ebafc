--------------------------- MODULE MatcherProofs ----------------------------
(***************************************************************************)
(* Proofs about Matcher.tla, for any nodes and threshold, every field, and   *)
(* all prices and volumes that fit into it.                                   *)
(***************************************************************************)
EXTENDS Matcher, TLAPS

\* What the stages before a stage have established.
Passed(s) ==
  /\ com.buy.settlement = com.sell.settlement
  /\ s = PriceCo => com.buy.price.exp = com.sell.price.exp
  /\ s > PriceCo => AtLeast(com.buy.price, com.sell.price)
  /\ s = BuyVolumeCo => com.buy.volume.exp = com.sell.minimumVolume.exp
  /\ s > BuyVolumeCo => AtLeast(com.buy.volume, com.sell.minimumVolume)
  /\ s = SellVolumeCo => com.sell.volume.exp = com.buy.minimumVolume.exp
  /\ s > SellVolumeCo => AtLeast(com.sell.volume, com.buy.minimumVolume)

StageInv ==
  \A n \in Nodes :
    /\ stage[n] \in Stages => Passed(stage[n])
    /\ stage[n] # Done => outcomes[n] = <<>> /\ stored[n] = "nil"

\* ResultIsCorrect but for the comparison of the numbers.
Reports ==
  /\ Reported(ResultByExponent)
  /\ \A n \in Nodes : outcomes[n] # <<>> => stage[n] = Done /\ stored[n] # "rejected"

\* The inductive invariant.
IInv == TypeOK /\ StageInv /\ Reports
-----------------------------------------------------------------------------

\* Differences in the lower half of the field keep their sign.
LEMMA SubSign ==
  ASSUME NEW x \in 0 .. (Prime \div 2) - 1, NEW y \in 0 .. (Prime \div 2) - 1
  PROVE  /\ IsGreaterThanOrEqualToZero(Sub(x, y)) <=> x >= y
         /\ IsGreaterThanZero(Sub(x, y)) <=> x > y
         /\ IsEqualToZero(Sub(x, y)) <=> x = y
<1>1. Prime \in Nat /\ Prime > 1 /\ Prime \div 2 \in Nat /\ 2 * (Prime \div 2) <= Prime
  BY MatcherAssumption
<1>2. x \in Nat /\ y \in Nat /\ x < Prime \div 2 /\ y < Prime \div 2
  BY <1>1
<1>3. (Prime - y) % Prime = IF y = 0 THEN 0 ELSE Prime - y
  BY <1>1, <1>2
<1>4. Sub(x, y) = IF x >= y THEN x - y ELSE Prime + x - y
  <2>1. CASE y = 0
    BY <1>1, <1>2, <1>3, <2>1 DEF Sub
  <2>2. CASE y # 0
    <3>1. Sub(x, y) = (x + (Prime - y)) % Prime
      BY <1>3, <2>2 DEF Sub
    <3>2. CASE x >= y
      BY <1>1, <1>2, <3>1, <3>2
    <3>3. CASE x < y
      BY <1>1, <1>2, <3>1, <3>3
    <3> QED BY <1>2, <3>2, <3>3
  <2> QED BY <2>1, <2>2
<1> QED BY <1>1, <1>2, <1>4 DEF IsGreaterThanOrEqualToZero, IsGreaterThanZero, IsEqualToZero

\* A difference is zero only for equal secrets.
LEMMA SubZero ==
  ASSUME NEW x \in 0 .. Prime - 1, NEW y \in 0 .. Prime - 1
  PROVE  IsEqualToZero(Sub(x, y)) <=> x = y
<1>1. Prime \in Nat /\ Prime > 1 /\ x \in Nat /\ y \in Nat /\ x < Prime /\ y < Prime
  BY MatcherAssumption
<1>2. (Prime - y) % Prime = IF y = 0 THEN 0 ELSE Prime - y
  BY <1>1
<1>3. Sub(x, y) = IF x >= y THEN x - y ELSE Prime + x - y
  <2>1. CASE y = 0
    BY <1>1, <1>2, <2>1 DEF Sub
  <2>2. CASE y # 0
    <3>1. Sub(x, y) = (x + (Prime - y)) % Prime
      BY <1>2, <2>2 DEF Sub
    <3>2. CASE x >= y
      BY <1>1, <3>1, <3>2
    <3>3. CASE x < y
      BY <1>1, <3>1, <3>3
    <3> QED BY <1>1, <3>2, <3>3
  <2> QED BY <2>1, <2>2
<1> QED BY <1>1, <1>3 DEF IsEqualToZero

\* What a stage that compares exponents does with the Computation.
LEMMA ExpStep ==
  ASSUME NEW s \in ExpStages, NEW v \in CoExps, NEW w \in CoExps
  PROVE  LET next == NextStage(s, Sub(v.exp, w.exp)) IN
         \/ next = s + 2 /\ AtLeast(v, w)
         \/ next = s + 1 /\ v.exp = w.exp
         \/ next = Done /\ ~AtLeast(v, w)
<1> DEFINE d == Sub(v.exp, w.exp)
<1>1. v.exp \in 0 .. (Prime \div 2) - 1 /\ w.exp \in 0 .. (Prime \div 2) - 1
  BY FieldAssumption
<1>2. /\ IsGreaterThanZero(d) <=> v.exp > w.exp
      /\ IsEqualToZero(d) <=> v.exp = w.exp
  BY <1>1, SubSign
<1>3. s \notin CoStages
  BY DEF ExpStages, CoStages, PriceExp, PriceCo, BuyVolumeExp, BuyVolumeCo, SellVolumeExp,
         SellVolumeCo
<1> HIDE DEF d
<1>4. v.exp \in Int /\ w.exp \in Int
  BY <1>1, MatcherAssumption
<1>5. ~(IsGreaterThanZero(d) /\ IsEqualToZero(d))
  BY <1>2, <1>4
<1>6. \/ IsGreaterThanZero(d) /\ NextStage(s, d) = s + 2
      \/ IsEqualToZero(d) /\ NextStage(s, d) = s + 1
      \/ ~IsGreaterThanZero(d) /\ ~IsEqualToZero(d) /\ NextStage(s, d) = Done
  BY <1>3, <1>5 DEF NextStage
<1> QED BY <1>2, <1>4, <1>6 DEF AtLeast, d

\* What a stage that compares coefficients does with the Computation.
LEMMA CoStep ==
  ASSUME NEW s \in CoStages, NEW v \in CoExps, NEW w \in CoExps, v.exp = w.exp
  PROVE  LET next == NextStage(s, Sub(v.co, w.co)) IN
         \/ next = s + 1 /\ AtLeast(v, w)
         \/ next = Done /\ ~AtLeast(v, w)
<1> DEFINE d == Sub(v.co, w.co)
<1>1. /\ v.co \in 0 .. (Prime \div 2) - 1 /\ w.co \in 0 .. (Prime \div 2) - 1
      /\ v.exp \in Int /\ w.exp \in Int
  BY FieldAssumption, MatcherAssumption
<1>2. IsGreaterThanOrEqualToZero(d) <=> AtLeast(v, w)
  BY <1>1, SubSign DEF AtLeast
<1>3. s \notin ExpStages
  BY DEF ExpStages, CoStages, PriceExp, PriceCo, BuyVolumeExp, BuyVolumeCo, SellVolumeExp,
         SellVolumeCo
<1> HIDE DEF d
<1>4. \/ IsGreaterThanOrEqualToZero(d) /\ NextStage(s, d) = s + 1
      \/ ~IsGreaterThanOrEqualToZero(d) /\ NextStage(s, d) = Done
  BY <1>3 DEF NextStage
<1> QED BY <1>2, <1>4 DEF d

\* Numbers with one exponent compare as their coefficients.
LEMMA SameExponent ==
  ASSUME NEW v \in CoExps, NEW w \in CoExps, v.exp = w.exp
  PROVE  NumericallyAtLeast(v, w) <=> v.co >= w.co
<1>1. v.co \in Nat /\ w.co \in Nat
  BY FieldAssumption, MatcherAssumption
<1>2. PICK p \in Nat \ {0} : p = 10 ^ v.exp
  BY FieldAssumption
<1>3. Value(v) = v.co * p /\ Value(w) = w.co * p
  BY <1>2 DEF Value
<1>4. v.co * p >= w.co * p <=> v.co >= w.co
  <2>1. (v.co - w.co) * p = v.co * p - w.co * p
    BY <1>1, <1>2
  <2>2. v.co >= w.co => (v.co - w.co) * p >= 0
    BY <1>1, <1>2
  <2>3. w.co > v.co => (v.co - w.co) * p < 0
    <3> SUFFICES ASSUME w.co > v.co PROVE (v.co - w.co) * p < 0
      OBVIOUS
    <3>1. (w.co - v.co) * p > 0
      BY <1>1, <1>2
    <3>2. (v.co - w.co) * p = -((w.co - v.co) * p)
      BY <1>1, <1>2
    <3> QED BY <1>1, <1>2, <3>1, <3>2
  <2> QED BY <1>1, <1>2, <2>1, <2>2, <2>3
<1> QED BY <1>3, <1>4 DEF NumericallyAtLeast

\* A comparison of exponents before coefficients is one of the numbers, if the greater
\* exponent makes the greater number.
LEMMA ComparesNumbers ==
  ASSUME NEW v \in CoExps, NEW w \in CoExps,
         v.exp > w.exp => Value(v) > Value(w), w.exp > v.exp => Value(w) > Value(v)
  PROVE  AtLeast(v, w) <=> NumericallyAtLeast(v, w)
<1>1. /\ v.exp \in Int /\ w.exp \in Int /\ v.co \in Nat /\ w.co \in Nat
      /\ 10 ^ v.exp \in Nat /\ 10 ^ w.exp \in Nat
  BY FieldAssumption, MatcherAssumption
<1>2. Value(v) \in Int /\ Value(w) \in Int
  BY <1>1 DEF Value
<1>3. CASE v.exp = w.exp
  BY <1>1, <1>3, SameExponent DEF AtLeast
<1>4. CASE v.exp # w.exp
  BY <1>1, <1>2, <1>4 DEF AtLeast, NumericallyAtLeast
<1> QED BY <1>3, <1>4

\* For orders with normalised values the two results are the same.
LEMMA NormalisedResult == TypeOK /\ Normalised => ResultByExponent = ResultByNumber
<1> SUFFICES ASSUME TypeOK, Normalised PROVE ResultByExponent = ResultByNumber
  OBVIOUS
<1>1. \A pair \in Compared : pair[1] \in CoExps /\ pair[2] \in CoExps
  BY DEF TypeOK, Orders, Compared
<1>2. ASSUME NEW pair \in Compared
      PROVE  AtLeast(pair[1], pair[2]) <=> NumericallyAtLeast(pair[1], pair[2])
  <2>1. PICK v \in CoExps, w \in CoExps : v = pair[1] /\ w = pair[2]
    BY <1>1
  <2>2. (v.exp > w.exp => Value(v) > Value(w)) /\ (w.exp > v.exp => Value(w) > Value(v))
    BY <2>1 DEF Normalised
  <2>3. AtLeast(v, w) <=> NumericallyAtLeast(v, w)
    BY <2>2, ComparesNumbers
  <2> QED BY <2>1, <2>3
<1>3. (\A pair \in Compared : AtLeast(pair[1], pair[2]))
        <=> \A pair \in Compared : NumericallyAtLeast(pair[1], pair[2])
  BY <1>2
<1> QED BY <1>3 DEF ResultByExponent, ResultByNumber, Result

\* Whether the orders match, exponents compared before coefficients.
IsMatch == SameTerms /\ \A pair \in Compared : AtLeast(pair[1], pair[2])

LEMMA ResultOfMatch == ResultByExponent = IF IsMatch THEN "matched" ELSE "mismatched"
BY DEF ResultByExponent, Result, IsMatch

LEMMA ResultStays == UNCHANGED com => UNCHANGED ResultByExponent
BY DEF ResultByExponent, Result, SameTerms, Compared

\* What a stage decides, given what the stages before it have established: it passes on
\* exactly the Computations that may still match.
LEMMA StageDecides ==
  ASSUME TypeOK, NEW s \in Stages, Passed(s)
  PROVE  LET v == StageValue(s) IN
         /\ NextStage(s, v) # Done => NextStage(s, v) \in Stages /\ Passed(NextStage(s, v))
         /\ NextStage(s, v) = Done => (s = TokensStage /\ IsEqualToZero(v) <=> IsMatch)
<1> USE DEF PriceExp, PriceCo, BuyVolumeExp, BuyVolumeCo, SellVolumeExp, SellVolumeCo,
            TokensStage, Done
<1>t. /\ com.buy.price \in CoExps /\ com.sell.price \in CoExps
      /\ com.buy.volume \in CoExps /\ com.sell.minimumVolume \in CoExps
      /\ com.sell.volume \in CoExps /\ com.buy.minimumVolume \in CoExps
      /\ com.buy.tokens \in 0 .. Prime - 1 /\ com.sell.tokens \in 0 .. Prime - 1
  BY FieldAssumption DEF TypeOK, Orders
<1> DEFINE v == StageValue(s)
           next == NextStage(s, v)
<1>m. IsMatch <=> /\ com.buy.settlement = com.sell.settlement
                  /\ com.buy.tokens = com.sell.tokens
                  /\ AtLeast(com.buy.price, com.sell.price)
                  /\ AtLeast(com.buy.volume, com.sell.minimumVolume)
                  /\ AtLeast(com.sell.volume, com.buy.minimumVolume)
  BY DEF IsMatch, SameTerms, Compared
<1>1. CASE s = PriceExp
  <2>1. v = Sub(com.buy.price.exp, com.sell.price.exp) /\ s \in ExpStages
    BY <1>1 DEF StageValue, ExpStages
  <2>2. \/ next = s + 2 /\ AtLeast(com.buy.price, com.sell.price)
        \/ next = s + 1 /\ com.buy.price.exp = com.sell.price.exp
        \/ next = Done /\ ~AtLeast(com.buy.price, com.sell.price)
    BY <1>t, <2>1, ExpStep
  <2> HIDE DEF v, next
  <2>3. next # Done => next \in Stages /\ Passed(next)
    BY <1>1, <2>2 DEF Passed, Stages
  <2>4. next = Done => ~IsMatch
    BY <1>1, <1>m, <2>2
  <2> QED BY <1>1, <2>3, <2>4 DEF v, next
<1>2. CASE s = PriceCo
  <2>1. v = Sub(com.buy.price.co, com.sell.price.co) /\ s \in CoStages /\ com.buy.price.exp = com.sell.price.exp
    BY <1>2 DEF StageValue, CoStages, Passed
  <2>2. \/ next = s + 1 /\ AtLeast(com.buy.price, com.sell.price)
        \/ next = Done /\ ~AtLeast(com.buy.price, com.sell.price)
    BY <1>t, <2>1, CoStep
  <2> HIDE DEF v, next
  <2>3. next # Done => next \in Stages /\ Passed(next)
    BY <1>2, <2>2 DEF Passed, Stages
  <2>4. next = Done => ~IsMatch
    BY <1>2, <1>m, <2>2
  <2> QED BY <1>2, <2>3, <2>4 DEF v, next
<1>3. CASE s = BuyVolumeExp
  <2>1. v = Sub(com.buy.volume.exp, com.sell.minimumVolume.exp) /\ s \in ExpStages
    BY <1>3 DEF StageValue, ExpStages
  <2>2. \/ next = s + 2 /\ AtLeast(com.buy.volume, com.sell.minimumVolume)
        \/ next = s + 1 /\ com.buy.volume.exp = com.sell.minimumVolume.exp
        \/ next = Done /\ ~AtLeast(com.buy.volume, com.sell.minimumVolume)
    BY <1>t, <2>1, ExpStep
  <2> HIDE DEF v, next
  <2>3. next # Done => next \in Stages /\ Passed(next)
    BY <1>3, <2>2 DEF Passed, Stages
  <2>4. next = Done => ~IsMatch
    BY <1>3, <1>m, <2>2
  <2> QED BY <1>3, <2>3, <2>4 DEF v, next
<1>4. CASE s = BuyVolumeCo
  <2>1. v = Sub(com.buy.volume.co, com.sell.minimumVolume.co) /\ s \in CoStages /\ com.buy.volume.exp = com.sell.minimumVolume.exp
    BY <1>4 DEF StageValue, CoStages, Passed
  <2>2. \/ next = s + 1 /\ AtLeast(com.buy.volume, com.sell.minimumVolume)
        \/ next = Done /\ ~AtLeast(com.buy.volume, com.sell.minimumVolume)
    BY <1>t, <2>1, CoStep
  <2> HIDE DEF v, next
  <2>3. next # Done => next \in Stages /\ Passed(next)
    BY <1>4, <2>2 DEF Passed, Stages
  <2>4. next = Done => ~IsMatch
    BY <1>4, <1>m, <2>2
  <2> QED BY <1>4, <2>3, <2>4 DEF v, next
<1>5. CASE s = SellVolumeExp
  <2>1. v = Sub(com.sell.volume.exp, com.buy.minimumVolume.exp) /\ s \in ExpStages
    BY <1>5 DEF StageValue, ExpStages
  <2>2. \/ next = s + 2 /\ AtLeast(com.sell.volume, com.buy.minimumVolume)
        \/ next = s + 1 /\ com.sell.volume.exp = com.buy.minimumVolume.exp
        \/ next = Done /\ ~AtLeast(com.sell.volume, com.buy.minimumVolume)
    BY <1>t, <2>1, ExpStep
  <2> HIDE DEF v, next
  <2>3. next # Done => next \in Stages /\ Passed(next)
    BY <1>5, <2>2 DEF Passed, Stages
  <2>4. next = Done => ~IsMatch
    BY <1>5, <1>m, <2>2
  <2> QED BY <1>5, <2>3, <2>4 DEF v, next
<1>6. CASE s = SellVolumeCo
  <2>1. v = Sub(com.sell.volume.co, com.buy.minimumVolume.co) /\ s \in CoStages /\ com.sell.volume.exp = com.buy.minimumVolume.exp
    BY <1>6 DEF StageValue, CoStages, Passed
  <2>2. \/ next = s + 1 /\ AtLeast(com.sell.volume, com.buy.minimumVolume)
        \/ next = Done /\ ~AtLeast(com.sell.volume, com.buy.minimumVolume)
    BY <1>t, <2>1, CoStep
  <2> HIDE DEF v, next
  <2>3. next # Done => next \in Stages /\ Passed(next)
    BY <1>6, <2>2 DEF Passed, Stages
  <2>4. next = Done => ~IsMatch
    BY <1>6, <1>m, <2>2
  <2> QED BY <1>6, <2>3, <2>4 DEF v, next
<1>7. CASE s = TokensStage
  <2>1. v = Sub(com.buy.tokens, com.sell.tokens)
    BY <1>7 DEF StageValue
  <2> HIDE DEF v
  <2>2. next = Done
    BY <1>7 DEF NextStage, ExpStages, CoStages, next
  <2>3. IsEqualToZero(v) <=> com.buy.tokens = com.sell.tokens
    BY <1>t, <2>1, SubZero
  <2>4. IsEqualToZero(v) <=> IsMatch
    BY <1>7, <1>m, <2>3 DEF Passed
  <2> QED BY <1>7, <2>2, <2>4 DEF v, next
<1> QED BY <1>1, <1>2, <1>3, <1>4, <1>5, <1>6, <1>7 DEF Stages

\* A node that reports what the orders are keeps the invariant.
LEMMA FinishKeeps ==
  ASSUME IInv, NEW n \in Nodes, stage[n] # Done, NEW state \in {"matched", "mismatched"},
         state = ResultByExponent,
         Finish(n, state), UNCHANGED <<com, expired>>
  PROVE  IInv'
<1> USE DEF IInv
<1>1. /\ stage' \in [Nodes -> {0, Done} \cup Stages]
      /\ \A m \in Nodes : stage'[m] = IF m = n THEN Done ELSE stage[m]
      /\ UNCHANGED joined
  BY DEF Finish, TypeOK
<1>2. /\ stored' \in [Nodes -> {"nil", "matched", "mismatched", "rejected"}]
      /\ \A m \in Nodes : stored'[m] = stored[m] \/ (m = n /\ stored'[m] = state)
  BY DEF Finish, PutComputation, TypeOK
<1>3. outcomes[n] = <<>> /\ stored[n] = "nil"
  BY DEF StageInv
<1>4. outcomes' = [outcomes EXCEPT ![n] = <<state>>]
  BY <1>3 DEF Finish
<1>5. /\ outcomes' \in [Nodes -> Seq({"matched", "mismatched"})]
      /\ \A m \in Nodes : outcomes'[m] = IF m = n THEN <<state>> ELSE outcomes[m]
  BY <1>4 DEF TypeOK
<1>6. TypeOK'
  BY <1>1, <1>2, <1>5 DEF TypeOK
<1>7. StageInv'
  <2>1. \A s \in Stages : Passed(s)' = Passed(s)
    BY DEF Passed, AtLeast
  <2>2. ASSUME NEW m \in Nodes, m = n PROVE StageInv!(m)'
    BY <1>1, <2>2 DEF Stages, PriceExp, TokensStage, Done
  <2>3. ASSUME NEW m \in Nodes, m # n PROVE StageInv!(m)'
    <3>1. stage'[m] = stage[m] /\ stored'[m] = stored[m] /\ outcomes'[m] = outcomes[m]
      BY <1>1, <1>2, <1>5, <2>3
    <3> QED BY <2>1, <3>1 DEF StageInv
  <2> QED BY <2>2, <2>3 DEF StageInv
<1>8. Reports'
  <2>1. PICK r : r = ResultByExponent /\ r = ResultByExponent'
    BY ResultStays
  <2>2. \A m \in Nodes : m # n => /\ outcomes[m] \in {<<>>, <<r>>}
                                  /\ stored[m] \in {"matched", "mismatched"} => stored[m] = r
                                  /\ outcomes[m] # <<>> => stage[m] = Done /\ stored[m] # "rejected"
    BY <2>1 DEF Reports, Reported
  <2>3. \A m \in Nodes : /\ outcomes'[m] \in {<<>>, <<r>>}
                         /\ stored'[m] \in {"matched", "mismatched"} => stored'[m] = r
                         /\ outcomes'[m] # <<>> => stage'[m] = Done /\ stored'[m] # "rejected"
    BY <1>1, <1>2, <1>3, <1>5, <2>1, <2>2
  <2> QED BY <2>1, <2>3 DEF Reports, Reported
<1> QED BY <1>6, <1>7, <1>8

\* A node that enters a stage the Computation has come to, rejects it, or is disconnected
\* keeps the invariant.
LEMMA EnterStageKeeps ==
  ASSUME IInv, NEW n \in Nodes, stage[n] # Done, NEW s \in Stages, Passed(s),
         EnterStage(n, s), UNCHANGED <<com, expired>>
  PROVE  IInv'
<1> USE DEF IInv
<1>1. /\ stage' \in [Nodes -> {0, Done} \cup Stages]
      /\ stage'[n] \in {s, Done}
      /\ \A m \in Nodes : m # n => stage'[m] = stage[m]
  BY DEF EnterStage, TypeOK
<1>2. joined' \in [Nodes -> SUBSET Stages]
  <2>1. joined' = joined \/ joined' = [joined EXCEPT ![n] = @ \cup {s}]
    BY DEF EnterStage
  <2>2. joined \in [Nodes -> SUBSET Stages]
    BY DEF TypeOK
  <2> QED BY <2>1, <2>2
<1>3. /\ stored' \in [Nodes -> {"nil", "matched", "mismatched", "rejected"}]
      /\ stored'[n] = stored[n] \/ (stored'[n] = "rejected" /\ stage'[n] = Done)
      /\ \A m \in Nodes : m # n => stored'[m] = stored[m]
  BY DEF EnterStage, PutComputation, TypeOK
<1>4. UNCHANGED outcomes
  BY DEF EnterStage
<1>5. outcomes[n] = <<>> /\ stored[n] = "nil"
  BY DEF StageInv
<1>6. TypeOK'
  BY <1>1, <1>2, <1>3, <1>4 DEF TypeOK
<1>7. StageInv'
  <2>1. \A t \in Stages : Passed(t)' = Passed(t)
    BY DEF Passed, AtLeast
  <2>2. ASSUME NEW m \in Nodes, m = n PROVE StageInv!(m)'
    BY <1>1, <1>3, <1>4, <1>5, <2>1, <2>2 DEF Stages, TokensStage, Done
  <2>3. ASSUME NEW m \in Nodes, m # n PROVE StageInv!(m)'
    BY <1>1, <1>3, <1>4, <2>1, <2>3 DEF StageInv
  <2> QED BY <2>2, <2>3 DEF StageInv
<1>8. Reports'
  <2>1. PICK r : r = ResultByExponent /\ r = ResultByExponent'
    BY ResultStays
  <2>2. \A m \in Nodes : /\ outcomes[m] \in {<<>>, <<r>>}
                         /\ stored[m] \in {"matched", "mismatched"} => stored[m] = r
                         /\ outcomes[m] # <<>> => stage[m] = Done /\ stored[m] # "rejected"
    BY <2>1 DEF Reports, Reported
  <2>3. \A m \in Nodes : /\ outcomes'[m] \in {<<>>, <<r>>}
                         /\ stored'[m] \in {"matched", "mismatched"} => stored'[m] = r
                         /\ outcomes'[m] # <<>> => stage'[m] = Done /\ stored'[m] # "rejected"
    BY <1>1, <1>3, <1>4, <1>5, <2>2
  <2> QED BY <2>1, <2>3 DEF Reports, Reported
<1> QED BY <1>6, <1>7, <1>8

\* Initially no node has begun.
LEMMA InitIInv == Init => IInv
<1> SUFFICES ASSUME Init PROVE IInv
  OBVIOUS
<1>1. TypeOK
  BY DEF Init, TypeOK
<1>2. StageInv
  BY DEF Init, StageInv, Stages, PriceExp, TokensStage
<1>3. Reports
  BY DEF Init, Reports, Reported
<1> QED BY <1>1, <1>2, <1>3 DEF IInv

\* Every step of a node keeps the invariant.
LEMMA NextIInv == IInv /\ [Next]_vars => IInv'
<1> SUFFICES ASSUME IInv, [Next]_vars PROVE IInv'
  OBVIOUS
<1>1. ASSUME NEW n \in Nodes, Resolve(n) PROVE IInv'
  <2>1. stage[n] # Done /\ UNCHANGED <<com, expired>>
    BY <1>1 DEF Resolve, Done
  <2>2. CASE com.buy.settlement # com.sell.settlement
    <3>1. Finish(n, "mismatched") /\ ResultByExponent = "mismatched"
      BY <1>1, <2>2, ResultOfMatch DEF Resolve, IsMatch, SameTerms
    <3> QED BY <2>1, <3>1, FinishKeeps
  <2>3. CASE com.buy.settlement = com.sell.settlement
    <3>1. EnterStage(n, PriceExp)
      BY <1>1, <2>3 DEF Resolve
    <3>2. PriceExp \in Stages /\ Passed(PriceExp)
      BY <2>3 DEF Passed, Stages, PriceExp, PriceCo, BuyVolumeCo, SellVolumeCo, TokensStage
    <3> QED BY <2>1, <3>1, <3>2, EnterStageKeeps
  <2> QED BY <2>2, <2>3
<1>2. ASSUME NEW n \in Nodes, ResolveValues(n) PROVE IInv'
  <2> DEFINE s == stage[n]
             v == StageValue(s)
             next == NextStage(s, v)
             state == IF s = TokensStage /\ IsEqualToZero(v) THEN "matched" ELSE "mismatched"
  <2>1. s \in Stages /\ s # Done /\ UNCHANGED <<com, expired>>
    BY <1>2 DEF ResolveValues, Stages, PriceExp, TokensStage, Done
  <2>2. TypeOK /\ Passed(s)
    BY <2>1 DEF IInv, StageInv
  <2>3. /\ next # Done => next \in Stages /\ Passed(next)
        /\ next = Done => (s = TokensStage /\ IsEqualToZero(v) <=> IsMatch)
    BY <2>1, <2>2, StageDecides
  <2>4. IF next # Done THEN EnterStage(n, next) ELSE Finish(n, state)
    BY <1>2 DEF ResolveValues
  <2>5. next = Done => state = ResultByExponent
    BY <2>3, ResultOfMatch
  <2>6. state \in {"matched", "mismatched"}
    OBVIOUS
  <2> HIDE DEF next, state, v
  <2>7. CASE next # Done
    BY <2>1, <2>3, <2>4, <2>7, EnterStageKeeps
  <2>8. CASE next = Done
    BY <2>1, <2>4, <2>5, <2>6, <2>8, FinishKeeps
  <2> QED BY <2>7, <2>8
<1>3. ASSUME NEW n \in Nodes, Expire(n) PROVE IInv'
  <2>1. UNCHANGED <<com, stage, joined, stored, outcomes>> /\ expired' \in [Nodes -> BOOLEAN]
    BY <1>3 DEF Expire, IInv, TypeOK
  <2>2. TypeOK'
    BY <2>1 DEF IInv, TypeOK
  <2>3. StageInv'
    BY <2>1 DEF IInv, StageInv, Passed, AtLeast
  <2>4. Reports'
    BY <2>1, ResultStays DEF IInv, Reports, Reported
  <2> QED BY <2>2, <2>3, <2>4 DEF IInv
<1>4. CASE UNCHANGED vars
  <2>1. UNCHANGED <<com, stage, joined, expired, stored, outcomes>>
    BY <1>4 DEF vars
  <2>2. TypeOK'
    BY <2>1 DEF IInv, TypeOK
  <2>3. StageInv'
    BY <2>1 DEF IInv, StageInv, Passed, AtLeast
  <2>4. Reports'
    BY <2>1, ResultStays DEF IInv, Reports, Reported
  <2> QED BY <2>2, <2>3, <2>4 DEF IInv
<1> QED BY <1>1, <1>2, <1>3, <1>4 DEF Next
-----------------------------------------------------------------------------

\* A node at a stage (resolveValues) knows from the stages before it exactly the comparisons
\* of the orders that they stand for, and has reported and stored nothing yet.
THEOREM MatcherInvariant == Spec => []IInv
<1> QED BY InitIInv, NextIInv, PTL DEF Spec

\* The state of the matcher has its types.
THEOREM MatcherTypeCorrect == Spec => []TypeOK
<1>1. IInv => TypeOK
  BY DEF IInv
<1> QED BY <1>1, MatcherInvariant, PTL

\* For every two orders that fit into the field and every threshold, what a node reports or
\* stores is what comparing the exponents and then the coefficients of the orders in the
\* clear would give, once, so that no two nodes disagree; and it is what the numbers would
\* give, if the greater exponents make the greater numbers.
THEOREM PipelineDecidesMatch == Spec => []ResultIsCorrect
<1>1. IInv => ResultIsCorrect
  BY NormalisedResult DEF IInv, Reports, ResultIsCorrect
<1> QED BY <1>1, MatcherInvariant, PTL
=============================================================================
