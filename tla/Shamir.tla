-------------------------------- MODULE Shamir --------------------------------
(* Secret sharing (shamir/shamir.go) as the nodes use it: the values of two   *)
(* orders are split (order/order.go), every node subtracts its share of one   *)
(* from its share of the other (ome/matcher.go), and whoever holds k of the   *)
(* differences joins them, in any order (smpc/joiner.go).                     *)
EXTENDS Integers, Sequences, FiniteSets, SequencesExt

CONSTANTS Prime,    \* the prime of the finite field
          Pods      \* pairs <<n, k>>, below the prime: nodes, and shares needed to join

Field  == 0 .. Prime - 1
Orders == {"buy", "sell"}

VARIABLES n, k,     \* the pod
          dealt,    \* for every order, what Split was given and returned
          joined    \* the result of a join, once there is one

vars == <<n, k, dealt, joined>>

Undealt == [secret |-> 0, shares |-> <<>>, err |-> FALSE]
Unjoined == [ok |-> FALSE, value |-> 0]
-------------------------------------------------------------------------------
(* Arithmetic in the field, done by stackint (module Stackint).               *)
AddMod(x, y) == (x + y) % Prime
SubMod(x, y) == (x - y) % Prime
MulMod(x, y) == (x * y) % Prime
InvMod(x)    == CHOOSE y \in Field : (x * y) % Prime = 1

(* Mutant of Sub: the negation is forgotten.                                  *)
SubSame(s, t) == [index |-> s.index, value |-> AddMod(s.value, t.value)]

(* Share.Sub: the receiver's index, the difference as a sum in the field.     *)
Sub(s, t) == [index |-> s.index, value |-> AddMod(s.value, SubMod(Prime, t.value))]

(* Evaluation at x: the loop ranges over coefficients[1:] but indexes         *)
(* coefficients, so x^j is paired with the coefficient of x^(j-1), the secret *)
(* counts twice and the last coefficient not at all.                          *)
Evaluate(coefficients, x) ==
    FoldLeft(LAMBDA acc, c : [accum |-> AddMod(acc.accum, MulMod(c, acc.exp)),
                              exp |-> MulMod(acc.exp, x)],
             [accum |-> coefficients[1], exp |-> x % Prime],
             Front(coefficients)).accum

Split(nodes, coefficients) ==
    [x \in 1 .. nodes |-> [index |-> x, value |-> Evaluate(coefficients, x)]]

Others(shares, i) == RemoveAt(shares, i)

(* Mutant of Numerator: the sign is forgotten.                                *)
NumeratorUnsigned(shares, i) ==
    FoldLeft(LAMBDA num, s : MulMod(num, s.index), 1, Others(shares, i))

(* The Lagrange basis of share i at zero: numerator and denominator over the  *)
(* other shares, the numerator negated for each of them.                      *)
Numerator(shares, i) ==
    FoldLeft(LAMBDA num, s : Prime - MulMod(num, s.index), 1, Others(shares, i))
Denominator(shares, i) ==
    FoldLeft(LAMBDA den, s : MulMod(den, SubMod(shares[i].index, s.index)),
             1, Others(shares, i))

Join(shares) ==
    FoldLeft(LAMBDA secret, i :
                AddMod(secret, MulMod(MulMod(shares[i].value, Numerator(shares, i)),
                                      InvMod(Denominator(shares, i)))),
             0, [i \in DOMAIN shares |-> i])
-------------------------------------------------------------------------------
Init ==
    /\ \E pod \in Pods : n = pod[1] /\ k = pod[2]
    /\ dealt = [o \in Orders |-> Undealt]
    /\ joined = Unjoined

(* Split: refuses a threshold above n and a secret outside the field; draws   *)
(* the other coefficients at random below the prime.                          *)
SplitSecret(o, secret) ==
    /\ dealt[o] = Undealt
    /\ n >= k /\ secret < Prime
    /\ \E random \in [1 .. k - 1 -> Field] :
         dealt' = [dealt EXCEPT ![o] = [secret |-> secret, err |-> FALSE,
                                        shares |-> Split(n, <<secret>> \o random)]]
    /\ UNCHANGED <<n, k, joined>>

SplitFails(o, secret) ==
    /\ dealt[o] = Undealt
    /\ n < k \/ Prime <= secret
    /\ dealt' = [dealt EXCEPT ![o].err = TRUE]
    /\ UNCHANGED <<n, k, joined>>

(* The nodes of the sequence `from` subtract their shares; a joiner joins the *)
(* first k that it finds in its map, in any order.                            *)
Compare(from) ==
    /\ joined = Unjoined
    /\ \A o \in Orders : dealt[o].shares # <<>>
    /\ LET differences ==
             [i \in DOMAIN from |-> Sub(dealt["buy"].shares[from[i]],
                                        dealt["sell"].shares[from[i]])]
       IN joined' = [ok |-> TRUE, value |-> Join(differences)]
    /\ UNCHANGED <<n, k, dealt>>

(* The shares of t of m nodes that can be taken, in every order.              *)
Taken == [m, t \in 1 .. Prime - 1 |-> UNION {SetToSeqs(s) : s \in kSubset(t, 1 .. m)}]

Next ==
    \/ \E o \in Orders, secret \in 0 .. Prime :
         SplitSecret(o, secret) \/ SplitFails(o, secret)
    \/ \E from \in Taken[n, k] : Compare(from)

Spec == Init /\ [][Next]_vars
-------------------------------------------------------------------------------
(* Whichever k shares a node joins, in whichever order it takes them from its *)
(* map, the result is the difference of the two secrets in the field: what    *)
(* Split, Sub and Join promise the matcher together.                          *)
JoinRight ==
    joined.ok =>
        joined.value = SubMod(dealt["buy"].secret, dealt["sell"].secret)
===============================================================================
