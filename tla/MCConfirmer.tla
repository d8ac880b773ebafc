---------------------------- MODULE MCConfirmer -----------------------------
EXTENDS Confirmer, TLC
Symmetry == Permutations(Sells)

\* Bound: the Matcher hands over at most two matches: a pair in both epochs, or
\* two pairs that conflict.
TwoMatches == Init /\ Cardinality(coms) <= 2

MCSpec == TwoMatches /\ [][Next]_vars
=============================================================================
