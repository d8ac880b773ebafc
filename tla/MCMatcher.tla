------------------------------ MODULE MCMatcher -----------------------------
(* Two nodes, and orders whose prices and volumes take the two ends of the    *)
(* documented range of a coefficient, 1 and 1999, with the exponents 0 and 1.  *)
EXTENDS Matcher

DocumentedRange == [co : {1, 1999}, exp : {0, 1}]
=============================================================================
