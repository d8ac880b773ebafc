------------------------------- MODULE Words --------------------------------
(***************************************************************************)
(* stackint/asm: arithmetic on words and on vectors of words, the ground of *)
(* stackint.  A vector is a function on 0 .. n - 1, and what the code        *)
(* writes into its argument z is part of the result, with the carry c.      *)
(***************************************************************************)
EXTENDS Integers

CONSTANT HalfBits   \* half the bits of a word, 32 in the code

W == 2 * HalfBits
B2 == 2^HalfBits
B == 2^W
M == B - 1

Shl(w, s) == (w * 2^s) % B
Shr(w, s) == w \div 2^s
Top(w) == w >= 2^(W - 1)
Bit(b) == IF b THEN 1 ELSE 0

AddWW_g(x, y, c) ==
  LET yc == (y + c) % B
      z0 == (x + yc) % B
  IN  [z |-> z0, c |-> Bit(z0 < x \/ yc < y)]

\* In assembly: one instruction.
MulWW(x, y) == [z |-> (x * y) % B, c |-> (x * y) \div B]

MulAddWWW_g(x, y, c) ==
  LET p == MulWW(x, y)
      z0 == (p.z + c) % B
  IN  [z |-> z0, c |-> (p.c + Bit(z0 < p.z)) % B]

\* Leading zeros of a word.
Nlz(x) == CHOOSE s \in 0 .. W : Shr(x, W - s) = 0 /\ (s < W => Shr(x, W - s - 1) # 0)

\* Correction of an estimated half digit of a quotient.
RECURSIVE HalfDigit(_, _, _, _, _)
HalfDigit(q, rhat, vn1, vn0, un) ==
  IF q >= B2 \/ q * vn0 > B2 * rhat + un
    THEN IF rhat + vn1 >= B2 THEN q - 1 ELSE HalfDigit(q - 1, rhat + vn1, vn1, vn0, un)
    ELSE q

\* Half a digit of the quotient by v, whose top bit is set: un is the half word
\* that follows u.
HalfQuotient(u, un, v) ==
  LET vn1 == Shr(v, HalfBits) IN HalfDigit(u \div vn1, u % vn1, vn1, v % B2, un)

\* The second half of DivWW_g, after the first gave q1 and left un21.
DivLowHalf(s, v, un0, q1, un21) ==
  LET q0 == HalfQuotient(un21, un0, v)
  IN  [q |-> (q1 * B2 + q0) % B, r |-> Shr((un21 * B2 + un0 - q0 * v) % B, s)]

\* The first half, of two words and a divisor that are shifted by s.
DivHighHalf(s, v, un32, un10) ==
  LET q1 == HalfQuotient(un32, Shr(un10, HalfBits), v)
  IN  DivLowHalf(s, v, un10 % B2, q1, (un32 * B2 + Shr(un10, HalfBits) - q1 * v) % B)

\* The quotient q and the remainder r of two words by one.
DivWW_g(u1, u0, v) ==
  LET s == Nlz(v)
  IN  IF u1 >= v THEN [q |-> M, r |-> M]
        ELSE DivHighHalf(s, Shl(v, s), Shl(u1, s) + Shr(u0, W - s), Shl(u0, s))

\* A vector of n words and the last carry: the word i is Sum(i, carry), and
\* the next carry is Carry(i, word).
Ripple(n, c0, Sum(_, _), Carry(_, _)) ==
  LET c[i \in 0 .. n] == IF i = 0 THEN c0 ELSE Carry(i - 1, Sum(i - 1, c[i - 1]) % B)
  IN  [z |-> [i \in 0 .. n - 1 |-> Sum(i, c[i]) % B], c |-> c[n]]

\* Carries are told from the top bits.
AddVV_g(n, x, y) ==
  Ripple(n, 0, LAMBDA i, c : x[i] + y[i] + c,
         LAMBDA i, z : Bit((Top(x[i]) /\ Top(y[i])) \/ ((Top(x[i]) \/ Top(y[i])) /\ ~Top(z))))

SubVV_g(n, x, y) ==
  Ripple(n, 0, LAMBDA i, c : x[i] - y[i] - c,
         LAMBDA i, z : Bit((Top(y[i]) /\ ~Top(x[i])) \/ ((Top(y[i]) \/ ~Top(x[i])) /\ Top(z))))

AddVW_g(n, x, y) ==
  Ripple(n, y, LAMBDA i, c : x[i] + c, LAMBDA i, z : Bit(Top(x[i]) /\ ~Top(z)))

SubVW_g(n, x, y) ==
  Ripple(n, y, LAMBDA i, c : x[i] - c, LAMBDA i, z : Bit(Top(z) /\ ~Top(x[i])))

ShlVU_g(n, x, s) ==
  [z |-> [i \in 0 .. n - 1 |-> Shl(x[i], s) + (IF i = 0 THEN 0 ELSE Shr(x[i - 1], W - s))],
   c |-> Shr(x[n - 1], W - s)]

ShrVU_g(n, x, s) ==
  [i \in 0 .. n - 1 |-> Shr(x[i], s) + (IF i = n - 1 THEN 0 ELSE Shl(x[i + 1], W - s))]

MulAddVWW_g(n, x, y, r) ==
  LET c[i \in 0 .. n] == IF i = 0 THEN r ELSE MulAddWWW_g(x[i - 1], y, c[i - 1]).c
  IN  [z |-> [i \in 0 .. n - 1 |-> MulAddWWW_g(x[i], y, c[i]).z], c |-> c[n]]
=============================================================================
