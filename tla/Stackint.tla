------------------------------ MODULE Stackint ------------------------------
(***************************************************************************)
(* stackint: numbers of SIZE bits as arrays of words, without allocation.   *)
(* A number keeps the length of its array up to the last word that is not   *)
(* zero, and the operations trust the length: a number with a wrong length  *)
(* compares wrong ever after.                                               *)
(*                                                                         *)
(* The machine has one number, x, on which any sequence of operations is    *)
(* called, and beside it the value that x is to have by the arithmetic of   *)
(* integers.                                                                *)
(***************************************************************************)
EXTENDS Words, Bitwise

CONSTANTS
  INT1024WORDS,   \* words of a number, 16 in the code
  Operands,       \* second arguments of the operations
  Moduli          \* third arguments

SIZE == INT1024WORDS * W
Modulus == 2^SIZE

VARIABLES
  x,       \* the number: words and length
  value    \* what it is to be

vars == <<x, value>>

Array == 0 .. INT1024WORDS - 1

\* setLength: the length up to the last word that is not zero.
LengthOf(words) ==
  LET used == {i \in DOMAIN words : words[i] # 0}
  IN  IF used = {} THEN 0 ELSE 1 + CHOOSE i \in used : \A j \in used : j <= i

Int1024(words) == [words |-> words, length |-> LengthOf(words)]
Zero == Int1024([i \in Array |-> 0])

\* SetBytes: eight bytes are one word.
FromBytes(n) == Int1024([i \in Array |-> (n \div B^i) % B])

\* SetUint clears only the words that the length covers.
SetUint(a, n) ==
  [words |-> [i \in Array |-> IF i = 0 THEN n ELSE IF i < a.length THEN 0 ELSE a.words[i]],
   length |-> IF n = 0 THEN 0 ELSE 1]
FromUint(n) == SetUint(Zero, n)

Clone(a) == [a EXCEPT !.words = [i \in Array |-> IF i < a.length THEN a.words[i] ELSE 0]]

IsZero(a) == a.length = 0
EqualsWord(a, n) == IF n = 0 THEN a.length = 0 ELSE a.length = 1 /\ a.words[0] = n

\* The last word in which two numbers of the same length differ decides.
Cmp(a, b) ==
  LET differ == {i \in 0 .. a.length - 1 : a.words[i] # b.words[i]}
      last == CHOOSE i \in differ : \A j \in differ : j <= i
  IN  CASE a.length < b.length -> -1
        [] a.length > b.length -> 1
        [] a.length = b.length /\ differ = {} -> 0
        [] OTHER -> IF a.words[last] < b.words[last] THEN -1 ELSE 1

IsBitSet(a, n) ==
  n \div W < a.length /\ Shr(a.words[n \div W], n % W) % 2 = 1
-----------------------------------------------------------------------------
(* Addition, subtraction and multiplication.                                *)

\* The words of u with those of z written from index j on.
Splice(u, j, z) == [i \in DOMAIN u |-> IF i - j \in DOMAIN z THEN z[i - j] ELSE u[i]]
From(u, j, n) == [i \in 0 .. n - 1 |-> u[j + i]]

\* Mutant of IncBy: the carry is not taken into the words that only one has.
IncByNoCarry(a, long, short) ==
  Int1024(Splice(long.words, 0, AddVV_g(short.length, long.words, short.words).z))

\* The length after an addition of m words that ended with the carry c.
Carried(words, m, c) ==
  CASE c = 0 -> [words |-> words, length |-> m]
    [] c # 0 /\ m < INT1024WORDS -> [words |-> [words EXCEPT ![m] = c], length |-> m + 1]
    [] OTHER -> Int1024(words)

\* The words of the longer number beyond the n that both have, after those.
IncHigh(a, long, n, low) ==
  LET m == long.length
      high == AddVW_g(m - n, From(long.words, n, m - n), low.c)
  IN  Carried(Splice(Splice(a.words, 0, low.z), n, high.z), m, high.c)

IncBy(a, long, short) ==
  IncHigh(a, long, short.length, AddVV_g(short.length, long.words, short.words))

Inc(a, b) ==
  CASE IsZero(b) -> a
    [] IsZero(a) /\ ~IsZero(b) ->
         [words |-> Splice(a.words, 0, From(b.words, 0, b.length)), length |-> b.length]
    [] OTHER -> IF a.length < b.length THEN IncBy(a, b, a) ELSE IncBy(a, a, b)

\* The length after a subtraction: a borrow from beyond the longer number makes
\* all further words maximal, and the length as well.
Borrowed(words, n, c) ==
  IF c = 0 THEN Int1024(words)
    ELSE [words |-> [i \in Array |-> IF i < n THEN words[i] ELSE M], length |-> INT1024WORDS]

DecHigh(a, n, low) ==
  LET high == SubVW_g(INT1024WORDS - n, From(a.words, n, INT1024WORDS - n), low.c)
      words == Splice(a.words, 0, low.z)
  IN  IF a.length > n THEN Borrowed(Splice(words, n, high.z), n, high.c)
        ELSE Borrowed(words, n, low.c)

Dec(a, b) ==
  IF IsZero(b) THEN a ELSE DecHigh(a, b.length, SubVV_g(b.length, a.words, b.words))

Add(a, b) == Inc(Clone(a), b)
Sub(a, b) == Dec(Clone(a), b)

\* BasicMul and BasicMulBig, into an array of the size given: for every word
\* of b, its product with a is added.
BasicMul(a, b, size) ==
  LET l == a.length
      Row(words, i) ==
        LET d == b.words[i]
            Step(s, j) ==
              LET p == MulWW(a.words[j - i], d)
                  z0 == (p.z + s.words[j]) % B
                  z == AddWW_g(z0, s.c, 0)
              IN  [words |-> [s.words EXCEPT ![j] = z.z], c |-> (z.c + p.c + Bit(z0 < p.z)) % B]
            row[k \in 0 .. l] == IF k = 0 THEN [words |-> words, c |-> 0]
                                   ELSE Step(row[k - 1], i + k - 1)
            last == row[l]
        IN  IF d = 0 THEN words ELSE [last.words EXCEPT ![l + i] = last.c]
      rows[k \in 0 .. b.length] == IF k = 0 THEN [i \in 0 .. size - 1 |-> 0]
                                     ELSE Row(rows[k - 1], k - 1)
  IN  rows[b.length]

\* The product with one word, whose length does not shrink with it.
mulAddWW(a, w) ==
  LET m == a.length
      p == MulAddVWW_g(m, a.words, w, 0)
      words == Splice(Zero.words, 0, p.z)
  IN  IF m < INT1024WORDS /\ p.c > 0 THEN [words |-> [words EXCEPT ![m] = p.c], length |-> m + 1]
        ELSE [words |-> words, length |-> m]

Mul(a, b) ==
  LET long == IF a.length < b.length THEN b ELSE a
      short == IF a.length < b.length THEN a ELSE b
      big == BasicMul(long, short, 2 * INT1024WORDS)
  IN  IF a.length >= b.length /\ (IsZero(a) \/ IsZero(b)) THEN Zero
      ELSE IF a.length >= b.length /\ b.length = 1 THEN mulAddWW(a, b.words[0])
      ELSE IF a.length + b.length <= INT1024WORDS THEN Int1024(BasicMul(long, short, INT1024WORDS))
      ELSE Int1024([i \in Array |-> big[i]])
-----------------------------------------------------------------------------
(* Division.                                                                *)

\* divW: division by one word, from the last word on.
divW(a, w) ==
  LET r[i \in 0 .. a.length] ==
        IF i = a.length THEN 0 ELSE DivWW_g(r[i + 1], a.words[i], w).r
  IN  IF w = 1 THEN [q |-> a, r |-> 0]
        ELSE [q |-> Int1024([i \in Array |-> IF i < a.length
                               THEN DivWW_g(r[i + 1], a.words[i], w).q ELSE a.words[i]]),
              r |-> r[0]]

\* Correction of an estimated word of the quotient.
RECURSIVE Digit(_, _, _, _, _)
Digit(qhat, rhat, vn1, vn2, ujn2) ==
  IF qhat * vn2 > rhat * B + ujn2
    THEN IF rhat + vn1 >= B THEN qhat - 1 ELSE Digit(qhat - 1, rhat + vn1, vn1, vn2, ujn2)
    ELSE qhat

\* The estimate of word j of the quotient by the n words of v.
Qhat(u, j, n, v) ==
  LET e == DivWW_g(u[j + n], u[j + n - 1], v[n - 1])
  IN  IF u[j + n] = v[n - 1] THEN M ELSE Digit(e.q, e.r, v[n - 1], v[n - 2], u[j + n - 2])

\* The divisor is added back once.
Restore(s, u, j, n, qhat, back) ==
  [u |-> [Splice(u, j, back.z) EXCEPT ![j + n] = (@ + back.c) % B],
   q |-> [s.q EXCEPT ![j] = qhat - 1]]

\* Mutant of AddBack: a word of the quotient that is one too large is kept.
AddBackNever(s, j, n, v, qhat, sub) ==
  [u |-> Splice(s.u, j, sub.z), q |-> [s.q EXCEPT ![j] = qhat]]

\* The estimate was right, or one too large when the subtraction ended with a
\* borrow.
AddBack(s, j, n, v, qhat, sub) ==
  LET u == Splice(s.u, j, sub.z)
  IN  IF sub.c = 0 THEN [u |-> u, q |-> [s.q EXCEPT ![j] = qhat]]
        ELSE Restore(s, u, j, n, qhat, AddVV_g(n, From(u, j, n), v))

Extended(n, p) == [i \in 0 .. n |-> IF i < n THEN p.z[i] ELSE p.c]

\* Subtract the product of the divisor with the estimate.
SubtractMultiple(s, j, n, v, qhat) ==
  AddBack(s, j, n, v, qhat,
          SubVV_g(n + 1, From(s.u, j, n + 1), Extended(n, MulAddVWW_g(n, v, qhat, 0))))

\* The quotient and the remainder are shifted back.
Unshifted(a, size, shift, s) ==
  LET r == Splice(s.u, 0, ShrVU_g(a.length + 1, s.u, shift))
  IN  [q |-> Int1024(s.q), r |-> Int1024(From(r, 0, size))]

\* The quotient is found word by word.
DivShifted(a, b, size, shift) ==
  LET n == b.length
      m == a.length - n
      v == ShlVU_g(INT1024WORDS, b.words, shift).z
      Step(s, j) == SubtractMultiple(s, j, n, v, Qhat(s.u, j, n, v))
      step[k \in 0 .. m + 1] ==
        IF k = 0 THEN [u |-> Splice([i \in 0 .. size |-> 0], 0,
                                    Extended(a.length, ShlVU_g(a.length, a.words, shift))),
                       q |-> [i \in 0 .. size - 1 |-> 0]]
          ELSE Step(step[k - 1], m - k + 1)
  IN  Unshifted(a, size, shift, step[m + 1])

\* divLarge and divDouble, for a dividend of the size given: the divisor is
\* shifted until its top bit is set.
divLarge(a, b, size) == DivShifted(a, b, size, Nlz(b.words[b.length - 1]))

\* The code panics when b is zero.
DivMod(a, b) ==
  LET d == divW(Clone(a), b.words[0])
  IN  IF Cmp(a, b) < 0 THEN [q |-> Zero, r |-> Clone(a)]
        ELSE IF b.length = 1 THEN [q |-> d.q, r |-> FromUint(d.r)]
        ELSE divLarge(a, b, INT1024WORDS)

Mod(a, n) ==
  LET cmp == Cmp(a, n)
  IN  CASE cmp = -1 -> Clone(a)
        [] cmp = 0 -> Zero
        [] cmp = 1 -> DivMod(a, n).r
-----------------------------------------------------------------------------
(* Arithmetic modulo n.                                                     *)

Negative(a, n) == IF IsZero(a) THEN a ELSE Sub(n, a)

SubModulo(a, b, n) ==
  CASE Cmp(a, b) = 1 -> Mod(Sub(a, b), n)
    [] Cmp(a, b) = 0 -> Zero
    [] Cmp(a, b) = -1 -> Negative(Mod(Sub(b, a), n), n)

\* Mutant of AddModulo: the sum is reduced after it has left the range.
AddModuloWraps(a, b, n) == Mod(Add(a, b), n)

\* The sum may leave the range: it is not taken while a top bit is set.
Fits(a, b) == ~IsBitSet(a, SIZE - 1) /\ ~IsBitSet(b, SIZE - 1)
Reduced(a, n) == IF Cmp(a, n) >= 0 THEN Mod(a, n) ELSE a
AddBelow(a, b, diff) == IF Cmp(diff, b) <= 0 THEN Sub(b, diff) ELSE Add(a, b)
AddReduced(a, b, n) ==
  IF Fits(a, b) THEN Mod(Add(a, b), n) ELSE AddBelow(a, b, Sub(n, a))
AddModulo(a, b, n) ==
  IF Fits(a, b) THEN Mod(Add(a, b), n) ELSE AddReduced(Reduced(a, n), Reduced(b, n), n)

\* The product is in an array of twice the size.
ModDouble(words, n) ==
  LET r == divLarge(Int1024(words), n, 2 * INT1024WORDS).r
  IN  IF LengthOf(words) <= INT1024WORDS THEN Mod(Int1024(From(words, 0, INT1024WORDS)), n)
        ELSE [words |-> From(r.words, 0, INT1024WORDS), length |-> r.length]
MulModuloBig(a, b, n) == ModDouble(BasicMul(a, b, 2 * INT1024WORDS), n)

MulModulo(a, b, n) ==
  CASE a.length + b.length <= INT1024WORDS -> Mod(Mul(a, b), n)
    [] a.length + b.length > INT1024WORDS /\ n.length < INT1024WORDS \div 2 ->
         Mod(Mul(Mod(a, n), Mod(b, n)), n)
    [] OTHER -> MulModuloBig(a, b, n)

\* The loop of ModInverse: the coefficients are kept without their signs, which
\* alternate.
RECURSIVE Euclid(_, _, _, _, _)
Euclid(lastX, X, a, b, iter) ==
  IF IsZero(b) THEN [inv |-> lastX, gcd |-> a, iter |-> iter]
    ELSE LET d == DivMod(a, b)
         IN  Euclid(X, Inc(lastX, Mul(d.q, X)), b, d.r, 1 - iter)

\* Mutant of Signed: the sign is forgotten.
SignedNever(e, n) == e.inv

Signed(e, n) == IF e.iter = 0 THEN Dec(n, e.inv) ELSE e.inv

\* The code panics when a and n are not coprime: a is then as it was.
ModInverse(a, n) ==
  LET Result(e) == IF EqualsWord(e.gcd, 1) THEN Signed(e, n) ELSE a
  IN  Result(Euclid(FromUint(1), Zero, a, n, 1))
-----------------------------------------------------------------------------
(* Bits.                                                                    *)

\* ShiftLeftInPlace: first by words, then by bits.
ShiftLeft(a, s) ==
  LET div == s \div W
      used == IF a.length + div < INT1024WORDS THEN a.length + div ELSE INT1024WORDS
      moved == [i \in Array |-> IF i < div THEN 0
                                ELSE IF i < used THEN a.words[i - div] ELSE a.words[i]]
      b == IF div = 0 THEN a ELSE [words |-> moved, length |-> LengthOf(From(moved, 0, used))]
      z == ShlVU_g(b.length, b.words, s % W)
      words == Splice(b.words, 0, z.z)
  IN  CASE IsZero(b) -> b
        [] ~IsZero(b) /\ z.c # 0 /\ b.length < INT1024WORDS ->
             [words |-> [words EXCEPT ![b.length] = z.c], length |-> b.length + 1]
        [] OTHER -> [words |-> words, length |-> LengthOf(From(words, 0, b.length))]

\* ShiftRightInPlace: first by words, then by bits, and the last word is dropped
\* when nothing is left of it.
ShiftRight(a, s) ==
  LET div == s \div W
      length == IF div > a.length THEN 0 ELSE a.length - div
      words == [i \in Array |-> IF i < length THEN a.words[i + div]
                                ELSE IF i < a.length THEN 0 ELSE a.words[i]]
      z == Splice(words, 0, ShrVU_g(length, words, s % W))
  IN  [words |-> z, length |-> IF length > 0 /\ z[length - 1] = 0 THEN length - 1 ELSE length]

\* Words that only the longer number has.
Rest(a, b, i) == IF b.length < a.length THEN a.words[i] ELSE b.words[i]
Both(a, b) == IF a.length < b.length THEN a.length ELSE b.length
Either(a, b) == IF a.length < b.length THEN b.length ELSE a.length

AND(a, b) == Int1024([i \in Array |-> IF i < Both(a, b) THEN a.words[i] & b.words[i] ELSE 0])

OR(a, b) ==
  Int1024([i \in Array |-> IF i < Both(a, b) THEN a.words[i] | b.words[i]
                           ELSE IF i < Either(a, b) THEN Rest(a, b, i) ELSE 0])

XOR(a, b) ==
  Int1024([i \in Array |-> IF i < Both(a, b) THEN a.words[i] ^^ b.words[i]
                           ELSE IF i < Either(a, b) THEN Rest(a, b, i) ELSE 0])

NOT(a) == Int1024([i \in Array |-> IF i < a.length THEN M - a.words[i] ELSE M])
-----------------------------------------------------------------------------

Init == x = Zero /\ value = 0

\* x becomes the result, and value what it is to be.
Becomes(result, expected) == x' = result /\ value' = expected

\* A subtraction that leaves the range, and a product with one word that does, may
\* have a length that is too large (Dec and mulAddWW assume it): the operations
\* below are called, as everywhere in the repository, where they do not.
Set(n) == Becomes(SetUint(x, n), n)
Increase(y) == Becomes(Inc(x, FromBytes(y)), (value + y) % Modulus)
Decrease(y) ==
  /\ y <= value
  /\ Becomes(Dec(x, FromBytes(y)), (value - y) % Modulus)
Multiply(y) ==
  /\ y >= B \/ value * y < Modulus
  /\ Becomes(Mul(x, FromBytes(y)), (value * y) % Modulus)
Divide(y) == y # 0 /\ Becomes(DivMod(x, FromBytes(y)).q, value \div y)
Reduce(y) == y # 0 /\ Becomes(Mod(x, FromBytes(y)), value % y)

AddMod(y, n) == Becomes(AddModulo(x, FromBytes(y), FromBytes(n)), (value + y) % n)
SubMod(y, n) == Becomes(SubModulo(x, FromBytes(y), FromBytes(n)), (value - y) % n)
MulMod(y, n) == Becomes(MulModulo(x, FromBytes(y), FromBytes(n)), (value * y) % n)

Invert(n) ==
  LET inverses == {i \in 1 .. n - 1 : (value * i) % n = 1}
  IN  Becomes(ModInverse(x, FromBytes(n)),
              IF inverses = {} THEN value ELSE CHOOSE i \in inverses : TRUE)

ShiftBy(s) ==
  \/ Becomes(ShiftLeft(x, s), (value * 2^s) % Modulus)
  \/ Becomes(ShiftRight(x, s), value \div 2^s)
Bits(y) ==
  \/ Becomes(AND(x, FromBytes(y)), value & y)
  \/ Becomes(OR(x, FromBytes(y)), value | y)
  \/ Becomes(XOR(x, FromBytes(y)), value ^^ y)
Complement == Becomes(NOT(x), Modulus - 1 - value)

Next ==
  \/ \E n \in 0 .. M : Set(n)
  \/ \E y \in Operands : Increase(y) \/ Decrease(y) \/ Multiply(y) \/ Divide(y) \/ Reduce(y)
                         \/ Bits(y)
  \/ \E y \in Operands, n \in Moduli : AddMod(y, n) \/ SubMod(y, n) \/ MulMod(y, n)
  \/ \E n \in Moduli : Invert(n)
  \/ \E s \in 0 .. SIZE : ShiftBy(s)
  \/ Complement

Spec == Init /\ [][Next]_vars
-----------------------------------------------------------------------------

\* Whatever is called in whatever order, the number has the words of its value
\* and the length that goes with them: carries, borrows, the corrections of the
\* division and the range that sums and products leave are all right.
NumbersRight == x = FromBytes(value)
=============================================================================
