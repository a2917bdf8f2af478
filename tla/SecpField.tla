------------------------------ MODULE SecpField ------------------------------
(***************************************************************************)
(* The base field of secp256k1, of prime order p = 2^256 - 2^32 - 977, as  *)
(* the openvm library provides it.  A number is a sequence of 33 digits to *)
(* the base 256, the lowest first; a digit may exceed 255, and a number    *)
(* may be written in several ways, which Same tells apart from others.     *)
(***************************************************************************)
EXTENDS Integers, Sequences

\* The sequence of a function on 1..n; TLC computes a concatenation at once.
Listed(f) == f \o <<>>

Digit(digits, k) == IF k \in DOMAIN digits THEN digits[k] ELSE 0

\* Big-endian bytes, as constants are written.
Number(bytes) == Listed([k \in 1..33 |-> Digit(bytes, 33 - k)])

\* An integer below 2^24.
Small(n) == Listed([k \in 1..33 |-> IF k <= 3 THEN (n \div 256^(k - 1)) % 256 ELSE 0])

\* What a digit below 2^32 has beyond a byte goes to the next three.
Spread(digits) ==
  Listed([k \in 1..(Len(digits) + 3) |->
            (Digit(digits, k) % 256) + ((Digit(digits, k - 1) \div 256) % 256)
              + ((Digit(digits, k - 2) \div 65536) % 256) + (Digit(digits, k - 3) \div 16777216)])

\* What exceeds 256 bits counts 2^32 + 977 times.
Folded(digits) ==
  LET high(k) == IF k > 0 THEN Digit(digits, k + 32) ELSE 0
      n       == IF Len(digits) > 60 THEN Len(digits) - 28 ELSE 32
  IN  Listed([k \in 1..n |-> (IF k <= 32 THEN digits[k] ELSE 0) + 977 * high(k) + high(k - 4)])

Reduced(digits) == SubSeq(Spread(Folded(Spread(Folded(Spread(digits))))), 1, 33)

\* Every digit a byte.
Carried(digits) ==
  LET carry[k \in 0..33] == IF k = 0 THEN 0 ELSE (digits[k] + carry[k - 1]) \div 256
  IN  Listed([k \in 1..33 |-> (digits[k] + (IF k = 1 THEN 0 ELSE carry[k - 1])) % 256])

\* A number is p or more if 2^32 + 977 more make it overflow.
Canonical(x) ==
  LET bytes == Carried(Append(Folded(Carried(x)), 0))
      over  == Carried(Listed([k \in 1..33 |-> bytes[k] + Digit(<<209, 3, 0, 0, 1>>, k)]))
  IN  SubSeq(IF over[33] = 0 THEN bytes ELSE over, 1, 32)

Same(x, y) == Canonical(x) = Canonical(y)

Add(x, y) == Reduced(Listed([k \in 1..33 |-> x[k] + y[k]]))

\* The digit of a product that counts 256^(n - 1).
ProductDigit(x, y, n) ==
  LET first == IF n <= 33 THEN 1 ELSE n - 32
      sum[k \in 1..33] == x[k] * y[n - k + 1] + (IF k = first THEN 0 ELSE sum[k - 1])
  IN  sum[IF n <= 33 THEN n ELSE 33]

Mul(x, y) == Reduced(Listed([n \in 1..65 |-> ProductDigit(x, y, n)]))

Square(x) == Mul(x, x)
Cube(x)   == Mul(Square(x), x)
Neg(x)    == Mul(Number([k \in 1..32 |-> IF k = 28 THEN 254 ELSE IF k = 31 THEN 252
                                         ELSE IF k = 32 THEN 46 ELSE 255]), x)
==============================================================================
