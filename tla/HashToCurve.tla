----------------------------- MODULE HashToCurve -----------------------------
(***************************************************************************)
(* arm_core/src/hash_to_curve.rs, which gives every kind its point: two    *)
(* field elements are mapped to a curve that is 3-isogenous to secp256k1,  *)
(* from there to secp256k1, and added.  The 256-bit prime is replaced by   *)
(* small ones for which all that the algorithm relies on holds as well;    *)
(* the numbers the code has as constants are the fields of a curve.        *)
(***************************************************************************)
EXTENDS Integers, Sequences
LOCAL INSTANCE SequencesExt

CONSTANTS Curves,        \* small curves with their constants
          Expansions(_), \* pairs of integers that the expanded message, cut
                         \* in two, may stand for
          LimbBits       \* width of a limb of the exponent, 64 in the code

VARIABLES curve, expanded, point

vars == <<curve, expanded, point>>

-----------------------------------------------------------------------------
(* The field.                                                              *)

P     == curve.p
Field == 0..(P - 1)

Add(x, y)  == (x + y) % P
Mul(x, y)  == (x * y) % P
Neg(x)     == (P - x) % P
Square(x)  == Mul(x, x)
Cube(x)    == Mul(Square(x), x)
Invert(x)  == IF x = 0 THEN 0 ELSE CHOOSE y \in Field : Mul(x, y) = 1

IsOdd(x) == x % 2 = 1

\* The bits of the exponent (p - 3) / 4, limb by limb, the lowest first.
ExponentBits ==
  FlattenSeq([l \in DOMAIN curve.c1 |->
                [k \in 1..LimbBits |-> (curve.c1[l] \div 2^(k - 1)) % 2]])

\* Square and multiply.
PowC1(x) ==
  FoldLeft(LAMBDA acc, bit : [result |-> IF bit = 1 THEN Mul(acc.result, acc.base) ELSE acc.result,
                              base   |-> Square(acc.base)],
           [result |-> 1, base |-> x], ExponentBits).result

-----------------------------------------------------------------------------
(* From the field to the isogenous curve y^2 = x^3 + ax + b.               *)

\* Fault: the exceptional inputs are not told apart.
XDenominatorUnguarded(tv3) == Mul(Add(Square(tv3), tv3), Neg(curve.a))

XDenominator(tv3) ==
  LET xd == Mul(Add(Square(tv3), tv3), Neg(curve.a))
  IN  IF xd = 0 THEN Mul(curve.z, curve.a) ELSE xd

\* Numbers as in the code: x1 = x1n / xd, and gx1 / gxd = g(x1).
Osswu(u) ==
  LET tv1 == Square(u)
      tv3 == Mul(curve.z, tv1)
      x1n == Mul(curve.b, Add(Add(Square(tv3), tv3), 1))
      xd  == XDenominator(tv3)
      gxd == Cube(xd)
      gx1 == Add(Mul(x1n, Add(Mul(Square(xd), curve.a), Square(x1n))), Mul(gxd, curve.b))
      tv2 == Mul(gx1, gxd)
      y1  == Mul(PowC1(Mul(Square(gxd), tv2)), tv2)
      y2  == Mul(Mul(Mul(y1, curve.c2), tv1), u)
      e2  == Mul(Square(y1), gxd) = gx1
      y   == IF e2 THEN y1 ELSE y2
  IN  [x |-> Mul(IF e2 THEN x1n ELSE Mul(tv3, x1n), Invert(xd)),
       y |-> IF IsOdd(u) # IsOdd(y) THEN Neg(y) ELSE y]

-----------------------------------------------------------------------------
(* From there to secp256k1, which is y^2 = x^3 + b here.                   *)

\* Fault: the coefficients are read from the highest degree.
HornerFromTop(coeffs, x) == FoldLeft(LAMBDA acc, c : Add(Mul(acc, x), c), 0, coeffs)

\* Coefficients from the lowest degree.
Horner(coeffs, x) == FoldRight(LAMBDA c, acc : Add(Mul(acc, x), c), coeffs, 0)

Isogeny(r) ==
  [x |-> Mul(Horner(curve.xnum, r.x), Invert(Horner(curve.xden, r.x))),
   y |-> Mul(Mul(r.y, Horner(curve.ynum, r.x)), Invert(Horner(curve.yden, r.x)))]

\* from_xy_nonidentity gives a point exactly on the curve.
OnCurve(q) == Square(q.y) = Add(Cube(q.x), curve.target)

Infinity == [infinity |-> TRUE]

\* Fault: equal points are taken for opposite ones.
SumUndoubled(q, r) ==
  LET slope == Mul(Add(r.y, Neg(q.y)), Invert(Add(r.x, Neg(q.x))))
      x     == Add(Square(slope), Neg(Add(q.x, r.x)))
  IN  IF q.x = r.x THEN Infinity
      ELSE [x |-> x, y |-> Add(Mul(slope, Add(q.x, Neg(x))), Neg(q.y))]

\* The group law.
Sum(q, r) ==
  LET slope == IF q.x = r.x THEN Mul(Mul(3, Square(q.x)), Invert(Mul(2, q.y)))
                            ELSE Mul(Add(r.y, Neg(q.y)), Invert(Add(r.x, Neg(q.x))))
      x     == Add(Square(slope), Neg(Add(q.x, r.x)))
  IN  IF q.x = r.x /\ q.y = Neg(r.y) THEN Infinity
      ELSE [x |-> x, y |-> Add(Mul(slope, Add(q.x, Neg(x))), Neg(q.y))]

-----------------------------------------------------------------------------
\* Each of the two chunks, as a big-endian integer, is reduced.
HashToField == [k \in DOMAIN expanded |-> expanded[k] % P]

Mapped == [k \in DOMAIN expanded |-> Osswu(HashToField[k])]

Nothing == [pending |-> TRUE]
Panic   == [panic |-> TRUE]

\* Both unwraps come before the sum.
HashFromBytes ==
  /\ point = Nothing
  /\ LET q == [k \in DOMAIN expanded |-> Isogeny(Mapped[k])]
     IN  point' = IF OnCurve(q[1]) /\ OnCurve(q[2]) THEN Sum(q[1], q[2]) ELSE Panic
  /\ UNCHANGED <<curve, expanded>>

Init == /\ curve \in Curves
        /\ expanded \in Expansions(curve)
        /\ point = Nothing

Spec == Init /\ [][HashFromBytes]_vars

-----------------------------------------------------------------------------
(* Every message has a kind point: no input of the map leaves the curve,   *)
(* none meets the kernel of the isogeny, where its denominators vanish, so *)
(* no unwrap fails, and the sum is on the curve.                           *)
EveryMessageHasAPoint ==
  point # Nothing => point # Panic /\ (point = Infinity \/ OnCurve(point))

G(x) == Add(Add(Cube(x), Mul(curve.a, x)), curve.b)

\* Simplified SWU as it is defined, with divisions and square roots.
SimplifiedSWU(u) ==
  LET zu2 == Mul(curve.z, Square(u))
      den == Add(Square(zu2), zu2)
      x1  == IF den = 0 THEN Mul(curve.b, Invert(Mul(curve.z, curve.a)))
             ELSE Mul(Mul(Neg(curve.b), Invert(curve.a)), Add(1, Invert(den)))
      x   == IF \E y \in Field : Square(y) = G(x1) THEN x1 ELSE Mul(zu2, x1)
  IN  [x |-> x, y |-> CHOOSE y \in Field : Square(y) = G(x) /\ (y % 2 = u % 2)]

(* The map without divisions and with one exponentiation finds the point   *)
(* that simplified SWU defines, the exceptional inputs and the choice of   *)
(* the root included.                                                      *)
MapIsSimplifiedSWU ==
  \A k \in DOMAIN expanded : Mapped[k] = SimplifiedSWU(HashToField[k])

(* The point is the identity, which is no kind, only where two opposite    *)
(* points are added: the isogeny merges no others.                         *)
IdentityOnlyFromOpposites ==
  point = Infinity => Mapped[1] = [Mapped[2] EXCEPT !.y = Neg(@)]
=============================================================================
