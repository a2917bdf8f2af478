----------------------------- MODULE MCDeltaProof -----------------------------
(***************************************************************************)
(* The curve y^2 = x^3 + 7 over the field of 43 elements, of order 31: the *)
(* equation of secp256k1, and a cofactor of one.  Three parties, two of    *)
(* which may cancel out, alone or with the third.                          *)
(***************************************************************************)
EXTENDS DeltaProof

CONSTANTS p1, p2, p3

MCXCoordinate == <<2, 7, 35, 21, 12, 29, 25, 32, 20, 42, 40, 37, 13, 34,
    38, 38, 34, 13, 37, 40, 42, 20, 32, 25, 29, 12, 21, 35, 7, 2>>

YCoordinate == <<12, 7, 21, 18, 12, 31, 18, 40, 40, 7, 25, 36, 21, 40,
    21, 22, 3, 22, 7, 18, 36, 3, 3, 25, 12, 31, 25, 22, 36, 31>>

MCYIsOdd == [k \in 1..30 |-> YCoordinate[k] % 2 = 1]

ASSUME OnTheCurve ==
  \A k \in 1..30 : (YCoordinate[k]^2) % 43 = (MCXCoordinate[k]^3 + 7) % 43

MCSecrets(p) == CASE p = p1 -> {<<1>>, <<4, 27>>}
                  [] p = p2 -> {<<30>>, <<2, 9>>}
                  [] p = p3 -> {<<6>>, <<1>>}
=============================================================================
