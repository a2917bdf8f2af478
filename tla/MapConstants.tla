---------------------------- MODULE MapConstants ----------------------------
(***************************************************************************)
(* The numbers in arm_core/src/hash_to_curve.rs, as they are.  HashToCurve *)
(* shows that the algorithm is right if its constants are; here they are.  *)
(* The exponentiation of the code runs on three numbers, bit by bit; the   *)
(* bits consumed double as a point at which polynomials are compared.  Two *)
(* polynomials of degree 15 that agree on 16 points are the same.          *)
(***************************************************************************)
EXTENDS SecpField

VARIABLES name, base, result, step   \* the loop of pow_c1: for which number,
                                     \* its two accumulators, bits consumed
vars == <<name, base, result, step>>

-----------------------------------------------------------------------------
MapA ==
  Number(<<\h3f, \h87, \h31, \hab, \hdd, \h66, \h1a, \hdc, \ha0, \h8a, \h55, \h58, \hf0, \hf5, \hd2, \h72,
           \he9, \h53, \hd3, \h63, \hcb, \h6f, \h0e, \h5d, \h40, \h54, \h47, \hc0, \h1a, \h44, \h45, \h33>>)

\* Fault: a digit is mistyped.
MapBMistyped == Small(1777)

MapB == Small(1771)

ZParam ==
  Number(<<\hff, \hff, \hff, \hff, \hff, \hff, \hff, \hff, \hff, \hff, \hff, \hff, \hff, \hff, \hff, \hff,
           \hff, \hff, \hff, \hff, \hff, \hff, \hff, \hff, \hff, \hff, \hff, \hfe, \hff, \hff, \hfc, \h24>>)

\* Fault: the root of 11 that the comment asks for.
C2OfComment ==
  Number(<<\h31, \hfd, \hf3, \h02, \h72, \h40, \h13, \he5, \h7a, \hd1, \h3f, \hb3, \h8f, \h84, \h2a, \hfe,
           \hec, \h18, \h4f, \h00, \ha7, \h47, \h89, \hdd, \h28, \h67, \h29, \hc8, \h30, \h3c, \h4a, \h59>>)

C2Param ==
  Number(<<\h25, \he9, \h71, \h1a, \he8, \hc0, \hda, \hdc, \h46, \hfd, \hbc, \hb7, \h2a, \had, \hd8, \hf4,
           \h25, \h0b, \h65, \h07, \h30, \h12, \hec, \h80, \hbc, \h6e, \hcb, \h9c, \h12, \h97, \h39, \h75>>)

XNum ==
  <<Number(<<\h8e, \h38, \he3, \h8e, \h38, \he3, \h8e, \h38, \he3, \h8e, \h38, \he3, \h8e, \h38, \he3, \h8e,
             \h38, \he3, \h8e, \h38, \he3, \h8e, \h38, \he3, \h8e, \h38, \he3, \h8d, \haa, \haa, \ha8, \hc7>>),
    Number(<<\h07, \hd3, \hd4, \hc8, \h0b, \hc3, \h21, \hd5, \hb9, \hf3, \h15, \hce, \ha7, \hfd, \h44, \hc5,
             \hd5, \h95, \hd2, \hfc, \h0b, \hf6, \h3b, \h92, \hdf, \hff, \h10, \h44, \hf1, \h7c, \h65, \h81>>),
    Number(<<\h53, \h4c, \h32, \h8d, \h23, \hf2, \h34, \he6, \he2, \ha4, \h13, \hde, \hca, \h25, \hca, \hec,
             \he4, \h50, \h61, \h44, \h03, \h7c, \h40, \h31, \h4e, \hcb, \hd0, \hb5, \h3d, \h9d, \hd2, \h62>>),
    Number(<<\h8e, \h38, \he3, \h8e, \h38, \he3, \h8e, \h38, \he3, \h8e, \h38, \he3, \h8e, \h38, \he3, \h8e,
             \h38, \he3, \h8e, \h38, \he3, \h8e, \h38, \he3, \h8e, \h38, \he3, \h8d, \haa, \haa, \ha8, \h8c>>)>>

XDen ==
  <<Number(<<\hd3, \h57, \h71, \h19, \h3d, \h94, \h91, \h8a, \h9c, \ha3, \h4c, \hcb, \hb7, \hb6, \h40, \hdd,
             \h86, \hcd, \h40, \h95, \h42, \hf8, \h48, \h7d, \h9f, \he6, \hb7, \h45, \h78, \h1e, \hb4, \h9b>>),
    Number(<<\hed, \had, \hc6, \hf6, \h43, \h83, \hdc, \h1d, \hf7, \hc4, \hb2, \hd5, \h1b, \h54, \h22, \h54,
             \h06, \hd3, \h6b, \h64, \h1f, \h5e, \h41, \hbb, \hc5, \h2a, \h56, \h61, \h2a, \h8c, \h6d, \h14>>),
    Small(1)>>

YNum ==
  <<Number(<<\h4b, \hda, \h12, \hf6, \h84, \hbd, \ha1, \h2f, \h68, \h4b, \hda, \h12, \hf6, \h84, \hbd, \ha1,
             \h2f, \h68, \h4b, \hda, \h12, \hf6, \h84, \hbd, \ha1, \h2f, \h68, \h4b, \h8e, \h38, \he2, \h3c>>),
    Number(<<\hc7, \h5e, \h0c, \h32, \hd5, \hcb, \h7c, \h0f, \ha9, \hd0, \ha5, \h4b, \h12, \ha0, \ha6, \hd5,
             \h64, \h7a, \hb0, \h46, \hd6, \h86, \hda, \h6f, \hdf, \hfc, \h90, \hfc, \h20, \h1d, \h71, \ha3>>),
    Number(<<\h29, \ha6, \h19, \h46, \h91, \hf9, \h1a, \h73, \h71, \h52, \h09, \hef, \h65, \h12, \he5, \h76,
             \h72, \h28, \h30, \ha2, \h01, \hbe, \h20, \h18, \ha7, \h65, \he8, \h5a, \h9e, \hce, \he9, \h31>>),
    Number(<<\h2f, \h68, \h4b, \hda, \h12, \hf6, \h84, \hbd, \ha1, \h2f, \h68, \h4b, \hda, \h12, \hf6, \h84,
             \hbd, \ha1, \h2f, \h68, \h4b, \hda, \h12, \hf6, \h84, \hbd, \ha1, \h2f, \h38, \he3, \h8d, \h84>>)>>

YDen ==
  <<Number(<<\hff, \hff, \hff, \hff, \hff, \hff, \hff, \hff, \hff, \hff, \hff, \hff, \hff, \hff, \hff, \hff,
             \hff, \hff, \hff, \hff, \hff, \hff, \hff, \hff, \hff, \hff, \hff, \hfe, \hff, \hff, \hf9, \h3b>>),
    Number(<<\h7a, \h06, \h53, \h4b, \hb8, \hbd, \hb4, \h9f, \hd5, \he9, \he6, \h63, \h27, \h22, \hc2, \h98,
             \h94, \h67, \hc1, \hbf, \hc8, \he8, \hd9, \h78, \hdf, \hb4, \h25, \hd2, \h68, \h5c, \h25, \h73>>),
    Number(<<\h64, \h84, \haa, \h71, \h65, \h45, \hca, \h2c, \hf3, \ha7, \h0c, \h3f, \ha8, \hfe, \h33, \h7e,
             \h0a, \h3d, \h21, \h16, \h2f, \h0d, \h62, \h99, \ha7, \hbf, \h81, \h92, \hbf, \hd2, \ha7, \h6f>>),
    Small(1)>>

-----------------------------------------------------------------------------
(* The exponent c1 and the loop of pow_c1.                                 *)

\* The limbs of 64 bits in bytes, the highest first.
Limb(high, middle, low) == <<high, 255, 255, 255, middle, 255, low[1], low[2]>>
C1 == <<Limb(255, 191, <<255, 11>>), Limb(255, 255, <<255, 255>>),
        Limb(255, 255, <<255, 255>>), Limb(63, 255, <<255, 255>>)>>

BitsOfLimb(limb) == Listed([k \in 1..64 |-> (limb[8 - (k - 1) \div 8] \div 2^((k - 1) % 8)) % 2])

\* Fault: the highest limb first.
ExponentBitsFromTop == BitsOfLimb(C1[4]) \o BitsOfLimb(C1[3]) \o BitsOfLimb(C1[2]) \o BitsOfLimb(C1[1])

ExponentBits == BitsOfLimb(C1[1]) \o BitsOfLimb(C1[2]) \o BitsOfLimb(C1[3]) \o BitsOfLimb(C1[4])

Horner(coeffs, y) ==
  LET value[k \in DOMAIN coeffs] ==
        IF k = Len(coeffs) THEN coeffs[k] ELSE Add(Mul(value[k + 1], y), coeffs[k])
  IN  value[1]

-----------------------------------------------------------------------------
(* The numbers that pow_c1 is tried on.                                    *)

\* The candidate of the exceptional inputs is b / (z a): the cubic there,
\* times a fourth power.
AtExceptional ==
  LET za == Mul(ZParam, MapA)
  IN  Add(Add(Mul(za, Cube(MapB)), Mul(Mul(MapA, MapB), Cube(za))),
          Mul(MapB, Square(Square(za))))

\* The denominators vanish at -xden[1] / 2: the cubic there, times sixteen.
AtKernel ==
  LET d == XDen[2]
  IN  Add(Mul(Small(16), MapB), Neg(Add(Mul(Small(2), Cube(d)), Mul(Small(8), Mul(MapA, d)))))

Numbers == [z |-> ZParam, exceptional |-> AtExceptional, kernel |-> AtKernel]

Init == /\ name \in DOMAIN Numbers
        /\ base = Numbers[name]
        /\ result = Small(1)
        /\ step = 0

PowC1 == /\ step < Len(ExponentBits)
         /\ result' = IF ExponentBits[step + 1] = 1 THEN Mul(result, base) ELSE result
         /\ base' = Square(base)
         /\ step' = step + 1
         /\ UNCHANGED name

Spec == Init /\ [][PowC1]_vars

-----------------------------------------------------------------------------
X == Small(step)

(* The isogeny leads from the curve of the map to y^2 = x^3 + 7: the two   *)
(* sides are polynomials of degree 15 and agree everywhere.  Its           *)
(* denominators are the square and the cube of one linear factor, the one  *)
(* of AtKernel.                                                            *)
IsogenyMapsCurves ==
  LET xden == Cube(Horner(XDen, X))
      g    == Add(Cube(X), Add(Mul(MapA, X), MapB))
  IN  step <= 15 =>
        /\ Same(Mul(Mul(g, Square(Horner(YNum, X))), xden),
                Mul(Add(Cube(Horner(XNum, X)), Mul(Small(7), xden)), Square(Horner(YDen, X))))
        /\ Same(Square(Horner(YDen, X)), xden)
        /\ Same(Square(XDen[2]), Mul(Small(4), XDen[1]))

\* By Euler's criterion, with the exponent of the code, a square has 1 here,
\* and any other number -1.
Character == Mul(Square(result), Numbers[name])

(* What the map takes for granted of z and of the isogeny: z is no square, *)
(* so one of two candidates has a root; the candidate of the exceptional   *)
(* inputs has one; and no point of the curve lies where the denominators   *)
(* vanish.                                                                 *)
CharactersFit ==
  step = Len(ExponentBits) =>
    Same(Character, IF name = "exceptional" THEN Small(1) ELSE Neg(Small(1)))

(* What the second candidate needs: y2 = y1 * c2 * u^3 is a root for it if *)
(* c2 is a root of -z^3.                                                   *)
C2IsRootOfMinusZCubed == step = 0 => Same(Square(C2Param), Neg(Cube(ZParam)))

(* The comment on c2_param: "c2 = sqrt(-Z) mod p, precomputed".            *)
C2AsCommented == step = 0 => Same(Square(C2Param), Neg(ZParam))
=============================================================================
