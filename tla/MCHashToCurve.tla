---------------------------- MODULE MCHashToCurve ----------------------------
(***************************************************************************)
(* Two small curves with a = 1 that are 3-isogenous to some y^2 = x^3 + b  *)
(* of prime order, p = 7 modulo 12 as for secp256k1; the constants follow  *)
(* by the formulas of Velu, and z and c2 by those of RFC 9380.  All pairs  *)
(* of field elements, and some that are not reduced.  Beside them, the     *)
(* constants of the code over the field of the code: a behaviour does one  *)
(* or the other.                                                           *)
(***************************************************************************)
EXTENDS HashToCurve

VARIABLES name, base, result, step   \* see MapConstants

Secp == INSTANCE MapConstants

MCCurves ==
  {[p |-> 67, a |-> 1, b |-> 54, z |-> 5, c2 |-> 64, c1 |-> <<0, 1>>, target |-> 50,
    xnum |-> <<50, 32, 47, 15>>, xden |-> <<60, 21, 1>>,
    ynum |-> <<34, 28, 57, 5>>,  yden |-> <<27, 46, 65, 1>>],
   [p |-> 79, a |-> 1, b |-> 6, z |-> 71, c2 |-> 65, c1 |-> <<3, 1>>, target |-> 30,
    xnum |-> <<69, 43, 30, 44>>, xden |-> <<55, 33, 1>>,
    ynum |-> <<72, 26, 15, 41>>, yden |-> <<78, 7, 10, 1>>]}

MCExpansions(c) == {<<i, j>> : i \in 0..(c.p + 1), j \in 0..(c.p - 1)}

-----------------------------------------------------------------------------
\* A half that is at rest: no curve, or past the steps of MapConstants that
\* are looked at.
NoCurve == [none |-> TRUE]
AtRest  == 16

MCInit == \/ Init /\ name = "none" /\ base = <<>> /\ result = <<>> /\ step = AtRest
          \/ Secp!Init /\ curve = NoCurve /\ expanded = <<>> /\ point = Nothing

MCNext == \/ curve # NoCurve /\ HashFromBytes /\ UNCHANGED <<name, base, result, step>>
          \/ curve = NoCurve /\ Secp!PowC1 /\ UNCHANGED vars

MCSpec == MCInit /\ [][MCNext]_<<vars, name, base, result, step>>

(* The isogeny of the code leads to secp256k1: see MapConstants.           *)
IsogenyMapsCurves == Secp!IsogenyMapsCurves

(* z, the exceptional inputs and the kernel are what the map takes for     *)
(* granted: see MapConstants.                                              *)
CharactersFit == Secp!CharactersFit

(* c2 gives the second candidate its root: see MapConstants.               *)
C2IsRootOfMinusZCubed == Secp!C2IsRootOfMinusZCubed
==============================================================================
