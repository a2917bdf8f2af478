------------------------------- MODULE Scalar -------------------------------
(***************************************************************************)
(* k256::Scalar: numbers modulo the order of the group, which blinding     *)
(* scalars, signing keys and the coefficients of points all are.           *)
(***************************************************************************)
EXTENDS Integers

CONSTANT Order   \* of the curve; above every sum of quantities

ASSUME OrderAssumption == Order \in Nat /\ Order > 1

Scalars == 0..(Order - 1)
=============================================================================
