---------------------------- MODULE MCProofCache ----------------------------
(***************************************************************************)
(* Two runs at a time, two versions of the guest and of the fixture.       *)
(***************************************************************************)
EXTENDS ProofCache, TLC

RunsSymmetry == Permutations(Runs)
=============================================================================
