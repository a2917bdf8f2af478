-------------------------------- MODULE Hash --------------------------------
(***************************************************************************)
(* Keccak-256 as arm_core/src/hash.rs uses it.  A digest is a term that    *)
(* remembers its preimage, so two digests are equal exactly when their     *)
(* preimages are: collision freedom is the one cryptographic assumption.   *)
(* A preimage is the sequence of blocks the caller concatenates.  Nothing  *)
(* separates the domains of two callers, exactly as in the code.           *)
(***************************************************************************)
Keccak(blocks) == [keccak |-> blocks]

\* Both versions of the two-to-one hash, on the heap and on the stack.
HashTwo(left, right) == Keccak(<<left, right>>)
=============================================================================
