---------------------------- MODULE GuestContract ----------------------------
(***************************************************************************)
(* What the compliance guest promises: it decides in one step whether its  *)
(* witness is acceptable and, only if it is, reveals the digest of the one *)
(* journal that the witness determines.                                    *)
(***************************************************************************)
CONSTANTS Acceptable(_),   \* the witnesses there is a proof for
          DigestOf(_),     \* what such a proof reveals
          NoDigest         \* nothing is revealed

VARIABLES witness, outcome, revealed

vars == <<witness, outcome, revealed>>

-----------------------------------------------------------------------------
\* The prover chooses the witness: the contract holds for any.
Init == outcome = "running" /\ revealed = NoDigest

Decide == /\ outcome = "running"
          /\ \/ /\ Acceptable(witness)
                /\ outcome' = "Ok"
                /\ revealed' = DigestOf(witness)
             \/ /\ ~Acceptable(witness)
                /\ outcome' = "aborted"
                /\ revealed' = revealed
          /\ UNCHANGED witness

Safety == Init /\ [][Decide]_vars

Spec == Safety /\ WF_vars(Decide)
==============================================================================
