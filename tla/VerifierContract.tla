-------------------------- MODULE VerifierContract --------------------------
(***************************************************************************)
(* What verifying a transaction promises: in one step it accepts the       *)
(* transactions that deserve it and turns down all others.                 *)
(***************************************************************************)
CONSTANT Deserving(_)   \* the transactions to be accepted

VARIABLES tx, result

vars == <<tx, result>>

Init == result = "running"

Decide == /\ result = "running"
          /\ result' = IF Deserving(tx) THEN "accepted" ELSE "rejected"
          /\ UNCHANGED tx

Safety == Init /\ [][Decide]_vars

Spec == Safety /\ WF_vars(Decide)
=============================================================================
